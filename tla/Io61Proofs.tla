----------------------------- MODULE Io61Proofs -----------------------------
(***************************************************************************)
(* Proofs that the copy programs lose, repeat and misplace no byte.        *)
(*                                                                         *)
(* The bytes between the input and the output are followed by their        *)
(* numbers: a byte that has been taken from the input has a place in the   *)
(* input, from which it is counted on towards the reader, and a place in   *)
(* the output, from which it is counted back to the output.  The two meet  *)
(* in the block that the program holds.                                    *)
(***************************************************************************)
EXTENDS Io61, FiniteSetTheorems, FunctionTheorems, SequenceTheorems, TLAPS

-----------------------------------------------------------------------------
(* The inductive invariant.                                                *)

InOrder == run.prog \in {"cat", "block", "varblock"}
Streams == run.prog # "reversewrite"  \* the output is written from its start to its end
Knows == run.prog \in {"reverse", "reversewrite", "stride"}  \* the input's size

\* s holds the values of f from n on.
Follows(s, f, n) ==
  /\ s \in Seq(Nat) /\ n \in Nat
  /\ \A i \in 1 .. Len(s) : n + i - 1 \in DOMAIN f /\ s[i] = f[n + i - 1]
Counting == [o \in Nat |-> o]

\* Bytes in the output file, and bytes written; the places in the output, and in the
\* input, of the first byte of the block.
Stored == Cardinality(DOMAIN out)
Sent == Stored + Len(opipe) + Len(wbuf)
Place == Sent - nw
Taken == ioff - Len(ipipe) - Len(rbuf)
From == Taken - Len(buf)

\* Where the program is in a round of its loop.
At(p) == pc = p \/ (pc = "flush" /\ ret = p)
Reading == pc = "read"
Holding == At("write") \/ At("seek")
Between == At("top")
Ending == At("close") \/ pc = "exit"

Types ==
  /\ TypeOK
  /\ {left, pos, written, want, nw, ioff, ooff} \subseteq Nat
  /\ {buf, ipipe, rbuf, wbuf, opipe} \subseteq Seq(Nat)

InputInv ==
  /\ run.src = "file" => ipipe = <<>> /\ ~wopen
  /\ run.src = "pipe" /\ ~wopen => ioff = run.size
  /\ run.ilib # "stdio" => rbuf = <<>>
  /\ Follows(ipipe, Counting, ioff - Len(ipipe))
  /\ Follows(rbuf, Counting, Taken)

OutputInv ==
  /\ out = [o \in DOMAIN out |-> Wanted[o]]
  /\ DOMAIN out \subseteq 0 .. Total - 1
  /\ run.dst = "file" => opipe = <<>>
  /\ run.olib # "stdio" => wbuf = <<>>

\* What is on its way to the output continues it.
StreamInv == Streams =>
  /\ Stored \in Nat /\ DOMAIN out = 0 .. Stored - 1
  /\ Follows(opipe, Wanted, Stored)
  /\ Follows(wbuf, Wanted, Stored + Len(opipe))
  /\ Follows(buf, Wanted, Place) /\ Place + Len(buf) <= Total
  /\ run.dst = "file" => ooff = Stored

\* reversewrite61 fills the output from its end: up to here, or one byte more in a
\* buffer.
Accepted == IF Reading \/ Holding THEN left + 1 ELSE left
BackInv == ~Streams =>
  /\ Len(wbuf) <= 1 /\ Len(buf) <= 1
  /\ Holding => buf[1] = Wanted[left]
  /\ pc = "flush" => wbuf # <<>>
  /\ At("write") => pc = "write" /\ wbuf = <<>> /\ ooff = left
  /\ pc \notin {"abort", "killed"} =>
       /\ Accepted <= Total
       /\ DOMAIN out = Accepted + Len(wbuf) .. Total - 1
       /\ wbuf # <<>> => ooff = Accepted /\ Accepted < Total /\ wbuf[1] = Wanted[ooff]

\* What a read is to return.
ReadInv == Reading =>
  /\ nw = 0 /\ Len(buf) < want /\ From >= 0
  /\ run.ilib = "syscall" /\ ~run.read_bytewise => buf = <<>>
  /\ Knows => From + want <= run.size
  /\ Streams =>
       /\ run.prog \notin {"block", "varblock"} => Place + want <= FileSize(run)
       /\ \A i \in 0 .. want - 1 : Place + i < Total => Wanted[Place + i] = From + i

\* How much of the block has been written.
BlockInv ==
  /\ At("seek") => ~Streams
  /\ Holding => nw < Len(buf)
  /\ pc = "after" \/ Between \/ Ending => nw = Len(buf)
  /\ pc = "after" => Len(buf) > 0
  /\ (Holding \/ pc = "after") /\ Knows => Len(buf) = want

\* stridecat61's place in the output for byte b of the input: full rows of the columns
\* before it, what the last row has of them, and the rows above it.
Capped(x, s) == IF x <= s THEN x ELSE s
Rank(b) ==
  LET full == Total \div run.stride
      rest == Total % run.stride
      column == (b % run.stride) - (b % run.block)
  IN  full * column + Capped(column, rest) + run.block * (b \div run.stride) + (b % run.block)

StrideAt == pos < Total /\ pos % run.block = 0 /\ written = Rank(pos)
StrideSize(p) == IF p + run.block > Total THEN Total - p ELSE run.block

\* The programs' own counters.
CountInv ==
  /\ InOrder => Place = From
  /\ run.prog = "cat" =>
       /\ Reading \/ Holding \/ pc = "after" => left + Place = FileSize(run)
       /\ Between => left + Sent = FileSize(run)
  /\ run.prog = "reverse" =>
       /\ Reading => From = left
       /\ Reading \/ Holding => left + 1 + Place = FileSize(run)
       /\ Between \/ pc = "after" => left + Sent = FileSize(run)
  /\ run.prog = "reversewrite" =>
       /\ Reading => left + 1 + Taken = FileSize(run)
       /\ Between \/ Holding \/ pc = "after" => left + Taken = FileSize(run)
       /\ Ending => left = 0
  /\ run.prog = "stride" =>
       /\ left = Total
       /\ Reading \/ Holding \/ pc = "after" =>
            Place = written /\ StrideAt /\ want = StrideSize(pos)
       /\ Reading => From = pos
       /\ Between => Sent = written /\ (StrideAt \/ written = Total)
  /\ run.prog # "stride" => pos = 0 /\ written = 0

\* At the end everything has been written, unless an alarm came.
EndInv == Ending /\ Streams => run.alarm \/ Sent = Total

Inv ==
  /\ Types /\ InputInv /\ OutputInv /\ StreamInv /\ BackInv /\ ReadInv /\ BlockInv
  /\ CountInv /\ EndInv /\ AssertionsHold

-----------------------------------------------------------------------------
(* Numbers, sequences and command lines.                                   *)

\* The community modules' Min and Max of two numbers.
LEMMA MinOfTwo ==
  ASSUME NEW a \in Int, NEW b \in Int
  PROVE  /\ Min({a, b}) = IF a <= b THEN a ELSE b
         /\ Max({a, b}) = IF a >= b THEN a ELSE b
<1>1. CASE a <= b
  <2>1. \A x \in {a, b} : (\A y \in {a, b} : x =< y) => x = a
    BY <1>1
  <2>2. \A y \in {a, b} : a =< y
    BY <1>1
  <2>3. \A x \in {a, b} : (\A y \in {a, b} : x >= y) => x = b
    BY <1>1
  <2>4. \A y \in {a, b} : b >= y
    BY <1>1
  <2>5. Min({a, b}) = a
    BY <2>1, <2>2 DEF Min
  <2>6. Max({a, b}) = b
    BY <2>3, <2>4 DEF Max
  <2> QED BY <1>1, <2>5, <2>6
<1>2. CASE ~(a <= b)
  <2>1. \A x \in {a, b} : (\A y \in {a, b} : x =< y) => x = b
    BY <1>2
  <2>2. \A y \in {a, b} : b =< y
    BY <1>2
  <2>3. \A x \in {a, b} : (\A y \in {a, b} : x >= y) => x = a
    BY <1>2
  <2>4. \A y \in {a, b} : a >= y
    BY <1>2
  <2>5. Min({a, b}) = b
    BY <2>1, <2>2 DEF Min
  <2>6. Max({a, b}) = a
    BY <2>3, <2>4 DEF Max
  <2> QED BY <1>2, <2>5, <2>6
<1> QED BY <1>1, <1>2

\* The front and the rest of a piece.
LEMMA FollowsSplit ==
  ASSUME NEW s, NEW f, NEW n, Follows(s, f, n), NEW k \in 0 .. Len(s)
  PROVE  /\ Follows(SubSeq(s, 1, k), f, n) /\ Len(SubSeq(s, 1, k)) = k
         /\ Follows(SubSeq(s, k + 1, Len(s)), f, n + k)
         /\ Len(SubSeq(s, k + 1, Len(s))) = Len(s) - k
<1>1. s \in Seq(Nat) /\ n \in Nat /\ Len(s) \in Nat
  BY DEF Follows
<1>2. \A i \in 1 .. Len(s) : s[i] \in Nat
  BY <1>1, ElementOfSeq
<1>3. /\ SubSeq(s, 1, k) \in Seq(Nat) /\ Len(SubSeq(s, 1, k)) = k
      /\ \A i \in 1 .. k : SubSeq(s, 1, k)[i] = s[i]
  <2>1. /\ SubSeq(s, 1, k) \in Seq(Nat)
        /\ Len(SubSeq(s, 1, k)) = IF 1 <= k THEN k - 1 + 1 ELSE 0
        /\ \A i \in 1 .. k - 1 + 1 : SubSeq(s, 1, k)[i] = s[1 + i - 1]
    BY <1>1, <1>2, SubSeqProperties
  <2> QED BY <1>1, <2>1
<1>4. /\ SubSeq(s, k + 1, Len(s)) \in Seq(Nat) /\ Len(SubSeq(s, k + 1, Len(s))) = Len(s) - k
      /\ \A i \in 1 .. Len(s) - k : SubSeq(s, k + 1, Len(s))[i] = s[k + i]
  <2>1. /\ SubSeq(s, k + 1, Len(s)) \in Seq(Nat)
        /\ Len(SubSeq(s, k + 1, Len(s))) = IF k + 1 <= Len(s) THEN Len(s) - (k + 1) + 1 ELSE 0
        /\ \A i \in 1 .. Len(s) - (k + 1) + 1 : SubSeq(s, k + 1, Len(s))[i] = s[(k + 1) + i - 1]
    BY <1>1, <1>2, SubSeqProperties
  <2>2. \A i \in 1 .. Len(s) - k : (k + 1) + i - 1 = k + i
    BY <1>1
  <2> QED BY <1>1, <2>1, <2>2
<1>5. \A i \in 1 .. Len(s) : n + i - 1 \in DOMAIN f /\ s[i] = f[n + i - 1]
  BY DEF Follows
<1>6. ASSUME NEW i \in 1 .. Len(s) - k
      PROVE  n + k + i - 1 \in DOMAIN f /\ s[k + i] = f[n + k + i - 1]
  <2>1. k + i \in 1 .. Len(s) /\ n + (k + i) - 1 = n + k + i - 1
    BY <1>1
  <2> QED BY <1>5, <2>1
<1>7. Follows(SubSeq(s, 1, k), f, n)
  <2>1. \A i \in 1 .. k : n + i - 1 \in DOMAIN f /\ SubSeq(s, 1, k)[i] = f[n + i - 1]
    BY SMTT(30), <1>1, <1>3, <1>5
  <2> QED BY <1>1, <1>3, <2>1 DEF Follows
<1>8. Follows(SubSeq(s, k + 1, Len(s)), f, n + k)
  <2>1. n + k \in Nat
    BY <1>1
  <2> QED BY <1>4, <1>6, <2>1 DEF Follows
<1> QED BY <1>3, <1>4, <1>7, <1>8

\* A piece and the piece behind it.
LEMMA FollowsJoin ==
  ASSUME NEW s, NEW t, NEW f, NEW n, Follows(s, f, n), Follows(t, f, n + Len(s))
  PROVE  Follows(s \o t, f, n) /\ Len(s \o t) = Len(s) + Len(t)
<1>1. /\ s \in Seq(Nat) /\ t \in Seq(Nat) /\ n \in Nat /\ Len(s) \in Nat /\ Len(t) \in Nat
  BY DEF Follows
<1>2. /\ s \o t \in Seq(Nat) /\ Len(s \o t) = Len(s) + Len(t)
      /\ \A i \in 1 .. Len(s) + Len(t) : (s \o t)[i] = IF i <= Len(s) THEN s[i] ELSE t[i - Len(s)]
  BY <1>1, ConcatProperties
<1>3. ASSUME NEW i \in 1 .. Len(s) + Len(t)
      PROVE  n + i - 1 \in DOMAIN f /\ (s \o t)[i] = f[n + i - 1]
  <2>1. CASE i <= Len(s)
    BY <1>1, <1>2, <2>1 DEF Follows
  <2>2. CASE ~(i <= Len(s))
    <3>1. i - Len(s) \in 1 .. Len(t) /\ n + Len(s) + (i - Len(s)) - 1 = n + i - 1
      BY <1>1, <2>2
    <3>2. /\ n + Len(s) + (i - Len(s)) - 1 \in DOMAIN f
          /\ t[i - Len(s)] = f[n + Len(s) + (i - Len(s)) - 1]
      BY <3>1 DEF Follows
    <3> QED BY <1>2, <2>2, <3>1, <3>2
  <2> QED BY <2>1, <2>2
<1> QED BY <1>1, <1>2, <1>3 DEF Follows

\* Nothing follows anything.
LEMMA FollowsEmpty ==
  ASSUME NEW f, NEW n \in Nat
  PROVE  Follows(<<>>, f, n) /\ Len(<<>>) = 0
BY EmptySeq DEF Follows

\* A piece of one byte.
LEMMA FollowsOne ==
  ASSUME NEW f, NEW n \in Nat, NEW b \in Nat, n \in DOMAIN f, b = f[n]
  PROVE  Follows(<<b>>, f, n) /\ Len(<<b>>) = 1
BY DEF Follows

\* What the sets of command lines say of a command line.
RunType(r) ==
  /\ r.prog \in {"cat", "block", "varblock", "reverse", "reversewrite", "stride"}
  /\ r.size \in Nat /\ r.limit \in Nat /\ r.limit <= SIZE_MAX /\ r.size < SIZE_MAX
  /\ r.block \in Nat \ {0} /\ r.stride \in Nat \ {0} /\ r.disk \in Nat
  /\ r.ilib \in Libraries /\ r.olib \in Libraries
  /\ r.read_bytewise \in BOOLEAN /\ r.write_bytewise \in BOOLEAN /\ r.flush \in BOOLEAN
  /\ r.alarm \in BOOLEAN
  /\ r.src \in {"file", "pipe"} /\ r.dst \in {"file", "pipe"}
  /\ r.prog \in {"cat", "reverse", "reversewrite"} =>
       r.block = 1 /\ r.read_bytewise = FALSE /\ r.write_bytewise = FALSE
  /\ r.prog \in {"block", "varblock"} => r.limit = SIZE_MAX
  /\ r.prog # "cat" => r.alarm = FALSE
  /\ r.prog \in {"reverse", "reversewrite", "stride"} => Asked(r)
  /\ r.prog \in {"reverse", "stride"} => r.src = "file"
  /\ r.prog = "reversewrite" => r.dst = "file" /\ r.ilib = "stdio"
  /\ r.prog = "stride" => r.stride % r.block = 0

LineType(r, prog, limits, blocks, bytewise, alarms) ==
  /\ r.prog = prog /\ r.size \in Nat /\ r.size < SIZE_MAX
  /\ r.ilib \in Libraries /\ r.olib \in Libraries
  /\ r.limit \in limits /\ r.limit \in Nat /\ r.limit <= SIZE_MAX
  /\ r.block \in blocks /\ r.block \in Nat \ {0} /\ r.stride \in Nat \ {0}
  /\ r.read_bytewise \in bytewise /\ r.write_bytewise \in bytewise
  /\ r.flush \in BOOLEAN /\ r.alarm \in alarms
  /\ r.src \in {"file", "pipe"} /\ r.dst \in {"file", "pipe"} /\ r.disk \in Nat

\* The options of a command line of any program.
LEMMA LineFacts ==
  ASSUME NEW prog, NEW limits \in SUBSET AnyLimit, NEW blocks \in SUBSET (Blocks \cup {1}),
         NEW strides \in SUBSET (Strides \cup {1}), NEW bytewise \in SUBSET BOOLEAN,
         NEW flushes \in SUBSET BOOLEAN, NEW alarms \in SUBSET BOOLEAN,
         NEW r \in Lines(prog, limits, blocks, strides, bytewise, flushes, alarms)
  PROVE  LineType(r, prog, limits, blocks, bytewise, alarms)
<1>1. /\ r.prog = prog /\ r.size \in FileSizes /\ r.ilib \in Libraries /\ r.olib \in Libraries
      /\ r.limit \in limits /\ r.block \in blocks /\ r.stride \in strides
      /\ r.read_bytewise \in bytewise /\ r.write_bytewise \in bytewise
      /\ r.flush \in flushes /\ r.alarm \in alarms
      /\ r.src \in {"file", "pipe"} /\ r.dst \in {"file", "pipe"} /\ r.disk \in Disks \cup {SIZE_MAX}
  BY DEF Lines
<1>2. /\ \A n \in FileSizes : n \in Nat /\ n < SIZE_MAX
      /\ \A n \in AnyLimit : n \in Nat /\ n <= SIZE_MAX
      /\ \A n \in Blocks \cup Strides \cup {1} : n \in Nat \ {0}
      /\ \A n \in Disks \cup {SIZE_MAX} : n \in Nat
  BY SizeAssumption DEF AnyLimit
<1> QED BY <1>1, <1>2 DEF LineType

\* Every command line has its program's options.
LEMMA RunFacts ==
  ASSUME NEW r \in CommandLines
  PROVE  RunType(r)
<1>0. /\ {SIZE_MAX} \in SUBSET AnyLimit /\ AnyLimit \in SUBSET AnyLimit
      /\ NoAlarm \in SUBSET BOOLEAN /\ {FALSE} \in SUBSET BOOLEAN /\ BOOLEAN \in SUBSET BOOLEAN
      /\ {1} \in SUBSET (Blocks \cup {1}) /\ Blocks \in SUBSET (Blocks \cup {1})
      /\ {1} \in SUBSET (Strides \cup {1}) /\ Strides \in SUBSET (Strides \cup {1})
  BY DEF AnyLimit, NoAlarm
<1>1. CASE r \in Cat61
  <2>1. r \in Lines("cat", AnyLimit, {1}, {1}, {FALSE}, BOOLEAN, BOOLEAN)
    BY <1>1 DEF Cat61, BytesOnly
  <2>2. LineType(r, "cat", AnyLimit, {1}, {FALSE}, BOOLEAN)
    BY <1>0, <2>1, LineFacts
  <2> QED BY <2>1, <2>2 DEF LineType, RunType, NoAlarm
<1>2. CASE r \in Read61 \cup Write61
  <2>1. r \in Lines("cat", AnyLimit, {1}, {1}, {FALSE}, BOOLEAN, NoAlarm)
    BY <1>2 DEF Read61, Write61, BytesOnly
  <2>2. LineType(r, "cat", AnyLimit, {1}, {FALSE}, NoAlarm)
    BY <1>0, <2>1, LineFacts
  <2> QED BY <2>1, <2>2 DEF LineType, RunType, NoAlarm
<1>3. CASE r \in Blockcat61
  <2>1. r \in Lines("block", {SIZE_MAX}, Blocks, {1}, BOOLEAN, BOOLEAN, NoAlarm)
    BY <1>3 DEF Blockcat61, BytesOnly
  <2>2. LineType(r, "block", {SIZE_MAX}, Blocks, BOOLEAN, NoAlarm)
    BY <1>0, <2>1, LineFacts
  <2> QED BY <2>1, <2>2 DEF LineType, RunType, NoAlarm
<1>4. CASE r \in Varblockcat61
  <2>1. r \in Lines("varblock", {SIZE_MAX}, Blocks, {1}, BOOLEAN, {FALSE}, NoAlarm)
    BY <1>4 DEF Varblockcat61, BytesOnly
  <2>2. LineType(r, "varblock", {SIZE_MAX}, Blocks, BOOLEAN, NoAlarm)
    BY <1>0, <2>1, LineFacts
  <2> QED BY <2>1, <2>2 DEF LineType, RunType, NoAlarm
<1>5. CASE r \in Reverse61 \cup Reverseread61
  <2>1. /\ r \in Lines("reverse", AnyLimit, {1}, {1}, {FALSE}, BOOLEAN, NoAlarm)
        /\ r.src = "file" /\ Asked(r)
    BY <1>5 DEF Reverse61, Reverseread61, BytesOnly
  <2>2. LineType(r, "reverse", AnyLimit, {1}, {FALSE}, NoAlarm)
    BY <1>0, <2>1, LineFacts
  <2> QED BY <2>1, <2>2 DEF LineType, RunType, NoAlarm
<1>6. CASE r \in Reversewrite61
  <2>1. /\ r \in Lines("reversewrite", AnyLimit, {1}, {1}, {FALSE}, BOOLEAN, NoAlarm)
        /\ r.ilib = "stdio" /\ r.dst = "file" /\ Asked(r)
    BY <1>6 DEF Reversewrite61, BytesOnly
  <2>2. LineType(r, "reversewrite", AnyLimit, {1}, {FALSE}, NoAlarm)
    BY <1>0, <2>1, LineFacts
  <2> QED BY <2>1, <2>2 DEF LineType, RunType, NoAlarm
<1>7. CASE r \in Stridecat61
  <2>1. /\ r \in Lines("stride", AnyLimit, Blocks, Strides, BOOLEAN, {FALSE}, NoAlarm)
        /\ r.src = "file" /\ r.stride % r.block = 0 /\ Asked(r)
    BY <1>7 DEF Stridecat61, BytesOnly
  <2>2. LineType(r, "stride", AnyLimit, Blocks, BOOLEAN, NoAlarm)
    BY <1>0, <2>1, LineFacts
  <2> QED BY <2>1, <2>2 DEF LineType, RunType, NoAlarm
<1> QED BY <1>1, <1>2, <1>3, <1>4, <1>5, <1>6, <1>7 DEF CommandLines

\* The bytes of a piece of the input are their offsets.
LEMMA FollowsCounting ==
  ASSUME NEW s, NEW n, Follows(s, Counting, n)
  PROVE  s \in Seq(Nat) /\ Len(s) \in Nat /\ n \in Nat /\ \A i \in 1 .. Len(s) : s[i] = n + i - 1
<1>1. s \in Seq(Nat) /\ Len(s) \in Nat /\ n \in Nat
  BY DEF Follows
<1>2. ASSUME NEW i \in 1 .. Len(s) PROVE s[i] = n + i - 1
  BY <1>1 DEF Follows, Counting
<1> QED BY <1>1, <1>2

\* The sizes of a run.
LEMMA TotalFacts ==
  ASSUME run \in CommandLines
  PROVE  /\ FileSize(run) \in Nat /\ FileSize(run) <= SIZE_MAX /\ Total \in Nat
         /\ Total = IF FileSize(run) <= run.size THEN FileSize(run) ELSE run.size
         /\ Knows => Total = FileSize(run)
         /\ InOrder => FileSize(run) = run.limit
         /\ run.prog \in {"block", "varblock"} => Total = run.size
<1>1. RunType(run)
  BY RunFacts
<1>2. FileSize(run) \in Nat /\ FileSize(run) <= SIZE_MAX
  BY <1>1, SizeAssumption DEF FileSize, RunType
<1>3. Total = IF FileSize(run) <= run.size THEN FileSize(run) ELSE run.size
  BY <1>1, <1>2, MinOfTwo DEF Total, RunType
<1>4. Knows => FileSize(run) <= run.size
  BY <1>1 DEF Knows, FileSize, RunType, Asked
<1>5. InOrder => FileSize(run) = run.limit
  BY DEF InOrder, FileSize
<1> QED BY <1>1, <1>2, <1>3, <1>4, <1>5, SizeAssumption DEF RunType, InOrder

\* The output of the programs other than stridecat61.
LEMMA WantedFacts ==
  ASSUME run \in CommandLines
  PROVE  /\ DOMAIN Wanted = 0 .. Total - 1
         /\ \A o \in 0 .. Total - 1 :
              /\ InOrder => Wanted[o] = o
              /\ run.prog \in {"reverse", "reversewrite"} => Wanted[o] = Total - 1 - o
BY DEF Wanted, InOrder

\* An output filled from its start.
LEMMA StoredFacts ==
  ASSUME NEW f, NEW n \in Nat, DOMAIN f = 0 .. n - 1
  PROVE  Cardinality(DOMAIN f) = n
BY FS_Interval

\* What read() returns continues what was taken before, and it returns nothing only
\* at the end of the input.
LEMMA DataFacts ==
  ASSUME Types, InputInv, Readable, NEW n \in Nat \ {0}, Consume(n), UNCHANGED <<run, wopen>>
  PROVE  /\ Data(n) \in Seq(Nat) /\ Len(Data(n)) <= n
         /\ Follows(Data(n), Counting, ioff - Len(ipipe))
         /\ ioff' \in Nat /\ ioff' <= run.size /\ ipipe' \in Seq(Nat) /\ Len(ipipe') <= PIPE_SIZE
         /\ ioff' - Len(ipipe') = ioff - Len(ipipe) + Len(Data(n))
         /\ Follows(ipipe', Counting, ioff' - Len(ipipe'))
         /\ run.src = "file" => ipipe' = <<>> /\ ~wopen'
         /\ run.src = "pipe" /\ ~wopen' => ioff' = run.size
         /\ Data(n) = <<>> =>
              /\ ioff = run.size /\ ipipe = <<>> /\ ~wopen
              /\ ioff' = ioff /\ ipipe' = ipipe
         /\ run.src = "file" /\ ioff + n <= run.size => Len(Data(n)) = n
<1>1. RunType(run) /\ run.src \in {"file", "pipe"} /\ run.size \in Nat
  BY RunFacts DEF Types, TypeOK, RunType
<1>2. /\ ioff \in Nat /\ ioff <= run.size /\ ipipe \in Seq(Nat) /\ Len(ipipe) \in Nat
      /\ Len(ipipe) <= PIPE_SIZE /\ PIPE_SIZE \in Nat
  BY <1>1, SizeAssumption DEF Types, TypeOK
<1>3. CASE run.src = "file"
  <2>1. ipipe = <<>> /\ Len(ipipe) = 0 /\ ~wopen /\ ipipe' = ipipe
    BY <1>3 DEF InputInv, Consume
  <2> DEFINE m == IF ioff + n <= run.size THEN ioff + n ELSE run.size
  <2>2. m \in Nat /\ ioff <= m /\ m <= run.size /\ Data(n) = SubSeq(Input, ioff + 1, m)
    <3>1. Min({ioff + n, run.size}) = m
      <4>1. ioff + n \in Int /\ run.size \in Int
        BY <1>1, <1>2
      <4> QED BY <4>1, MinOfTwo
    <3>2. Data(n) = SubSeq(Input, ioff + 1, m)
      BY <1>3, <3>1, Zenon DEF Data
    <3> QED BY <1>1, <1>2, <3>2
  <2>3. \A i \in ioff + 1 .. m : Input[i] = i - 1 /\ Input[i] \in Nat
    BY <1>1, <1>2, <2>2 DEF Input
  <2> HIDE DEF m
  <2>4. /\ SubSeq(Input, ioff + 1, m) \in Seq(Nat)
        /\ Len(SubSeq(Input, ioff + 1, m)) = IF ioff + 1 <= m THEN m - (ioff + 1) + 1 ELSE 0
        /\ \A i \in 1 .. m - (ioff + 1) + 1 :
             SubSeq(Input, ioff + 1, m)[i] = Input[(ioff + 1) + i - 1]
    <3>1. ioff + 1 \in Int /\ m \in Int
      BY <1>2, <2>2
    <3> QED BY <2>3, <3>1, SubSeqProperties
  <2>5. Len(Data(n)) = m - ioff /\ Data(n) \in Seq(Nat)
    BY <1>2, <2>2, <2>4
  <2>6. \A i \in 1 .. m - ioff : Data(n)[i] = ioff + i - 1
    <3>1. \A i \in 1 .. m - ioff : (ioff + 1) + i - 1 \in ioff + 1 .. m /\ m - (ioff + 1) + 1 = m - ioff
      BY <1>2, <2>2
    <3> QED BY <1>2, <2>2, <2>3, <2>4, <3>1
  <2>7. Follows(Data(n), Counting, ioff - Len(ipipe))
    BY <1>2, <2>1, <2>5, <2>6 DEF Follows, Counting
  <2>8. ioff' = m
    BY <1>2, <1>3, <2>2, <2>5 DEF Consume
  <2>9. m - ioff <= n /\ (m = ioff => ioff = run.size) /\ (ioff + n <= run.size => m - ioff = n)
    BY <1>1, <1>2 DEF m
  <2>10. Follows(ipipe', Counting, ioff' - Len(ipipe'))
    BY <2>1, <2>2, <2>8, FollowsEmpty
  <2>11. Data(n) = <<>> => m = ioff
    <3>1. Len(<<>>) = 0
      OBVIOUS
    <3>2. m \in Nat /\ Len(Data(n)) = m - ioff
      BY <2>2, <2>5
    <3> QED BY <1>2, <3>1, <3>2
  <2> QED BY <1>2, <1>3, <2>1, <2>2, <2>5, <2>7, <2>8, <2>9, <2>10, <2>11
<1>4. CASE run.src = "pipe"
  <2> DEFINE k == IF n <= Len(ipipe) THEN n ELSE Len(ipipe)
  <2>1. k \in 0 .. Len(ipipe) /\ Data(n) = SubSeq(ipipe, 1, k)
    <3>1. Min({n, Len(ipipe)}) = k
      <4>1. n \in Int /\ Len(ipipe) \in Int
        BY <1>2
      <4> QED BY <4>1, MinOfTwo
    <3>2. Data(n) = SubSeq(ipipe, 1, k)
      BY <1>4, <3>1, Zenon DEF Data
    <3> QED BY <1>2, <3>2
  <2>2. k <= n /\ (k = 0 => Len(ipipe) = 0)
    BY <1>2
  <2> HIDE DEF k
  <2>3. Follows(ipipe, Counting, ioff - Len(ipipe))
    BY DEF InputInv
  <2>4. /\ Follows(SubSeq(ipipe, 1, k), Counting, ioff - Len(ipipe)) /\ Len(SubSeq(ipipe, 1, k)) = k
        /\ Follows(SubSeq(ipipe, k + 1, Len(ipipe)), Counting, ioff - Len(ipipe) + k)
        /\ Len(SubSeq(ipipe, k + 1, Len(ipipe))) = Len(ipipe) - k
    BY <2>1, <2>3, FollowsSplit
  <2>5. ipipe' = SubSeq(ipipe, k + 1, Len(ipipe)) /\ ioff' = ioff
    BY <1>4, <2>1, <2>4 DEF Consume
  <2>6. Data(n) \in Seq(Nat) /\ ipipe' \in Seq(Nat)
    BY <2>1, <2>4, <2>5 DEF Follows
  <2>7. ioff' - Len(ipipe') = ioff - Len(ipipe) + k
    <3>1. Len(ipipe') = Len(ipipe) - k /\ k \in Nat
      BY <1>2, <2>1, <2>4, <2>5
    <3>2. ioff' = ioff
      BY <2>5
    <3> QED BY <1>2, <3>1, <3>2
  <2>8. Follows(ipipe', Counting, ioff' - Len(ipipe'))
    BY <2>4, <2>5, <2>7
  <2>9. ASSUME Data(n) = <<>>
        PROVE  ioff = run.size /\ ipipe = <<>> /\ ~wopen /\ ioff' = ioff /\ ipipe' = ipipe
    <3>1. k = 0
      BY <2>1, <2>4, <2>9
    <3>2. ipipe = <<>>
      BY <1>2, <2>2, <3>1, EmptySeq
    <3>3. ~wopen
      BY <1>4, <3>2 DEF Readable
    <3>4. ipipe' = <<>>
      BY <2>4, <2>5, <2>6, <3>1, <3>2, EmptySeq
    <3> QED BY <1>4, <2>5, <3>2, <3>3, <3>4 DEF InputInv
  <2>10. run.src = "pipe" /\ ~wopen' => ioff' = run.size
    BY <2>5 DEF InputInv
  <2>11. Len(Data(n)) = k /\ Len(ipipe') <= PIPE_SIZE /\ k <= n
    BY <1>2, <2>1, <2>2, <2>4, <2>5
  <2>12. Follows(Data(n), Counting, ioff - Len(ipipe))
    BY <2>1, <2>4
  <2> QED BY <1>2, <1>4, <2>5, <2>6, <2>7, <2>8, <2>9, <2>10, <2>11, <2>12
<1> QED BY <1>1, <1>3, <1>4

-----------------------------------------------------------------------------
(* Rows and columns: the order of stridecat61.                             *)

\* Division with remainder.
LEMMA DivMod ==
  ASSUME NEW a \in Nat, NEW n \in Nat \ {0}
  PROVE  a \div n \in Nat /\ a % n \in 0 .. n - 1 /\ a = n * (a \div n) + (a % n)
OBVIOUS

\* A quotient and a remainder are the only ones.
LEMMA DivUnique ==
  ASSUME NEW n \in Nat \ {0}, NEW q \in Nat, NEW e \in 0 .. n - 1
  PROVE  (n * q + e) \div n = q /\ (n * q + e) % n = e
OBVIOUS

\* Products keep the order of their factors.
LEMMA Product ==
  ASSUME NEW n \in Nat, NEW u \in Nat, NEW v \in Nat
  PROVE  /\ n * u \in Nat /\ n * (u + v) = n * u + n * v
         /\ u <= v => n * u <= n * v
         /\ n * u = u * n
OBVIOUS

\* Byte p's row, column and place in its block of a table of rows of t bytes.
Coordinates(p, t, b, r, x, j) ==
  /\ r \in Nat /\ x \in Nat /\ j \in 0 .. b - 1 /\ x + b <= t
  /\ p = t * r + x + j
  /\ p \div t = r /\ p % t = x + j /\ p % b = j /\ b * ((p % t) \div b) = x

\* Every byte has its row, its column and its place in the block.
LEMMA Located ==
  ASSUME NEW p \in Nat, NEW t \in Nat \ {0}, NEW b \in Nat \ {0}, t % b = 0
  PROVE  Coordinates(p, t, b, p \div t, (p % t) - (p % b), p % b)
<1> DEFINE r == p \div t
           q == (p % t) \div b
           j == (p % t) % b
           m == t \div b
<1>1. r \in Nat /\ p % t \in 0 .. t - 1 /\ p = t * r + (p % t)
  BY DivMod
<1>2. q \in Nat /\ j \in 0 .. b - 1 /\ p % t = b * q + j
  <2>1. p % t \in Nat
    BY <1>1
  <2> QED BY <2>1, DivMod
<1>3. m \in Nat /\ t = b * m
  <2>1. t = b * m + (t % b) /\ m \in Nat
    BY DivMod
  <2> QED BY <2>1
<1>4. q < m
  <2> SUFFICES ASSUME q >= m PROVE FALSE
    BY <1>2, <1>3
  <2>1. b * m <= b * q
    BY <1>2, <1>3, Product
  <2> HIDE DEF q, m, j
  <2>2. b * q \in Nat
    BY <1>2, Product
  <2> QED BY <1>1, <1>2, <1>3, <2>1, <2>2
<1> HIDE DEF r, q, j, m
<1>5. b * q + b <= t /\ b * q \in Nat
  <2>1. b * (q + 1) <= b * m /\ b * (q + 1) = b * q + b * 1
    BY <1>2, <1>3, <1>4, Product
  <2> QED BY <1>2, <1>3, <2>1, Product
<1>6. p % b = j
  <2>1. m * r + q \in Nat
    BY <1>1, <1>2, <1>3, Product
  <2>2. p = b * (m * r + q) + j
    <3>1. m * r \in Nat
      BY <1>1, <1>3, Product
    <3>2. b * (m * r + q) = b * (m * r) + b * q
      BY <1>2, <3>1, Product
    <3>3. t * r = b * (m * r)
      BY <1>1, <1>3
    <3> QED BY <1>1, <1>2, <3>2, <3>3, <1>5
  <2> QED BY <1>2, <2>1, <2>2, DivUnique
<1>7. (p % t) - j = b * q
  BY <1>1, <1>2, <1>5
<1>8. Coordinates(p, t, b, r, b * q, j)
  <2>1. p = t * r + b * q + j
    <3>1. t * r \in Nat
      BY <1>1, Product
    <3> QED BY <1>1, <1>2, <1>5, <3>1
  <2>2. p \div t = r /\ (p % t) \div b = q
    BY DEF r, q
  <2>3. p % t = b * q + j
    BY <1>2
  <2> QED BY <1>1, <1>2, <1>5, <1>6, <2>1, <2>2, <2>3 DEF Coordinates
<1> QED BY <1>6, <1>7, <1>8 DEF r

\* The bytes of a column before the next.
LEMMA ColumnOrder ==
  ASSUME NEW n \in Nat, NEW t \in Nat \ {0}, NEW b \in Nat \ {0}, NEW f \in Nat, NEW s \in 0 .. t - 1,
         n = t * f + s, NEW r \in Nat, NEW x \in Nat, NEW j \in 0 .. b - 1, NEW y \in Nat,
         t * r + x + j < n, x + b <= y
  PROVE  f * x + Capped(x, s) + b * r + j < f * y + Capped(y, s) /\ r <= f
<1>1. /\ t * r \in Nat /\ t * f \in Nat /\ f * x \in Nat /\ f * y \in Nat /\ b * r \in Nat
      /\ b * f \in Nat /\ f * b = b * f
  BY Product
<1>2. r <= f
  <2> SUFFICES ASSUME r >= f + 1 PROVE FALSE
    OBVIOUS
  <2>1. t * (f + 1) <= t * r /\ t * (f + 1) = t * f + t * 1
    BY Product
  <2> QED BY <1>1, <2>1
<1>3. f * y >= f * x + b * f
  <2>1. f * (x + b) <= f * y /\ f * (x + b) = f * x + f * b
    BY Product
  <2> QED BY <1>1, <2>1
<1>4. CASE r < f
  <2>1. b * (r + 1) <= b * f /\ b * (r + 1) = b * r + b * 1
    BY <1>4, Product
  <2>2. b * r + j < b * f
    BY <1>1, <2>1
  <2>3. Capped(x, s) <= Capped(y, s) /\ Capped(x, s) \in Nat /\ Capped(y, s) \in Nat
    BY DEF Capped
  <2> QED BY <1>1, <1>2, <1>3, <2>2, <2>3
<1>5. CASE r = f
  <2>1. x + j < s
    BY <1>1, <1>5
  <2>2. Capped(x, s) = x /\ Capped(y, s) > x + j /\ Capped(y, s) \in Nat
    BY <2>1 DEF Capped
  <2> QED BY <1>1, <1>2, <1>3, <1>5, <2>2
<1> QED BY <1>2, <1>4, <1>5

\* The block of z bytes at p is the last of its column.
LastOfColumn(n, t, b, f, s, r, x, p, z) ==
  /\ n \in Nat /\ t \in Nat \ {0} /\ b \in Nat \ {0} /\ f \in Nat /\ s \in 0 .. t - 1
  /\ n = t * f + s /\ r \in Nat /\ x \in Nat /\ x + b <= t
  /\ p \in Nat /\ p = t * r + x /\ p < n /\ p + t >= n
  /\ z \in Nat /\ z = IF p + b > n THEN n - p ELSE b
\* Behind it is the next column.
ColumnEnds(b, f, s, r, x, z) ==
  f * x + Capped(x, s) + b * r + z = f * (x + b) + Capped(x + b, s)

\* The column to the right begins where a column ends.
LEMMA ColumnStep ==
  ASSUME NEW n, NEW t, NEW b, NEW f, NEW s, NEW r, NEW x, NEW p, NEW z,
         LastOfColumn(n, t, b, f, s, r, x, p, z)
  PROVE  ColumnEnds(b, f, s, r, x, z)
<1> USE DEF LastOfColumn, ColumnEnds
<1>1. /\ t * r \in Nat /\ t * f \in Nat /\ f * x \in Nat /\ b * r \in Nat
      /\ b * f \in Nat /\ f * b = b * f /\ f * (x + b) = f * x + f * b
  BY Product
<1>2. r <= f
  <2> SUFFICES ASSUME r >= f + 1 PROVE FALSE
    OBVIOUS
  <2>1. t * (f + 1) <= t * r /\ t * (f + 1) = t * f + t * 1
    BY Product
  <2> QED BY <1>1, <2>1
<1>3. CASE r = f
  <2>1. x < s /\ n - p = s - x
    BY <1>1, <1>3
  <2>2. Capped(x, s) = x /\ Capped(x + b, s) = IF x + b <= s THEN x + b ELSE s
    BY <2>1 DEF Capped
  <2>3. p + b > n <=> x + b > s
    BY <1>1, <1>3
  <2> HIDE DEF Capped
  <2>4. CASE x + b > s
    <3>1. f * x + x + b * r + (s - x) = f * (x + b) + s
      BY <1>1, <1>3
    <3> QED BY <2>1, <2>2, <2>3, <2>4, <3>1
  <2>5. CASE x + b <= s
    <3>1. f * x + x + b * r + b = f * (x + b) + (x + b)
      BY <1>1, <1>3
    <3> QED BY <2>1, <2>2, <2>3, <2>5, <3>1
  <2> QED BY <2>4, <2>5
<1>4. CASE r < f
  <2>1. r + 1 = f
    <3> SUFFICES ASSUME r + 2 <= f PROVE FALSE
      BY <1>4
    <3>1. t * (r + 2) <= t * f /\ t * (r + 2) = t * r + t * 2
      BY Product
    <3>2. t * 2 = t + t
      OBVIOUS
    <3> QED BY <1>1, <3>1, <3>2
  <2>2. t * f = t * r + t /\ b * f = b * r + b
    <3>1. t * (r + 1) = t * r + t * 1 /\ b * (r + 1) = b * r + b * 1
      BY Product
    <3> QED BY <2>1, <3>1
  <2>3. x >= s /\ ~(p + b > n)
    BY <1>1, <2>2
  <2>4. Capped(x, s) = s /\ Capped(x + b, s) = s
    BY <2>3 DEF Capped
  <2> QED BY <1>1, <2>2, <2>3, <2>4
<1> QED BY <1>2, <1>3, <1>4

\* A number's place in an order is how many are before it.
LEMMA Ranked ==
  ASSUME NEW n \in Nat, NEW F \in [0 .. n - 1 -> 0 .. n - 1],
         \A c, d \in 0 .. n - 1 : F[c] = F[d] => c = d,
         NEW p \in 0 .. n - 1
  PROVE  Cardinality({c \in 0 .. n - 1 : F[c] < F[p]}) = F[p]
<1> DEFINE N == 0 .. n - 1
           S == {c \in N : F[c] < F[p]}
           T == 0 .. F[p] - 1
           G == [c \in S |-> F[c]]
<1>1. IsFiniteSet(N) /\ IsFiniteSet(S)
  <2>1. IsFiniteSet(N)
    BY FS_Interval
  <2>2. S \subseteq N
    OBVIOUS
  <2> HIDE DEF N, S
  <2> QED BY <2>1, <2>2, FS_Subset
<1>2. \A k \in N : \E c \in N : F[c] = k
  <2>1. F \in Injection(N, N)
    BY Fun_IsInj
  <2> HIDE DEF N
  <2>2. F \in Surjection(N, N)
    BY <1>1, <2>1, FS_Injection
  <2> QED BY <2>2, Fun_SurjectionProperties
<1>3. F[p] \in N /\ F[p] \in Nat
  OBVIOUS
<1>4. G \in [S -> T]
  OBVIOUS
<1>5. \A c, d \in S : G[c] = G[d] => c = d
  OBVIOUS
<1>6. \A k \in T : \E c \in S : G[c] = k
  <2> TAKE k \in T
  <2>1. k \in N /\ k < F[p]
    OBVIOUS
  <2>2. PICK c \in N : F[c] = k
    BY <1>2, <2>1
  <2>3. c \in S /\ G[c] = k
    BY <2>1, <2>2
  <2> QED BY <2>3
<1>7. Cardinality(T) = F[p]
  <2>1. PICK m \in Nat : m = F[p]
    BY <1>3
  <2>2. Cardinality(0 .. m - 1) = m
    <3>1. m - 1 \in Int /\ Cardinality(0 .. m - 1) = IF 0 > m - 1 THEN 0 ELSE m - 1 - 0 + 1
      BY FS_Interval
    <3> QED BY <3>1
  <2> QED BY <2>1, <2>2
<1> HIDE DEF N, S, T, G
<1>8. G \in Bijection(S, T)
  BY <1>4, <1>5, <1>6, Fun_IsBij
<1>9. ExistsBijection(S, T)
  BY <1>8 DEF ExistsBijection
<1>10. Cardinality(T) = Cardinality(S)
  BY <1>1, <1>9, FS_Bijection
<1> QED BY <1>7, <1>10 DEF S, N

\* stridecat61's order.
LEMMA StrideFacts ==
  ASSUME run \in CommandLines, run.prog = "stride"
  PROVE  /\ run.stride \in Nat \ {0} /\ run.block \in Nat \ {0} /\ run.stride % run.block = 0
         /\ Total \in Nat /\ Total \div run.stride \in Nat
         /\ Total % run.stride \in 0 .. run.stride - 1
         /\ Total = run.stride * (Total \div run.stride) + (Total % run.stride)
<1>1. run.stride \in Nat \ {0} /\ run.block \in Nat \ {0} /\ run.stride % run.block = 0
  BY RunFacts DEF RunType
<1>2. Total \in Nat
  BY TotalFacts
<1> QED BY <1>1, <1>2, DivMod

\* The rank of a byte that is at row r, in the column from x on, at place j.
RankAt(r, x, j) ==
  (Total \div run.stride) * x + Capped(x, Total % run.stride) + run.block * r + j
Placed(p, r, x, j) == Coordinates(p, run.stride, run.block, r, x, j)

\* The ranks of the bytes of the input are places of the output.
LEMMA RankFacts ==
  ASSUME run \in CommandLines, run.prog = "stride", NEW p \in Nat
  PROVE  \E r, x, j \in Nat : Placed(p, r, x, j) /\ Rank(p) = RankAt(r, x, j)
<1> DEFINE r == p \div run.stride
           x == (p % run.stride) - (p % run.block)
           j == p % run.block
<1>1. Coordinates(p, run.stride, run.block, r, x, j)
  BY StrideFacts, Located
<1>2. r \in Nat /\ x \in Nat /\ j \in Nat
  BY <1>1 DEF Coordinates
<1>3. Rank(p) = RankAt(r, x, j)
  BY DEF Rank, RankAt
<1> QED BY <1>1, <1>2, <1>3 DEF Placed

\* It is the place of a byte of the output.
LEMMA RankBounds ==
  ASSUME run \in CommandLines, run.prog = "stride", NEW p \in 0 .. Total - 1
  PROVE  Rank(p) \in 0 .. Total - 1
<1> DEFINE t == run.stride
           b == run.block
           f == Total \div run.stride
           s == Total % run.stride
<1>1. /\ t \in Nat \ {0} /\ b \in Nat \ {0} /\ Total \in Nat /\ f \in Nat /\ s \in 0 .. t - 1
      /\ Total = t * f + s
  BY StrideFacts
<1>2. PICK r, x, j \in Nat : Placed(p, r, x, j) /\ Rank(p) = RankAt(r, x, j)
  <2>1. p \in Nat
    BY <1>1
  <2> QED BY <2>1, RankFacts
<1>3. r \in Nat /\ x \in Nat /\ j \in 0 .. b - 1 /\ x + b <= t /\ p = t * r + x + j
  BY <1>2 DEF Placed, Coordinates
<1>4. Rank(p) = f * x + Capped(x, s) + b * r + j
  BY <1>2 DEF RankAt
<1> HIDE DEF t, b, f, s
<1>5. f * x + Capped(x, s) + b * r + j < f * t + Capped(t, s)
  <2>1. t * r + x + j < Total
    BY <1>1, <1>3
  <2> QED BY <1>1, <1>3, <2>1, ColumnOrder
<1>6. f * t + Capped(t, s) = Total
  <2>1. Capped(t, s) = s
    BY <1>1 DEF Capped
  <2> QED BY <1>1, <2>1, Product
<1>7. f * x + Capped(x, s) + b * r + j \in Nat
  <2>1. f * x \in Nat /\ b * r \in Nat /\ Capped(x, s) \in Nat
    BY <1>1, <1>3, Product DEF Capped
  <2> QED BY <1>3, <2>1
<1> QED BY <1>1, <1>4, <1>5, <1>6, <1>7

\* It is greater for the later of two bytes.
LEMMA RankOrder ==
  ASSUME run \in CommandLines, run.prog = "stride",
         NEW c \in 0 .. Total - 1, NEW p \in 0 .. Total - 1, Before(c, p)
  PROVE  Rank(c) < Rank(p)
<1> DEFINE t == run.stride
           b == run.block
           f == Total \div run.stride
           s == Total % run.stride
<1>1. /\ t \in Nat \ {0} /\ b \in Nat \ {0} /\ Total \in Nat /\ f \in Nat /\ s \in 0 .. t - 1
      /\ Total = t * f + s
  BY StrideFacts
<1>0. c \in Nat /\ p \in Nat /\ c < Total
  BY <1>1
<1>2. PICK r, x, j \in Nat : Placed(c, r, x, j) /\ Rank(c) = RankAt(r, x, j)
  BY <1>0, RankFacts
<1>3. PICK r2, y, k \in Nat : Placed(p, r2, y, k) /\ Rank(p) = RankAt(r2, y, k)
  BY <1>0, RankFacts
<1>4. /\ j \in 0 .. b - 1 /\ c = t * r + x + j /\ c \div t = r /\ b * ((c % t) \div b) = x
      /\ k \in 0 .. b - 1 /\ p = t * r2 + y + k /\ p \div t = r2 /\ b * ((p % t) \div b) = y
      /\ c % t \in Nat /\ p % t \in Nat
  <2>1. c % t = x + j /\ p % t = y + k
    BY <1>2, <1>3 DEF Placed, Coordinates
  <2> QED BY <1>2, <1>3, <2>1 DEF Placed, Coordinates
<1>5. /\ Rank(c) = f * x + Capped(x, s) + b * r + j
      /\ Rank(p) = f * y + Capped(y, s) + b * r2 + k
  BY <1>2, <1>3 DEF RankAt
<1> DEFINE q == (c % t) \div b
           q2 == (p % t) \div b
<1>6. q \in Nat /\ q2 \in Nat
  BY <1>1, <1>4, DivMod
<1>7. q < q2 \/ (q = q2 /\ (r < r2 \/ (r = r2 /\ c < p)))
  BY <1>4 DEF Before
<1>8. b * q = x /\ b * q2 = y
  BY <1>4
<1> HIDE DEF t, b, f, s, q, q2
<1>9. /\ f * x \in Nat /\ f * y \in Nat /\ b * r \in Nat /\ b * r2 \in Nat
      /\ Capped(x, s) \in Nat /\ Capped(y, s) \in Nat /\ t * r \in Nat
  <2>1. Capped(x, s) \in Nat /\ Capped(y, s) \in Nat
    BY <1>1 DEF Capped
  <2> QED BY <1>1, <2>1, Product
<1>10. CASE q < q2
  <2>1. x + b <= y
    <3>1. b * (q + 1) <= b * q2 /\ b * (q + 1) = b * q + b * 1
      BY <1>1, <1>6, <1>10, Product
    <3> QED BY <1>1, <1>8, <3>1
  <2>2. t * r + x + j < Total
    BY <1>0, <1>4
  <2>3. f * x + Capped(x, s) + b * r + j < f * y + Capped(y, s)
    BY <1>1, <1>4, <2>1, <2>2, ColumnOrder
  <2> QED BY <1>1, <1>4, <1>5, <1>9, <2>3
<1>11. CASE q = q2 /\ r < r2
  <2>1. b * (r + 1) <= b * r2 /\ b * (r + 1) = b * r + b * 1
    BY <1>1, <1>11, Product
  <2>2. x = y
    BY <1>8, <1>11
  <2> QED BY <1>1, <1>4, <1>5, <1>9, <2>1, <2>2
<1>12. CASE q = q2 /\ r = r2 /\ c < p
  <2>1. x = y
    BY <1>8, <1>12
  <2>2. j < k
    BY <1>1, <1>4, <1>9, <1>12, <2>1
  <2> QED BY <1>1, <1>4, <1>5, <1>9, <1>12, <2>1, <2>2
<1> QED BY <1>7, <1>10, <1>11, <1>12

\* Of two bytes, one is before the other.
LEMMA BeforeTotal ==
  ASSUME run \in CommandLines, run.prog = "stride",
         NEW c \in 0 .. Total - 1, NEW p \in 0 .. Total - 1, c # p
  PROVE  Before(c, p) \/ Before(p, c)
<1>1. run.stride \in Nat \ {0} /\ run.block \in Nat \ {0} /\ Total \in Nat
  BY StrideFacts
<1>2. c \in Nat /\ p \in Nat
  BY <1>1
<1>3. c % run.stride \in Nat /\ p % run.stride \in Nat /\ c \div run.stride \in Nat /\ p \div run.stride \in Nat
  <2>1. \A a \in Nat, n \in Nat \ {0} : a % n \in Nat /\ a \div n \in Nat
    <3> TAKE a \in Nat, n \in Nat \ {0}
    <3>1. a % n \in 0 .. n - 1 /\ a \div n \in Nat
      BY DivMod
    <3> QED BY <3>1
  <2> QED BY <1>1, <1>2, <2>1
<1>4. (c % run.stride) \div run.block \in Nat /\ (p % run.stride) \div run.block \in Nat
  BY <1>1, <1>3, DivMod
<1>5. \A m, n \in Nat : m < n \/ m = n \/ n < m
  OBVIOUS
<1> QED BY <1>2, <1>3, <1>4, <1>5, Zenon DEF Before

\* The byte of that rank is the one wanted at that place.
LEMMA WantedRank ==
  ASSUME run \in CommandLines, run.prog = "stride", NEW p \in 0 .. Total - 1
  PROVE  Wanted[Rank(p)] = p
<1> DEFINE N == 0 .. Total - 1
           F == [c \in N |-> Rank(c)]
           Earlier(c) == Cardinality({d \in N : Before(d, c)})
<1>1. Total \in Nat
  BY TotalFacts
<1>2. F \in [N -> N]
  BY RankBounds
<1>3. \A c, d \in N : F[c] = F[d] => c = d
  <2> SUFFICES ASSUME NEW c \in N, NEW d \in N, Rank(c) = Rank(d), c # d PROVE FALSE
    OBVIOUS
  <2>1. Rank(c) \in Int /\ Rank(d) \in Int
    BY RankBounds, <1>1
  <2>2. Before(c, d) \/ Before(d, c)
    BY BeforeTotal
  <2>3. Rank(c) < Rank(d) \/ Rank(d) < Rank(c)
    BY <2>2, RankOrder
  <2> QED BY <2>1, <2>3
<1>4. ASSUME NEW c \in N PROVE Earlier(c) = F[c]
  <2>1. Cardinality({d \in N : F[d] < F[c]}) = F[c]
    <3> HIDE DEF F
    <3> QED BY <1>1, <1>2, <1>3, Ranked
  <2>2. ASSUME NEW d \in N PROVE F[d] < F[c] <=> Before(d, c)
    <3>1. Rank(c) \in Nat /\ Rank(d) \in Nat
      BY <1>1, RankBounds
    <3>2. Before(d, c) => Rank(d) < Rank(c)
      BY RankOrder
    <3>3. Before(c, d) => Rank(c) < Rank(d)
      BY RankOrder
    <3>4. c = d \/ Before(d, c) \/ Before(c, d)
      BY BeforeTotal
    <3>5. Rank(d) < Rank(c) => Before(d, c)
      BY <3>1, <3>3, <3>4
    <3> QED BY <3>2, <3>5
  <2>3. {d \in N : F[d] < F[c]} = {d \in N : Before(d, c)}
    <3> HIDE DEF N, F
    <3> QED BY <2>2
  <2> QED BY <2>1, <2>3
<1>5. Rank(p) \in N
  BY RankBounds
<1>6. Wanted[Rank(p)] = CHOOSE c \in N : Earlier(c) = Rank(p)
  BY <1>5 DEF Wanted
<1>7. \E c \in N : Earlier(c) = Rank(p)
  BY <1>4
<1>8. \A c \in N : Earlier(c) = Rank(p) => c = p
  BY <1>3, <1>4
<1> HIDE DEF N, F, Earlier
<1>9. (CHOOSE c \in N : Earlier(c) = Rank(p)) = p
  BY <1>7, <1>8
<1> QED BY <1>6, <1>9

\* The rank of a byte from its row, its column and its place in the block.
LEMMA RankOf ==
  ASSUME run \in CommandLines, run.prog = "stride", NEW r \in Nat, NEW q \in Nat,
         NEW j \in 0 .. run.block - 1, run.block * q + run.block <= run.stride
  PROVE  /\ Rank(run.stride * r + run.block * q + j) = RankAt(r, run.block * q, j)
         /\ (run.stride * r + run.block * q + j) % run.block = j
         /\ (run.stride * r + run.block * q + j) % run.stride = run.block * q + j
<1> DEFINE t == run.stride
           b == run.block
           m == t \div b
           p == t * r + b * q + j
<1>1. t \in Nat \ {0} /\ b \in Nat \ {0} /\ t % b = 0
  BY StrideFacts
<1>2. m \in Nat /\ t = b * m
  <2>1. t = b * m + (t % b) /\ m \in Nat
    BY <1>1, DivMod
  <2> QED BY <1>1, <2>1
<1>3. b * q \in Nat /\ t * r \in Nat /\ m * r \in Nat /\ b * q + b <= t /\ j \in 0 .. b - 1
  <2> HIDE DEF m
  <2> QED BY <1>1, <1>2, Product
<1>4. Rank(p) = RankAt(p \div t, (p % t) - (p % b), p % b)
  BY DEF Rank, RankAt
<1> HIDE DEF t, b, m, p
<1>5. p = t * r + (b * q + j) /\ b * q + j \in 0 .. t - 1
  BY <1>1, <1>3 DEF p
<1>6. p \div t = r /\ p % t = b * q + j
  <2>1. PICK e \in 0 .. t - 1 : e = b * q + j
    BY <1>5
  <2>2. (t * r + e) \div t = r /\ (t * r + e) % t = e
    BY <1>1, DivUnique
  <2> QED BY <1>5, <2>1, <2>2
<1>7. p = b * (m * r + q) + j
  <2>1. b * (m * r + q) = b * (m * r) + b * q
    BY <1>1, <1>3, Product
  <2>2. t * r = b * (m * r)
    BY <1>1, <1>2
  <2> QED BY <1>3, <2>1, <2>2 DEF p
<1>8. p % b = j
  <2>1. m * r + q \in Nat
    BY <1>3
  <2> QED BY <1>1, <1>3, <1>7, <2>1, DivUnique
<1>9. (p % t) - (p % b) = b * q
  BY <1>3, <1>6, <1>8
<1> QED BY <1>4, <1>6, <1>8, <1>9 DEF p, t, b

\* The beginning of a block.
LEMMA BlockStart ==
  ASSUME run \in CommandLines, run.prog = "stride", NEW p \in Nat, p % run.block = 0
  PROVE  \E r, q \in Nat :
           /\ p = run.stride * r + run.block * q /\ run.block * q + run.block <= run.stride
           /\ Rank(p) = RankAt(r, run.block * q, 0)
<1> DEFINE r == p \div run.stride
           q == (p % run.stride) \div run.block
<1>1. Coordinates(p, run.stride, run.block, r, (p % run.stride) - (p % run.block), p % run.block)
  BY StrideFacts, Located
<1>2. /\ r \in Nat /\ run.block * q + run.block <= run.stride
      /\ p = run.stride * r + run.block * q + 0
  BY <1>1 DEF Coordinates
<1>3. q \in Nat
  <2>1. run.stride \in Nat \ {0} /\ run.block \in Nat \ {0}
    BY StrideFacts
  <2>2. p % run.stride \in 0 .. run.stride - 1
    BY <2>1, DivMod
  <2>3. p % run.stride \in Nat
    BY <2>1, <2>2
  <2> QED BY <2>1, <2>3, DivMod
<1> HIDE DEF r, q
<1>4. 0 \in 0 .. run.block - 1 /\ run.stride * r \in Nat /\ run.block * q \in Nat
  <2> DEFINE t == run.stride
             b == run.block
  <2>1. t \in Nat \ {0} /\ b \in Nat \ {0}
    BY StrideFacts
  <2> HIDE DEF t, b
  <2>2. 0 \in 0 .. b - 1 /\ t * r \in Nat /\ b * q \in Nat
    BY <1>2, <1>3, <2>1, Product
  <2> QED BY <2>2 DEF t, b
<1>5. Rank(p) = RankAt(r, run.block * q, 0)
  BY <1>2, <1>3, <1>4, RankOf
<1>6. p = run.stride * r + run.block * q
  BY <1>2, <1>4
<1> QED BY <1>2, <1>3, <1>5, <1>6

\* A block that stridecat61 reads is what comes next in its output.
LEMMA StrideRead ==
  ASSUME run \in CommandLines, run.prog = "stride", NEW p \in 0 .. Total - 1, p % run.block = 0
  PROVE  /\ StrideSize(p) \in 1 .. run.block /\ p + StrideSize(p) <= Total
         /\ \A i \in 0 .. StrideSize(p) - 1 : Wanted[Rank(p) + i] = p + i
         /\ Rank(p) + StrideSize(p) <= Total
<1> DEFINE t == run.stride
           b == run.block
           z == StrideSize(p)
<1>1. t \in Nat \ {0} /\ b \in Nat \ {0} /\ Total \in Nat /\ p \in Nat
  <2>1. t \in Nat \ {0} /\ b \in Nat \ {0} /\ Total \in Nat
    BY StrideFacts
  <2> QED BY <2>1
<1>2. PICK r, q \in Nat :
        /\ p = t * r + b * q /\ b * q + b <= t /\ Rank(p) = RankAt(r, b * q, 0)
  BY <1>1, BlockStart
<1>3. z \in 1 .. b /\ p + z <= Total
  BY <1>1 DEF StrideSize
<1>4. ASSUME NEW i \in 0 .. z - 1 PROVE Rank(p + i) = Rank(p) + i /\ p + i \in 0 .. Total - 1
  <2>1. i \in 0 .. b - 1 /\ p + i \in 0 .. Total - 1
    <3> HIDE DEF z, b
    <3> QED BY <1>1, <1>3
  <2>2. Rank(t * r + b * q + i) = RankAt(r, b * q, i)
    BY <1>2, <2>1, RankOf
  <2>3. RankAt(r, b * q, i) = RankAt(r, b * q, 0) + i
    <3>1. Total \div t \in Nat /\ Total % t \in 0 .. t - 1
      BY <1>1, DivMod
    <3> DEFINE f == Total \div t
               s == Total % t
    <3>2. RankAt(r, b * q, i) = f * (b * q) + Capped(b * q, s) + b * r + i
      BY DEF RankAt
    <3>3. RankAt(r, b * q, 0) = f * (b * q) + Capped(b * q, s) + b * r + 0
      BY DEF RankAt
    <3> HIDE DEF f, s, t, b
    <3>4. f \in Nat /\ s \in Nat
      BY <1>1, <3>1 DEF f, s
    <3>5. b * q \in Nat /\ b * r \in Nat
      BY <1>1, Product
    <3>6. f * (b * q) \in Nat /\ Capped(b * q, s) \in Nat
      BY <3>4, <3>5, Product DEF Capped
    <3> QED BY <2>1, <3>2, <3>3, <3>5, <3>6
  <2>4. p + i = t * r + b * q + i
    BY <1>2
  <2> QED BY <1>2, <2>1, <2>2, <2>3, <2>4
<1> HIDE DEF z
<1>5. \A i \in 0 .. z - 1 : Wanted[Rank(p) + i] = p + i
  <2> TAKE i \in 0 .. z - 1
  <2>1. Rank(p + i) = Rank(p) + i /\ p + i \in 0 .. Total - 1
    BY <1>4
  <2>2. Wanted[Rank(p + i)] = p + i
    BY <2>1, WantedRank
  <2> QED BY <2>1, <2>2
<1>6. Rank(p) + z <= Total
  <2>1. z - 1 \in 0 .. z - 1 /\ z \in Nat
    BY <1>1, <1>3
  <2>2. Rank(p + (z - 1)) = Rank(p) + (z - 1) /\ p + (z - 1) \in 0 .. Total - 1
    BY <1>4, <2>1
  <2>3. Rank(p + (z - 1)) \in 0 .. Total - 1
    BY <2>2, RankBounds
  <2>4. Rank(p) \in 0 .. Total - 1
    BY RankBounds
  <2> HIDE DEF b
  <2>5. Rank(p) + (z - 1) \in 0 .. Total - 1
    BY <2>2, <2>3
  <2> QED BY <1>1, <2>1, <2>4, <2>5
<1> QED BY <1>3, <1>5, <1>6 DEF z

\* And the block after it is where next_pos puts it.
LEMMA StrideNext ==
  ASSUME run \in CommandLines, run.prog = "stride", NEW p \in 0 .. Total - 1, p % run.block = 0,
         left = Total
  PROVE  LET n == NextPos(p + run.stride)
         IN  /\ n \in Nat
             /\ \/ Rank(p) + StrideSize(p) = Total
                \/ n < Total /\ n % run.block = 0 /\ Rank(n) = Rank(p) + StrideSize(p)
<1> DEFINE t == run.stride
           b == run.block
           f == Total \div t
           s == Total % t
           z == StrideSize(p)
           n == NextPos(p + t)
<1>1. /\ t \in Nat \ {0} /\ b \in Nat \ {0} /\ t % b = 0 /\ Total \in Nat /\ p \in Nat
      /\ f \in Nat /\ s \in 0 .. t - 1 /\ s \in Nat /\ Total = t * f + s /\ p < Total
  <2>1. /\ t \in Nat \ {0} /\ b \in Nat \ {0} /\ t % b = 0 /\ Total \in Nat
        /\ f \in Nat /\ s \in 0 .. t - 1 /\ Total = t * f + s
    BY StrideFacts
  <2> HIDE DEF t, b, f, s
  <2> QED BY <2>1
<1>2. PICK r, q \in Nat :
        /\ p = t * r + b * q /\ b * q + b <= t /\ Rank(p) = RankAt(r, b * q, 0)
  BY <1>1, BlockStart
<1> DEFINE x == b * q
<1>3. x \in Nat /\ t * r \in Nat /\ b * r \in Nat /\ f * x \in Nat /\ Capped(x, s) \in Nat
  <2> HIDE DEF t, b, f, s
  <2>1. x \in Nat /\ t * r \in Nat /\ b * r \in Nat
    BY <1>1, Product
  <2> HIDE DEF x
  <2> QED BY <1>1, <2>1, Product DEF Capped
<1>4. Rank(p) = f * x + Capped(x, s) + b * r + 0
  BY <1>2 DEF RankAt
<1>5. z = IF p + b > Total THEN Total - p ELSE b
  BY DEF StrideSize
<1>6. n = IF p + t >= Total THEN ((p + t) % t) + b ELSE p + t
  BY DEF NextPos
<1>7. \A u, v \in Nat : b * v + b <= t =>
        /\ Rank(t * u + b * v) = f * (b * v) + Capped(b * v, s) + b * u + 0
        /\ (t * u + b * v) % b = 0
        /\ (t * u + b * v) % t = b * v
  <2> SUFFICES ASSUME NEW u \in Nat, NEW v \in Nat, b * v + b <= t
               PROVE  /\ Rank(t * u + b * v) = f * (b * v) + Capped(b * v, s) + b * u + 0
                      /\ (t * u + b * v) % b = 0
                      /\ (t * u + b * v) % t = b * v
    OBVIOUS
  <2>1. 0 \in 0 .. b - 1
    BY SMTT(30), <1>1
  <2>2. /\ Rank(t * u + b * v + 0) = RankAt(u, b * v, 0)
        /\ (t * u + b * v + 0) % b = 0
        /\ (t * u + b * v + 0) % t = b * v + 0
    BY <2>1, RankOf
  <2>3. RankAt(u, b * v, 0) = f * (b * v) + Capped(b * v, s) + b * u + 0
    BY DEF RankAt
  <2>4. t * u \in Nat /\ b * v \in Nat
    BY <1>1, Product
  <2>5. t * u + b * v + 0 = t * u + b * v /\ b * v + 0 = b * v
    BY <2>4
  <2> QED BY <2>2, <2>3, <2>5
<1> HIDE DEF t, b, f, s, z, n
<1>8. t * (r + 1) = t * r + t /\ b * (r + 1) = b * r + b /\ b * (q + 1) = x + b
  <2>1. t * (r + 1) = t * r + t * 1 /\ b * (r + 1) = b * r + b * 1 /\ b * (q + 1) = b * q + b * 1
    BY <1>1, Product
  <2> QED BY <1>1, <2>1
<1>9. p = t * r + x /\ x + b <= t
  BY <1>2
<1>10. /\ Rank(t * (r + 1) + x) = f * x + Capped(x, s) + b * (r + 1) + 0
       /\ (t * (r + 1) + x) % b = 0 /\ (t * (r + 1) + x) % t = x
  BY <1>7, <1>9
<1> HIDE DEF x
<1>11. p + t = t * (r + 1) + x
  BY <1>1, <1>3, <1>8, <1>9
<1>12. CASE p + t < Total
  <2>1. n = p + t /\ z = b
    BY <1>1, <1>3, <1>5, <1>6, <1>9, <1>12
  <2>2. Rank(n) = Rank(p) + z /\ n % b = 0
    <3>1. f * x + Capped(x, s) + (b * r + b) + 0 = f * x + Capped(x, s) + b * r + 0 + b
      BY <1>1, <1>3
    <3>2. Rank(n) = f * x + Capped(x, s) + (b * r + b) + 0
      BY <1>8, <1>10, <1>11, <2>1
    <3> QED BY <1>4, <1>10, <1>11, <2>1, <3>1, <3>2
  <2> QED BY <1>1, <1>12, <2>1, <2>2 DEF n, z, t, b
<1>13. CASE ~(p + t < Total)
  <2>1. n = x + b
    BY <1>1, <1>6, <1>10, <1>11, <1>13
  <2>2. Rank(p) + z = f * (x + b) + Capped(x + b, s)
    <3>1. z \in Nat /\ p \in Nat /\ p < Total /\ p + t >= Total
      BY <1>1, <1>5, <1>13
    <3>2. f * x + Capped(x, s) + b * r + z = f * (x + b) + Capped(x + b, s)
      <4>1. /\ Total \in Nat /\ t \in Nat \ {0} /\ b \in Nat \ {0} /\ f \in Nat
            /\ s \in 0 .. t - 1 /\ Total = t * f + s /\ r \in Nat /\ x \in Nat /\ x + b <= t
        BY <1>1, <1>3, <1>9
      <4>2. LastOfColumn(Total, t, b, f, s, r, x, p, z)
        BY <1>5, <1>9, <3>1, <4>1 DEF LastOfColumn
      <4>3. ColumnEnds(b, f, s, r, x, z)
        BY <4>2, ColumnStep, Zenon
      <4> QED BY <4>3 DEF ColumnEnds
    <3> QED BY <1>3, <1>4, <3>1, <3>2
  <2>3. CASE x + b = t
    <3>1. Capped(t, s) = s
      BY <1>1 DEF Capped
    <3>2. f * t = t * f
      BY <1>1, Product
    <3>3. Rank(p) + z = Total
      BY <1>1, <2>2, <2>3, <3>1, <3>2
    <3> QED BY <1>1, <1>3, <2>1, <3>3 DEF n, z, t, b
  <2>4. CASE x + b # t /\ x + b < Total
    <3>1. x + b + b <= t
      <4> DEFINE m == t \div b
      <4>1. m \in Nat /\ t = b * m
        <5>1. t = b * m + (t % b) /\ m \in Nat
          BY <1>1, DivMod
        <5> QED BY <1>1, <5>1
      <4> HIDE DEF m
      <4>2. q + 1 < m
        <5> SUFFICES ASSUME q + 1 >= m PROVE FALSE
          BY <4>1
        <5>1. b * m <= b * (q + 1)
          BY <1>1, <4>1, Product
        <5> QED BY <1>1, <1>3, <1>8, <1>9, <2>4, <4>1, <5>1
      <4>3. b * (q + 2) <= b * m /\ b * (q + 2) = b * q + b * 2
        BY <1>1, <4>1, <4>2, Product
      <4>4. b * 2 = b + b
        BY <1>1
      <4> QED BY <1>1, <1>3, <4>1, <4>3, <4>4 DEF x
    <3>2. /\ Rank(t * 0 + b * (q + 1)) = f * (b * (q + 1)) + Capped(b * (q + 1), s) + b * 0 + 0
          /\ (t * 0 + b * (q + 1)) % b = 0
      <4>1. q + 1 \in Nat /\ b * (q + 1) + b <= t
        BY <1>8, <3>1
      <4> QED BY <1>7, <4>1
    <3>3. t * 0 + b * (q + 1) = x + b /\ b * (q + 1) = x + b
      BY <1>1, <1>3, <1>8
    <3>4. Rank(x + b) = f * (x + b) + Capped(x + b, s) + b * 0 + 0 /\ (x + b) % b = 0
      BY <3>2, <3>3
    <3>5. Rank(x + b) = f * (x + b) + Capped(x + b, s)
      <4>1. f * (x + b) \in Nat /\ Capped(x + b, s) \in Nat /\ b * 0 = 0
        BY <1>1, <1>3, Product DEF Capped
      <4> QED BY <3>4, <4>1
    <3> QED BY <1>1, <1>3, <2>1, <2>2, <2>4, <3>4, <3>5 DEF n, z, t, b
  <2>5. CASE x + b # t /\ ~(x + b < Total)
    <3>1. f = 0
      <4> SUFFICES ASSUME f >= 1 PROVE FALSE
        BY <1>1
      <4>1. t * 1 <= t * f
        BY <1>1, Product
      <4> QED BY <1>1, <1>3, <1>9, <2>5, <4>1
    <3>2. s = Total
      BY <1>1, <3>1
    <3>3. Capped(x + b, s) = Total /\ f * (x + b) = 0
      BY <1>1, <1>3, <2>5, <3>1, <3>2 DEF Capped
    <3>4. Rank(p) + z = Total
      BY <1>1, <2>2, <3>3
    <3> QED BY <1>1, <1>3, <2>1, <3>4 DEF n, z, t, b
  <2> QED BY <2>3, <2>4, <2>5
<1> QED BY <1>12, <1>13

\* stridecat61 begins at the beginning.
LEMMA StrideFirst ==
  ASSUME run \in CommandLines, run.prog = "stride"
  PROVE  Rank(0) = 0 /\ 0 % run.block = 0
<1>1. run.stride \in Nat \ {0} /\ run.block \in Nat \ {0} /\ Total \in Nat
      /\ Total % run.stride \in 0 .. run.stride - 1 /\ Total \div run.stride \in Nat
  BY StrideFacts
<1>2. 0 \div run.stride = 0 /\ 0 % run.stride = 0 /\ 0 % run.block = 0
  <2>1. \A m \in Nat \ {0} : 0 \div m = 0 /\ 0 % m = 0
    OBVIOUS
  <2> QED BY <1>1, <2>1
<1>3. Rank(0) = (Total \div run.stride) * 0 + Capped(0, Total % run.stride) + run.block * 0 + 0
  BY <1>2 DEF Rank
<1>4. Capped(0, Total % run.stride) = 0
  BY <1>1 DEF Capped
<1> QED BY <1>1, <1>2, <1>3, <1>4
-----------------------------------------------------------------------------
(* Reading.                                                                *)

\* The types of the variables, one by one.
LEMMA Basics ==
  ASSUME Types
  PROVE  /\ run \in CommandLines /\ RunType(run)
         /\ left \in Nat /\ pos \in Nat /\ written \in Nat /\ want \in Nat /\ nw \in Nat
         /\ ioff \in Nat /\ ooff \in Nat /\ left <= SIZE_MAX /\ want <= run.block
         /\ nw <= Len(buf) /\ Len(buf) <= want /\ ioff <= run.size /\ written <= run.size
         /\ buf \in Seq(Nat) /\ ipipe \in Seq(Nat) /\ rbuf \in Seq(Nat)
         /\ wbuf \in Seq(Nat) /\ opipe \in Seq(Nat)
         /\ Len(buf) \in Nat /\ Len(ipipe) \in Nat /\ Len(rbuf) \in Nat
         /\ Len(wbuf) \in Nat /\ Len(opipe) \in Nat
<1>1. run \in CommandLines /\ RunType(run)
  BY RunFacts DEF Types, TypeOK
<1> QED BY SMTT(30), <1>1 DEF Types, TypeOK, RunType

\* A read gets t, maybe nothing, and goes on or returns.
ReadFrame ==
  /\ UNCHANGED <<run, ret, left, pos, written, want, nw, wopen, output>>
  /\ ioff' \in Nat /\ ioff' <= run.size /\ ipipe' \in Seq(Nat) /\ rbuf' \in Seq(Nat)
  /\ Len(ipipe') <= PIPE_SIZE /\ Len(rbuf') <= BUFSIZ
Gets(t) ==
  /\ Follows(t, Counting, Taken) /\ buf' = buf \o t
  /\ Len(buf) + Len(t) <= want /\ Taken' = Taken + Len(t)
GoesOn ==
  /\ pc' = "read" /\ Len(buf') < want
  /\ run.ilib = "syscall" /\ ~run.read_bytewise => buf' = <<>>
Returns ==
  /\ Returned(Len(buf')) /\ (Knows => Len(buf') = want)
  /\ Len(buf') = 0 => run.alarm \/ Taken' = run.size

\* What happens to the block and to the counters then.
LEMMA ReadStep ==
  ASSUME Inv, Reading, ReadFrame, InputInv', NEW t, Gets(t), GoesOn \/ Returns
  PROVE  Inv'
<1>0. RunType(run) /\ run \in CommandLines /\ buf \in Seq(Nat) /\ Len(wbuf) \in Nat /\ Len(opipe) \in Nat
  BY Basics DEF Inv
<1>1. /\ left \in Nat /\ want \in Nat /\ Len(buf) \in Nat /\ run.size \in Nat
      /\ want <= run.block /\ run.block \in Nat
  BY Basics DEF Inv, RunType
<1>2. /\ Total \in Nat /\ FileSize(run) \in Nat /\ (Knows => Total = FileSize(run))
      /\ Total = IF FileSize(run) <= run.size THEN FileSize(run) ELSE run.size
      /\ run.prog \in {"block", "varblock"} => Total = run.size
  BY <1>0, TotalFacts
<1>3. /\ Total' = Total /\ Wanted' = Wanted /\ FileSize(run)' = FileSize(run)
      /\ Streams' = Streams /\ Knows' = Knows /\ InOrder' = InOrder
      /\ Stored' = Stored /\ Sent' = Sent /\ Place' = Place
  BY DEF ReadFrame, Total, Wanted, Before, FileSize, Streams, Knows, InOrder, Stored, Sent, Place,
         output
<1>40. t \in Seq(Nat)
  BY FollowsCounting DEF Gets
<1>4. /\ Len(t) \in Nat /\ Taken \in Nat
      /\ Len(buf) + Len(t) <= want /\ Taken' = Taken + Len(t)
  BY FollowsCounting DEF Gets
<1>41. \A i \in 1 .. Len(t) : t[i] = Taken + i - 1
  BY FollowsCounting DEF Gets
<1>50. buf' \in Seq(Nat)
  BY <1>0, <1>40, ConcatProperties DEF Gets
<1>5. Len(buf') = Len(buf) + Len(t)
  BY <1>0, <1>40, ConcatProperties DEF Gets
<1>51. \A i \in 1 .. Len(buf) + Len(t) :
         buf'[i] = IF i <= Len(buf) THEN buf[i] ELSE t[i - Len(buf)]
  BY <1>0, <1>40, ConcatProperties DEF Gets
<1>6. /\ nw = 0 /\ Len(buf) < want /\ From >= 0 /\ From \in Int /\ From + Len(buf) = Taken
      /\ Knows => From + want <= run.size
      /\ Streams /\ run.prog \notin {"block", "varblock"} => Place + want <= FileSize(run)
  <2>1. From + Len(buf) = Taken /\ From \in Int
    BY <1>1, <1>4 DEF From
  <2> QED BY <2>1 DEF Inv, ReadInv
<1>61. Streams => \A i \in 0 .. want - 1 : Place + i < Total => Wanted[Place + i] = From + i
  BY DEF Inv, ReadInv
<1>7. From' = From /\ Taken' <= run.size
  <2>1. Len(ipipe') \in Nat /\ Len(rbuf') \in Nat /\ ioff' \in Nat /\ ioff' <= run.size
    BY DEF ReadFrame
  <2>2. Taken' <= run.size
    BY <1>0, <1>1, <2>1 DEF Taken
  <2>3. From' = Taken' - Len(buf')
    BY DEF From
  <2> QED BY SMTT(30), <1>1, <1>4, <1>5, <1>6, <2>2, <2>3
<1>8. pc' \in {"read", "write", "seek", "close"} /\ (pc' = "seek" <=> ~Streams /\ pc' # "read")
  <2>1. CASE GoesOn
    BY <2>1 DEF GoesOn
  <2>2. CASE Returns
    BY <1>1, <1>5, <1>4, <1>6, <2>2 DEF Returns, Returned, Knows, Streams
  <2> QED BY <2>1, <2>2
<1>81. pc' # "read" => Returns
  BY DEF GoesOn
<1>9. Types'
  <2>1. UNCHANGED <<run, ret, left, pos, written, want, nw, wopen, output>>
    BY DEF ReadFrame
  <2>2. /\ ioff' \in Nat /\ ioff' <= run.size /\ ipipe' \in Seq(Nat) /\ rbuf' \in Seq(Nat)
        /\ Len(ipipe') <= PIPE_SIZE /\ Len(rbuf') <= BUFSIZ
    BY DEF ReadFrame
  <2>3. Len(buf') <= want' /\ nw' \in 0 .. Len(buf') /\ ioff' \in 0 .. run'.size
    BY <1>1, <1>4, <1>5, <1>6, <2>1, <2>2
  <2>4. TypeOK'
    BY <1>8, <2>1, <2>2, <2>3 DEF Inv, Types, TypeOK, output
  <2> QED BY <1>50, <2>1, <2>2, <2>4 DEF Inv, Types, output
<1>10. OutputInv'
  BY <1>3 DEF ReadFrame, Inv, OutputInv, output
<1>11. StreamInv'
  <2> SUFFICES ASSUME Streams PROVE StreamInv'
    BY <1>3 DEF StreamInv
  <2>1. /\ Follows(opipe, Wanted, Stored) /\ Follows(wbuf, Wanted, Stored + Len(opipe))
        /\ Stored \in Nat /\ DOMAIN out = 0 .. Stored - 1 /\ Place + Len(buf) <= Total
        /\ run.dst = "file" => ooff = Stored
        /\ Follows(buf, Wanted, Place)
    BY DEF Inv, StreamInv
  <2>2. Place \in Nat
    BY <2>1 DEF Follows
  <2>3. Place + Len(buf) + Len(t) <= Total
    <3>1. CASE InOrder
      <4>1. Place = From
        BY <3>1 DEF Inv, CountInv
      <4>2. Place + Len(buf) + Len(t) <= run.size
        BY <1>1, <1>4, <1>6, <1>7, <4>1
      <4> QED BY <1>1, <1>2, <1>4, <1>6, <2>2, <3>1, <4>2 DEF InOrder
    <3>2. CASE ~InOrder
      <4>1. Knows /\ run.prog \notin {"block", "varblock"}
        BY <1>0, <1>1, <3>2 DEF Knows, InOrder, RunType
      <4> QED BY <1>1, <1>2, <1>4, <1>6, <2>2, <4>1
    <3> QED BY <3>1, <3>2
  <2>4. ASSUME NEW i \in 1 .. Len(buf')
        PROVE  Place + i - 1 \in DOMAIN Wanted /\ buf'[i] = Wanted[Place + i - 1]
    <3>1. i \in Nat /\ 1 <= i /\ i <= Len(buf) + Len(t) /\ i \in 1 .. Len(buf) + Len(t)
      BY <1>1, <1>4, <1>5
    <3>2. Place + i - 1 \in 0 .. Total - 1
      BY SMTT(30), <1>1, <1>2, <1>4, <2>2, <2>3, <3>1
    <3>3. Place + i - 1 \in DOMAIN Wanted
      BY <1>0, <3>2, WantedFacts
    <3>4. CASE i <= Len(buf)
      <4>1. i \in 1 .. Len(buf)
        BY <1>1, <3>1, <3>4
      <4>2. buf[i] = Wanted[Place + i - 1]
        BY <2>1, <4>1 DEF Follows
      <4> QED BY <1>51, <3>1, <3>3, <3>4, <4>2
    <3>5. CASE ~(i <= Len(buf))
      <4>1. i - Len(buf) \in 1 .. Len(t)
        BY <1>1, <1>4, <3>1, <3>5
      <4>2. buf'[i] = Taken + (i - Len(buf)) - 1
        BY <1>41, <1>51, <3>1, <3>5, <4>1
      <4>3. i - 1 \in 0 .. want - 1 /\ Place + (i - 1) < Total /\ Place + (i - 1) = Place + i - 1
        BY <1>1, <1>2, <1>4, <2>2, <2>3, <3>1
      <4>4. Wanted[Place + i - 1] = From + (i - 1)
        BY <1>61, <4>3
      <4>5. Taken + (i - Len(buf)) - 1 = From + (i - 1)
        BY <1>1, <1>4, <1>6, <3>1
      <4> QED BY <3>3, <4>2, <4>4, <4>5
    <3> QED BY <3>4, <3>5
  <2>5. Follows(buf', Wanted, Place)
    BY <1>5, <1>50, <2>2, <2>4 DEF Follows
  <2> QED BY <1>3, <1>5, <1>1, <1>4, <2>1, <2>2, <2>3, <2>5 DEF ReadFrame, StreamInv, output
<1>12. BackInv'
  <2> SUFFICES ASSUME ~Streams PROVE BackInv'
    BY <1>3 DEF BackInv
  <2>1. Len(buf) = 0 /\ want = 1 /\ left + 1 + Taken = FileSize(run) /\ Knows
    BY <1>0, <1>1, <1>6 DEF Streams, RunType, Inv, CountInv, Knows
  <2>2. /\ Len(wbuf) <= 1 /\ Accepted = left + 1 /\ Accepted <= Total
        /\ DOMAIN out = Accepted + Len(wbuf) .. Total - 1
        /\ wbuf # <<>> => ooff = Accepted /\ Accepted < Total /\ wbuf[1] = Wanted[ooff]
    BY DEF Inv, BackInv, Accepted, Reading
  <2>3. CASE pc' = "read"
    BY <1>1, <1>3, <1>4, <1>5, <2>1, <2>2, <2>3 DEF ReadFrame, BackInv, Accepted, Reading, Holding, At, output
  <2>4. CASE pc' # "read"
    <3>1. pc' = "seek" /\ Len(buf') = 1
      BY <1>8, <1>3, <1>81, <2>1, <2>4 DEF Returns
    <3>2. buf'[1] = Taken
      <4>0. Len(t) = 1
        <5>1. Len(buf) + Len(t) = 1
          BY <1>5, <3>1, Zenon
        <5> QED BY <1>4, <2>1, <5>1
      <4>1. 1 \in 1 .. Len(t) /\ 1 \in 1 .. Len(buf) + Len(t) /\ ~(1 <= Len(buf)) /\ 1 - Len(buf) = 1
        BY <2>1, <4>0
      <4>2. buf'[1] = t[1] /\ t[1] = Taken + 1 - 1
        BY <1>41, <1>51, <4>1
      <4> QED BY <1>4, <4>2
    <3>3. Wanted[left] = Taken
      BY SMTT(30), <1>0, <1>1, <1>2, <1>4, <2>1, <2>2, WantedFacts DEF Streams
    <3> QED BY <1>1, <1>3, <2>2, <3>1, <3>2, <3>3 DEF ReadFrame, BackInv, Accepted, Reading, Holding, At, output
  <2> QED BY <2>3, <2>4
<1>13. ReadInv'
  <2>1. CASE pc' = "read"
    <3>1. GoesOn
      BY <1>1, <1>4, <1>5, <2>1 DEF Returns, Returned
    <3> QED BY <1>3, <1>6, <1>61, <1>7, <2>1, <3>1 DEF ReadFrame, ReadInv, Reading, GoesOn
  <2>2. CASE pc' # "read"
    BY <2>2 DEF ReadInv, Reading
  <2> QED BY <2>1, <2>2
<1>14. BlockInv'
  <2>1. pc' \in {"write", "seek"} => Len(buf') > 0
    BY <1>1, <1>4, <1>5, <1>81 DEF Returns, Returned
  <2>2. pc' = "close" => Len(buf') = 0
    BY <1>1, <1>4, <1>5, <1>81 DEF Returns, Returned
  <2>3. pc' # "read" /\ Knows => Len(buf') = want
    BY <1>81 DEF Returns
  <2>4. nw' = nw /\ want' = want
    BY DEF ReadFrame
  <2> QED BY <1>3, <1>6, <1>8, <2>1, <2>2, <2>3, <2>4 DEF BlockInv, At, Holding, Between, Ending
<1>15. CountInv'
  <2>1. pc' = "close" => ~Knows
    BY <1>1, <1>4, <1>5, <1>6, <1>81 DEF Returns, Returned
  <2>2. ASSUME run.prog = "reversewrite"
        PROVE  Taken' = IF pc' = "read" THEN Taken ELSE Taken + 1
    <3>1. Len(buf) = 0 /\ want = 1 /\ Knows
      BY <1>0, <1>1, <1>6, <2>2 DEF RunType, Knows
    <3>2. CASE pc' = "read"
      BY <1>1, <1>4, <1>5, <1>8, <3>1, <3>2 DEF GoesOn, Returns, Returned
    <3>3. CASE pc' # "read"
      <4>1. Len(buf') = want
        BY <1>81, <3>1, <3>3 DEF Returns
      <4>2. Len(buf) + Len(t) = want
        BY <1>5, <4>1, Zenon
      <4>3. Len(t) = 1
        BY <1>4, <3>1, <4>2
      <4>4. Taken' = Taken + 1
        BY <1>4, <4>3, Zenon
      <4> QED BY <3>3, <4>4
    <3> QED BY <3>2, <3>3
  <2>3. UNCHANGED <<run, left, pos, written, want>>
    BY DEF ReadFrame
  <2>4. (StrideAt)' = StrideAt /\ StrideSize(pos)' = StrideSize(pos)
    BY <1>3, <2>3 DEF StrideAt, Rank, StrideSize
  <2> QED BY SMTT(30), <1>1, <1>2, <1>3, <1>4, <1>6, <1>7, <1>8, <2>1, <2>2, <2>3, <2>4
          DEF Inv, CountInv, Reading, Holding, Between, Ending, At, Knows
<1>16. EndInv'
  <2> SUFFICES ASSUME pc' = "close", Streams PROVE run.alarm \/ Sent = Total
    BY <1>3, <1>8 DEF ReadFrame, EndInv, Ending, At
  <2>1. Len(buf') = 0 /\ InOrder /\ (run.alarm \/ Taken' = run.size)
    BY <1>0, <1>1, <1>4, <1>5, <1>6, <1>81 DEF Returns, Returned, Knows, InOrder, RunType
  <2>2. Place = From /\ Place + Len(buf) <= Total
    BY <2>1 DEF Inv, CountInv, StreamInv
  <2>3. Stored \in Nat
    BY DEF Inv, StreamInv
  <2>4. Sent \in Nat /\ Place = Sent
    BY <1>0, <1>6, <2>3 DEF Place, Sent
  <2>5. Len(buf) = 0 /\ Len(t) = 0
    <3>1. Len(buf) + Len(t) = 0
      BY <1>5, <2>1, Zenon
    <3> QED BY <1>1, <1>4, <3>1
  <2>6. run.alarm \/ Sent = run.size
    BY <1>4, <1>6, <2>1, <2>2, <2>4, <2>5
  <2>7. run.size \in Nat /\ Sent <= Total
    BY <1>1, <1>2, <2>2, <2>4, <2>5
  <2> QED BY <1>2, <2>4, <2>6, <2>7
<1>17. AssertionsHold'
  BY <1>8 DEF AssertionsHold
<1> QED BY <1>9, <1>10, <1>11, <1>12, <1>13, <1>14, <1>15, <1>16, <1>17 DEF Inv

\* A program that knows the size of its input does not read past it.
LEMMA MoreToRead ==
  ASSUME Inv, Reading
  PROVE  /\ Len(buf) < want /\ nw = 0 /\ Taken \in Nat /\ Taken = From + Len(buf)
         /\ Knows => Taken + (want - Len(buf)) <= run.size
<1>1. Len(buf) \in Nat /\ want \in Nat /\ run.size \in Nat
  BY Basics DEF Inv, RunType
<1>2. Taken \in Nat
  BY DEF Inv, InputInv, Follows
<1>3. Taken = From + Len(buf) /\ From \in Int
  BY <1>1, <1>2 DEF From
<1> QED BY <1>1, <1>2, <1>3 DEF Inv, ReadInv

\* io61_readc() returns one byte, or finds the end of the input.
LEMMA ReadByteStep == Inv /\ ReadByte => Inv'
<1> SUFFICES ASSUME Inv, ReadByte PROVE Inv'
  OBVIOUS
<1>1. /\ Reading /\ Readable /\ Consume(1) /\ buf' = buf \o Data(1)
      /\ IF LastByte THEN Returned(Len(buf')) ELSE UNCHANGED pc
      /\ UNCHANGED <<run, ret, left, pos, written, want, nw, wopen, rbuf, output>>
  BY DEF ReadByte, Reading
<1>2. run.ilib # "stdio" /\ ~(run.ilib = "syscall" /\ ~run.read_bytewise)
  BY DEF ReadByte, Bytewise
<1>3. Types /\ InputInv
  BY DEF Inv
<1>4. /\ Data(1) \in Seq(Nat) /\ Len(Data(1)) <= 1
      /\ Follows(Data(1), Counting, ioff - Len(ipipe))
      /\ ioff' \in Nat /\ ioff' <= run.size /\ ipipe' \in Seq(Nat) /\ Len(ipipe') <= PIPE_SIZE
      /\ ioff' - Len(ipipe') = ioff - Len(ipipe) + Len(Data(1))
      /\ Follows(ipipe', Counting, ioff' - Len(ipipe'))
      /\ run.src = "file" => ipipe' = <<>> /\ ~wopen'
      /\ run.src = "pipe" /\ ~wopen' => ioff' = run.size
      /\ Data(1) = <<>> => ioff = run.size /\ ipipe = <<>>
  BY <1>1, <1>3, DataFacts
<1>5. rbuf = <<>> /\ rbuf' = <<>> /\ Len(rbuf) = 0 /\ Len(rbuf') = 0
  BY <1>1, <1>2, <1>3 DEF InputInv
<1>6. /\ Len(buf) \in Nat /\ want \in Nat /\ Len(ipipe) \in Nat /\ ioff \in Nat /\ buf \in Seq(Nat)
      /\ run.size \in Nat
  BY <1>3, Basics DEF RunType
<1>7. ioff - Len(ipipe) = Taken
  BY <1>5, <1>6 DEF Taken
<1>71. Len(ipipe') \in Nat /\ Len(Data(1)) \in Nat /\ Len(buf') = Len(buf) + Len(Data(1))
  BY <1>1, <1>4, <1>6, ConcatProperties
<1>8. Taken' = Taken + Len(Data(1)) /\ Taken' \in Nat /\ Taken' = ioff' - Len(ipipe')
  <2>1. Taken' = ioff' - Len(ipipe')
    BY <1>4, <1>5, <1>71 DEF Taken
  <2>2. Taken \in Nat
    BY <1>4, <1>7 DEF Follows
  <2> QED BY <1>4, <1>7, <1>71, <2>1, <2>2
<1>9. InputInv'
  <2>1. Follows(rbuf', Counting, Taken')
    BY <1>5, <1>8, FollowsEmpty
  <2> QED BY <1>1, <1>4, <1>5, <2>1 DEF InputInv
<1>10. ReadFrame
  BY <1>1, <1>3, <1>4, <1>5, SizeAssumption DEF ReadFrame, Types
<1>11. /\ Len(buf) < want /\ Taken \in Nat
       /\ Knows => Taken + (want - Len(buf)) <= run.size
  BY <1>1, MoreToRead
<1>12. Gets(Data(1))
  <2>1. Len(buf) + Len(Data(1)) <= want
    BY <1>4, <1>6, <1>71, <1>11
  <2> QED BY <1>1, <1>4, <1>7, <1>8, <2>1 DEF Gets
<1>13. Data(1) = <<>> => Len(Data(1)) = 0 /\ Taken = run.size /\ ~Knows
  <2> SUFFICES ASSUME Data(1) = <<>> PROVE Len(Data(1)) = 0 /\ Taken = run.size /\ ~Knows
    OBVIOUS
  <2>1. ioff = run.size /\ Len(ipipe) = 0
    BY <1>4
  <2>2. Taken = run.size
    BY <1>6, <1>7, <2>1
  <2> QED BY <1>6, <1>11, <2>2
<1>14. Data(1) # <<>> => Len(Data(1)) = 1
  <2> SUFFICES ASSUME Data(1) # <<>> PROVE Len(Data(1)) = 1
    OBVIOUS
  <2>1. Len(Data(1)) \in Nat \ {0}
    BY <1>4, EmptySeq
  <2>2. \A n \in Nat \ {0} : n <= 1 => n = 1
    OBVIOUS
  <2> QED BY <1>4, <2>1, <2>2, Zenon
<1>15. GoesOn \/ Returns
  <2>1. CASE ~LastByte
    <3>1. Len(Data(1)) = 1 /\ Len(buf) + 1 # want
      BY <1>14, <2>1 DEF LastByte
    <3>2. Len(buf') = Len(buf) + 1
      BY <1>71, <3>1, Zenon
    <3> QED BY <1>1, <1>2, <1>6, <1>11, <2>1, <3>1, <3>2 DEF GoesOn, Reading
  <2>2. CASE LastByte /\ Data(1) = <<>>
    BY <1>1, <1>8, <1>11, <1>13, <2>2 DEF Returns
  <2>3. CASE LastByte /\ Data(1) # <<>>
    <3>1. Len(Data(1)) = 1 /\ Len(buf) + 1 = want
      BY <1>14, <2>3 DEF LastByte
    <3>2. Len(buf') = want
      BY <1>71, <3>1, Zenon
    <3>3. want # 0
      BY <1>6, <1>11
    <3> QED BY <1>1, <2>3, <3>2, <3>3 DEF Returns
  <2> QED BY <2>1, <2>2, <2>3
<1> QED BY <1>1, <1>9, <1>10, <1>12, <1>15, ReadStep

\* io61_read() of syscall-io61.cc returns what one read() returns.
LEMMA ReadCallStep == Inv /\ ReadCall => Inv'
<1> SUFFICES ASSUME Inv, ReadCall PROVE Inv'
  OBVIOUS
<1>1. /\ Reading /\ Readable /\ Consume(want) /\ buf' = Data(want) /\ Returned(Len(buf'))
      /\ UNCHANGED <<run, ret, left, pos, written, want, nw, wopen, rbuf, output>>
      /\ run.ilib = "syscall" /\ ~run.read_bytewise
  BY DEF ReadCall, Reading
<1>2. Types /\ InputInv
  BY DEF Inv
<1>3. /\ Len(buf) < want /\ Taken \in Nat
      /\ Knows => Taken + (want - Len(buf)) <= run.size
  BY <1>1, MoreToRead
<1>4. /\ Len(buf) \in Nat /\ want \in Nat /\ Len(ipipe) \in Nat /\ ioff \in Nat /\ buf \in Seq(Nat)
      /\ run.size \in Nat /\ RunType(run)
  BY <1>2, Basics DEF RunType
<1>5. want \in Nat \ {0} /\ buf = <<>> /\ Len(buf) = 0
  BY <1>1, <1>3, <1>4 DEF Inv, ReadInv
<1>6. /\ Data(want) \in Seq(Nat) /\ Len(Data(want)) <= want
      /\ Follows(Data(want), Counting, ioff - Len(ipipe))
      /\ ioff' \in Nat /\ ioff' <= run.size /\ ipipe' \in Seq(Nat) /\ Len(ipipe') <= PIPE_SIZE
      /\ ioff' - Len(ipipe') = ioff - Len(ipipe) + Len(Data(want))
      /\ Follows(ipipe', Counting, ioff' - Len(ipipe'))
      /\ run.src = "file" => ipipe' = <<>> /\ ~wopen'
      /\ run.src = "pipe" /\ ~wopen' => ioff' = run.size
      /\ Data(want) = <<>> => ioff = run.size /\ ipipe = <<>>
      /\ run.src = "file" /\ ioff + want <= run.size => Len(Data(want)) = want
  BY <1>1, <1>2, <1>5, DataFacts
<1>7. rbuf = <<>> /\ rbuf' = <<>> /\ Len(rbuf) = 0 /\ Len(rbuf') = 0
  BY <1>1, <1>2 DEF InputInv
<1>8. ioff - Len(ipipe) = Taken
  BY <1>4, <1>7 DEF Taken
<1>9. Len(ipipe') \in Nat /\ Len(Data(want)) \in Nat
  BY <1>6
<1>10. Taken' = Taken + Len(Data(want)) /\ Taken' \in Nat /\ Taken' = ioff' - Len(ipipe')
  <2>1. Taken' = ioff' - Len(ipipe')
    BY <1>6, <1>7, <1>9 DEF Taken
  <2> QED BY <1>3, <1>6, <1>8, <1>9, <2>1
<1>11. InputInv'
  <2>1. Follows(rbuf', Counting, Taken')
    BY <1>7, <1>10, FollowsEmpty
  <2> QED BY <1>1, <1>6, <1>7, <2>1 DEF InputInv
<1>12. ReadFrame
  BY <1>1, <1>2, <1>6, <1>7, SizeAssumption DEF ReadFrame, Types
<1>13. Gets(Data(want))
  <2>1. buf' = buf \o Data(want)
    BY <1>1, <1>5, <1>6, ConcatEmptySeq
  <2>2. Len(buf) + Len(Data(want)) <= want
    BY <1>5, <1>6, <1>9
  <2> QED BY <1>6, <1>8, <1>10, <2>1, <2>2 DEF Gets
<1>14. Returns
  <2>1. ASSUME Knows PROVE Len(buf') = want
    <3>1. run.src = "file"
      BY <1>1, <1>4, <2>1 DEF Knows, RunType
    <3>2. Len(ipipe) = 0
      BY <1>2, <3>1 DEF InputInv
    <3>3. ioff = Taken
      BY <1>4, <1>8, <3>2
    <3>4. Taken + want <= run.size
      BY <1>3, <1>4, <1>5, <2>1
    <3>5. ioff + want <= run.size
      BY <3>3, <3>4, Zenon
    <3> QED BY <1>1, <1>6, <3>1, <3>5
  <2>2. ASSUME Len(buf') = 0 PROVE Taken' = run.size
    <3>1. Data(want) = <<>> /\ Len(Data(want)) = 0
      BY <1>1, <1>6, <2>2, EmptySeq
    <3>2. ioff = run.size /\ Len(ipipe) = 0
      BY <1>6, <3>1
    <3> QED BY <1>3, <1>4, <1>8, <1>10, <3>1, <3>2
  <2> QED BY <1>1, <2>1, <2>2 DEF Returns
<1> QED BY <1>1, <1>11, <1>12, <1>13, <1>14, ReadStep

\* fread() takes bytes from its buffer.
LEMMA ReadBufferStep == Inv /\ ReadBuffer => Inv'
<1> SUFFICES ASSUME Inv, ReadBuffer PROVE Inv'
  OBVIOUS
<1> DEFINE k == Min({want - Len(buf), Len(rbuf)})
<1>1. /\ Reading /\ run.ilib = "stdio" /\ rbuf # <<>>
      /\ buf' = buf \o SubSeq(rbuf, 1, k)
      /\ rbuf' = SubSeq(rbuf, k + 1, Len(rbuf))
      /\ IF Len(buf') = want THEN Returned(want) ELSE UNCHANGED pc
      /\ UNCHANGED <<run, ret, left, pos, written, want, nw, ioff, ipipe, wopen, output>>
  BY DEF ReadBuffer, Reading
<1>2. Types /\ InputInv
  BY DEF Inv
<1>3. Len(buf) < want /\ Taken \in Nat
  BY <1>1, MoreToRead
<1>4. /\ Len(buf) \in Nat /\ want \in Nat /\ Len(ipipe) \in Nat /\ Len(rbuf) \in Nat /\ ioff \in Nat
      /\ buf \in Seq(Nat) /\ rbuf \in Seq(Nat) /\ run.size \in Nat /\ Len(rbuf) <= BUFSIZ
      /\ BUFSIZ \in Nat
  BY <1>2, Basics, SizeAssumption DEF RunType, Types, TypeOK
<1>5. k = IF want - Len(buf) <= Len(rbuf) THEN want - Len(buf) ELSE Len(rbuf)
  <2>1. want - Len(buf) \in Int /\ Len(rbuf) \in Int
    BY <1>4
  <2> QED BY <2>1, MinOfTwo
<1> HIDE DEF k
<1>6. Len(rbuf) # 0
  BY <1>1, <1>4, EmptySeq
<1>7. k \in 0 .. Len(rbuf) /\ k > 0 /\ k \in Nat /\ Len(buf) + k <= want
  BY <1>3, <1>4, <1>5, <1>6
<1> DEFINE t == SubSeq(rbuf, 1, k)
<1>8. /\ Follows(t, Counting, Taken) /\ Len(t) = k
      /\ Follows(rbuf', Counting, Taken + k) /\ Len(rbuf') = Len(rbuf) - k
  BY <1>1, <1>2, <1>7, FollowsSplit DEF InputInv
<1>80. buf' = buf \o t
  BY <1>1
<1> HIDE DEF t
<1>9. t \in Seq(Nat) /\ rbuf' \in Seq(Nat)
  BY <1>8 DEF Follows
<1>10. Taken' = Taken + k
  <2>1. Taken' = ioff - Len(ipipe) - (Len(rbuf) - k)
    BY <1>1, <1>8 DEF Taken
  <2> QED BY <1>4, <1>7, <2>1 DEF Taken
<1>11. InputInv'
  BY <1>1, <1>2, <1>8, <1>10 DEF InputInv
<1>12. ReadFrame
  <2>1. ioff' \in Nat /\ ioff' <= run.size /\ ipipe' \in Seq(Nat) /\ Len(ipipe') <= PIPE_SIZE
    BY <1>1, <1>2, Basics DEF Types, TypeOK
  <2>2. Len(rbuf') <= BUFSIZ
    BY <1>4, <1>7, <1>8
  <2> QED BY <1>1, <1>9, <2>1, <2>2 DEF ReadFrame
<1>13. Gets(t)
  BY <1>7, <1>8, <1>80, <1>10 DEF Gets
<1>14. Len(buf') = Len(buf) + k
  <2>1. Len(buf') = Len(buf) + Len(t)
    BY <1>4, <1>80, <1>9, ConcatProperties
  <2> QED BY <1>8, <2>1
<1>15. GoesOn \/ Returns
  <2>1. CASE Len(buf') = want
    <3>1. Returned(Len(buf'))
      BY <1>1, <2>1, Zenon
    <3>2. want # 0
      BY <1>3, <1>4
    <3> QED BY <2>1, <3>1, <3>2, Zenon DEF Returns
  <2>2. CASE Len(buf') # want
    <3>1. Len(buf) + k # want
      BY <1>14, <2>2, Zenon
    <3>2. Len(buf) + k < want
      <4>1. \A m \in Nat, n \in Nat : m <= n /\ m # n => m < n
        OBVIOUS
      <4>2. Len(buf) + k \in Nat /\ want \in Nat /\ Len(buf) + k <= want
        BY <1>4, <1>7
      <4> QED BY <3>1, <4>1, <4>2, Zenon
    <3>3. Len(buf') < want
      BY <1>14, <3>2, Zenon
    <3>4. pc' = "read"
      BY <1>1, <2>2 DEF Reading
    <3> QED BY <1>1, <3>3, <3>4 DEF GoesOn
  <2> QED BY <2>1, <2>2
<1> QED BY <1>1, <1>11, <1>12, <1>13, <1>15, ReadStep

\* fread() fills its empty buffer, or finds the end of the input.
LEMMA FillBufferStep == Inv /\ FillBuffer => Inv'
<1> SUFFICES ASSUME Inv, FillBuffer PROVE Inv'
  OBVIOUS
<1>1. /\ Reading /\ run.ilib = "stdio" /\ rbuf = <<>> /\ Readable /\ Consume(BUFSIZ)
      /\ rbuf' = Data(BUFSIZ)
      /\ IF rbuf' = <<>> THEN Returned(Len(buf)) ELSE UNCHANGED pc
      /\ UNCHANGED <<run, ret, left, pos, written, buf, want, nw, wopen, output>>
  BY DEF FillBuffer, Reading
<1>2. Types /\ InputInv
  BY DEF Inv
<1>3. /\ Len(buf) < want /\ Taken \in Nat
      /\ Knows => Taken + (want - Len(buf)) <= run.size
  BY <1>1, MoreToRead
<1>4. /\ Len(buf) \in Nat /\ want \in Nat /\ Len(ipipe) \in Nat /\ ioff \in Nat /\ buf \in Seq(Nat)
      /\ run.size \in Nat
  BY <1>2, Basics DEF RunType
<1>5. /\ Data(BUFSIZ) \in Seq(Nat) /\ Len(Data(BUFSIZ)) <= BUFSIZ
      /\ Follows(Data(BUFSIZ), Counting, ioff - Len(ipipe))
      /\ ioff' \in Nat /\ ioff' <= run.size /\ ipipe' \in Seq(Nat) /\ Len(ipipe') <= PIPE_SIZE
      /\ ioff' - Len(ipipe') = ioff - Len(ipipe) + Len(Data(BUFSIZ))
      /\ Follows(ipipe', Counting, ioff' - Len(ipipe'))
      /\ run.src = "file" => ipipe' = <<>> /\ ~wopen'
      /\ run.src = "pipe" /\ ~wopen' => ioff' = run.size
      /\ Data(BUFSIZ) = <<>> => ioff = run.size /\ ipipe = <<>>
  BY <1>1, <1>2, SizeAssumption, DataFacts
<1>6. Len(rbuf) = 0
  BY <1>1
<1>7. ioff - Len(ipipe) = Taken
  BY <1>4, <1>6 DEF Taken
<1>8. Len(ipipe') \in Nat /\ Len(rbuf') \in Nat
  BY <1>1, <1>5
<1>9. Taken' = Taken
  <2>1. Taken' = ioff' - Len(ipipe') - Len(rbuf')
    BY DEF Taken
  <2>2. ioff' - Len(ipipe') = Taken + Len(rbuf')
    BY <1>1, <1>5, <1>7
  <2> QED BY <1>3, <1>8, <2>1, <2>2
<1>10. InputInv'
  <2>1. Follows(rbuf', Counting, Taken')
    BY <1>1, <1>5, <1>7, <1>9
  <2> QED BY <1>1, <1>5, <2>1 DEF InputInv
<1>11. ReadFrame
  BY <1>1, <1>5 DEF ReadFrame
<1>12. Gets(<<>>)
  <2>1. Follows(<<>>, Counting, Taken) /\ Len(<<>>) = 0
    BY <1>3, FollowsEmpty
  <2>2. buf \o <<>> = buf
    BY <1>4, ConcatEmptySeq
  <2>3. Len(buf) + Len(<<>>) <= want /\ Taken' = Taken + Len(<<>>)
    BY <1>3, <1>4, <1>9, <2>1
  <2> QED BY <1>1, <2>1, <2>2, <2>3 DEF Gets
<1>13. GoesOn \/ Returns
  <2>1. CASE rbuf' = <<>>
    <3>1. ioff = run.size /\ Len(ipipe) = 0
      BY <1>1, <1>5, <2>1
    <3>2. Taken = run.size
      BY <1>4, <1>7, <3>1
    <3>3. ~Knows
      BY <1>3, <1>4, <3>2
    <3> QED BY <1>1, <1>9, <2>1, <3>2, <3>3 DEF Returns
  <2>2. CASE rbuf' # <<>>
    BY <1>1, <1>3, <2>2 DEF GoesOn, Reading
  <2> QED BY <2>1, <2>2
<1> QED BY <1>1, <1>10, <1>11, <1>12, <1>13, ReadStep

\* An alarm interrupts a read.
LEMMA ReadInterruptedStep == Inv /\ ReadInterrupted => Inv'
<1> SUFFICES ASSUME Inv, ReadInterrupted PROVE Inv'
  OBVIOUS
<1>1. /\ Reading /\ run.alarm /\ Returned(0)
      /\ UNCHANGED <<run, ret, left, pos, written, buf, want, nw, input, output>>
  BY DEF ReadInterrupted, Reading
<1>2. Types /\ InputInv
  BY DEF Inv
<1>3. Len(buf) < want /\ Taken \in Nat
  BY <1>1, MoreToRead
<1>4. /\ Len(buf) \in Nat /\ want \in Nat /\ buf \in Seq(Nat) /\ RunType(run) /\ want <= run.block
  BY <1>2, Basics DEF RunType
<1>5. run.prog = "cat" /\ Len(buf) = 0
  BY <1>1, <1>3, <1>4 DEF RunType
<1>6. Taken' = Taken /\ InputInv'
  BY <1>1, <1>2 DEF input, InputInv, Taken
<1>7. ReadFrame
  BY <1>1, <1>2 DEF ReadFrame, input, Types, TypeOK
<1>8. Gets(<<>>)
  <2>1. Follows(<<>>, Counting, Taken) /\ Len(<<>>) = 0
    BY <1>3, FollowsEmpty
  <2>2. buf \o <<>> = buf
    BY <1>4, ConcatEmptySeq
  <2>3. Len(buf) + Len(<<>>) <= want /\ Taken' = Taken + Len(<<>>)
    BY <1>3, <1>4, <1>6, <2>1
  <2> QED BY <1>1, <2>1, <2>2, <2>3 DEF Gets
<1>9. Returns
  BY <1>1, <1>5 DEF Returns, Knows
<1> QED BY <1>1, <1>6, <1>7, <1>8, <1>9, ReadStep

-----------------------------------------------------------------------------
(* Writing.                                                                *)

\* What the command line alone decides stays as it is.
LEMMA Fixed ==
  ASSUME run' = run
  PROVE  /\ Total' = Total /\ Wanted' = Wanted /\ FileSize(run)' = FileSize(run)
         /\ Streams' = Streams /\ Knows' = Knows /\ InOrder' = InOrder
BY DEF Total, Wanted, Before, FileSize, Streams, Knows, InOrder

\* write() takes no more than it is given, and less into a file only when the
\* disk is full.
LEMMA RoomFacts ==
  ASSUME Types, ~Blocked, NEW n \in Nat
  PROVE  /\ Room(n) \in 0 .. n
         /\ run.dst = "file" /\ Room(n) < n => run.disk < ooff + n
         /\ run.dst = "pipe" => Room(n) + Len(opipe) <= PIPE_SIZE /\ (n > 0 => Room(n) > 0)
<1>1. /\ ooff \in Nat /\ run.disk \in Nat /\ run.dst \in {"file", "pipe"}
      /\ Len(opipe) \in Nat /\ Len(opipe) <= PIPE_SIZE /\ PIPE_SIZE \in Nat
  BY Basics, SizeAssumption DEF RunType, Types, TypeOK
<1>2. CASE run.dst = "file"
  <2> DEFINE m == IF run.disk - ooff >= 0 THEN run.disk - ooff ELSE 0
  <2>1. run.disk - ooff \in Int /\ 0 \in Int /\ m \in Nat
    BY <1>1
  <2>2. Max({run.disk - ooff, 0}) = m
    BY <2>1, MinOfTwo
  <2>3. Min({n, m}) = IF n <= m THEN n ELSE m
    <3> HIDE DEF m
    <3>1. n \in Int /\ m \in Int
      BY <2>1
    <3> QED BY <3>1, MinOfTwo
  <2>4. Room(n) = IF n <= m THEN n ELSE m
    BY <1>2, <2>2, <2>3, Zenon DEF Room
  <2> QED BY <1>1, <1>2, <2>1, <2>4
<1>3. CASE run.dst = "pipe"
  <2>1. Len(opipe) # PIPE_SIZE
    BY <1>3 DEF Blocked
  <2>2. n \in Int /\ PIPE_SIZE - Len(opipe) \in Int
    BY <1>1
  <2>3. Min({n, PIPE_SIZE - Len(opipe)})
          = IF n <= PIPE_SIZE - Len(opipe) THEN n ELSE PIPE_SIZE - Len(opipe)
    BY <2>2, MinOfTwo
  <2>4. Room(n) = IF n <= PIPE_SIZE - Len(opipe) THEN n ELSE PIPE_SIZE - Len(opipe)
    BY <1>3, <2>3 DEF Room
  <2> QED BY <1>1, <1>3, <2>1, <2>4
<1> QED BY <1>1, <1>2, <1>3

\* A write that continues what is stored and on its way.
LEMMA PutStream ==
  ASSUME Types, OutputInv, StreamInv, Streams, run' = run,
         NEW s, Put(s), Follows(s, Wanted, Stored + Len(opipe))
  PROVE  /\ Room(Len(s)) \in 0 .. Len(s)
         /\ Stored' \in Nat /\ DOMAIN out' = 0 .. Stored' - 1 /\ Stored' <= Total
         /\ out' = [o \in DOMAIN out' |-> Wanted[o]]
         /\ Follows(opipe', Wanted, Stored') /\ Len(opipe') <= PIPE_SIZE
         /\ Stored' + Len(opipe') = Stored + Len(opipe) + Room(Len(s))
         /\ run.dst = "file" => opipe' = <<>> /\ ooff' = Stored'
         /\ ooff' \in Nat /\ ropen' = ropen
         /\ run.dst = "file" /\ Room(Len(s)) < Len(s) => run.disk < Total
<1>1. /\ Stored \in Nat /\ DOMAIN out = 0 .. Stored - 1 /\ ooff \in Nat /\ Len(opipe) \in Nat
      /\ run.dst \in {"file", "pipe"} /\ Total \in Nat
      /\ Follows(opipe, Wanted, Stored)
      /\ DOMAIN Wanted = 0 .. Total - 1
  BY Basics, TotalFacts, WantedFacts DEF RunType, StreamInv
<1>2. s \in Seq(Nat) /\ Len(s) \in Nat
  BY DEF Follows
<1>30. Stored <= Total
  <2>1. Stored > 0 => Stored - 1 \in 0 .. Stored - 1
    BY <1>1
  <2> QED BY <1>1, <2>1 DEF OutputInv
<1> DEFINE k == Room(Len(s))
<1>3. /\ k \in 0 .. Len(s)
      /\ run.dst = "file" /\ k < Len(s) => run.disk < ooff + Len(s)
      /\ run.dst = "pipe" => k + Len(opipe) <= PIPE_SIZE
  BY <1>2, RoomFacts DEF Put
<1>4. /\ run.dst = "file" =>
           /\ out' = [o \in DOMAIN out \cup (ooff .. ooff + k - 1) |->
                        IF o \in ooff .. ooff + k - 1 THEN s[o - ooff + 1] ELSE out[o]]
           /\ ooff' = ooff + k /\ opipe' = opipe
      /\ run.dst = "pipe" => opipe' = opipe \o SubSeq(s, 1, k) /\ out' = out /\ ooff' = ooff
      /\ ropen' = ropen
  BY DEF Put
<1> HIDE DEF k
<1>5. CASE run.dst = "file"
  <2>1. ooff = Stored /\ opipe = <<>> /\ Len(opipe) = 0
    BY <1>5 DEF StreamInv, OutputInv
  <2>2. Follows(s, Wanted, Stored)
    BY <1>1, <2>1
  <2>3. DOMAIN out' = 0 .. (Stored + k) - 1
    BY <1>1, <1>3, <1>4, <1>5, <2>1
  <2>4. Stored' = Stored + k
    <3>1. Stored + k \in Nat
      BY <1>1, <1>3
    <3> QED BY <2>3, <3>1, StoredFacts DEF Stored
  <2>5. ASSUME NEW o \in DOMAIN out' PROVE out'[o] = Wanted[o]
    <3>1. CASE o \in ooff .. ooff + k - 1
      <4>1. o - Stored + 1 \in 1 .. Len(s) /\ Stored + (o - Stored + 1) - 1 = o
        BY <1>1, <1>3, <2>1, <3>1
      <4>2. s[o - Stored + 1] = Wanted[o]
        BY <2>2, <4>1 DEF Follows
      <4> QED BY <1>4, <1>5, <2>1, <3>1, <4>2
    <3>2. CASE o \notin ooff .. ooff + k - 1
      <4>1. o \in DOMAIN out /\ out'[o] = out[o]
        BY <1>4, <1>5, <3>2
      <4> QED BY <4>1 DEF OutputInv
    <3> QED BY <3>1, <3>2
  <2>6. out' = [o \in DOMAIN out' |-> Wanted[o]]
    <3>1. out' = [o \in DOMAIN out' |-> out'[o]]
      BY <1>4, <1>5
    <3> QED BY <2>5, <3>1
  <2>7. Stored + Len(s) <= Total \/ Len(s) = 0
    <3> SUFFICES ASSUME Len(s) # 0 PROVE Stored + Len(s) <= Total
      OBVIOUS
    <3>1. Len(s) \in 1 .. Len(s)
      BY <1>2
    <3>2. Stored + Len(s) - 1 \in DOMAIN Wanted
      BY <2>2, <3>1 DEF Follows
    <3> QED BY <1>1, <1>2, <3>2
  <2>9. Stored' <= Total
    BY <1>1, <1>2, <1>3, <2>4, <2>7, <1>30
  <2>10. Follows(opipe', Wanted, Stored') /\ Len(opipe') = 0
    <3>1. Stored' \in Nat
      BY <1>1, <1>3, <2>4
    <3> QED BY <1>4, <1>5, <2>1, <3>1, FollowsEmpty
  <2>11. Stored' \in Nat /\ Stored' + Len(opipe') = Stored + Len(opipe) + k /\ ooff' = Stored'
    BY <1>1, <1>3, <1>4, <1>5, <2>1, <2>4, <2>10
  <2>12. Len(opipe') <= PIPE_SIZE
    BY <2>10, SizeAssumption
  <2>13. k < Len(s) => run.disk < Total
    <3>1. Len(s) # 0 => ooff + Len(s) <= Total
      BY <2>1, <2>7
    <3>2. run.disk \in Nat
      BY Basics DEF RunType
    <3> QED BY <1>1, <1>2, <1>3, <1>5, <3>1, <3>2
  <2>14. DOMAIN out' = 0 .. Stored' - 1
    BY <2>3, <2>4
  <2>15. opipe' = <<>> /\ ooff' \in Nat
    BY <1>4, <1>5, <2>1, <2>11
  <2> QED BY <1>3, <1>4, <1>5, <2>6, <2>9, <2>10, <2>11, <2>12, <2>13, <2>14, <2>15 DEF k
<1>6. CASE run.dst = "pipe"
  <2>1. Follows(SubSeq(s, 1, k), Wanted, Stored + Len(opipe)) /\ Len(SubSeq(s, 1, k)) = k
    BY <1>3, FollowsSplit
  <2>2. /\ Follows(opipe', Wanted, Stored) /\ Len(opipe') = Len(opipe) + k
    BY <1>1, <1>4, <1>6, <2>1, FollowsJoin
  <2>3. Stored' = Stored /\ out' = out
    BY <1>4, <1>6 DEF Stored
  <2> QED
    BY <1>1, <1>3, <1>4, <1>6, <2>2, <2>3, <1>30 DEF k, OutputInv
<1> QED BY <1>1, <1>5, <1>6
\* A write of one byte in front of what is stored.
LEMMA PutBack ==
  ASSUME Types, OutputInv, ~Streams, NEW s, Put(s), s \in Seq(Nat), Len(s) = 1,
         ooff < Total, DOMAIN out = ooff + 1 .. Total - 1, s[1] = Wanted[ooff]
  PROVE  /\ Room(1) \in {0, 1}
         /\ DOMAIN out' = ooff + 1 - Room(1) .. Total - 1
         /\ out' = [o \in DOMAIN out' |-> Wanted[o]]
         /\ opipe' = opipe /\ ropen' = ropen /\ ooff' \in Nat
         /\ Room(1) = 0 => run.disk < Total /\ ooff' = ooff
<1>1. ooff \in Nat /\ Total \in Nat /\ run.dst = "file" /\ run.disk \in Nat
  BY Basics, TotalFacts DEF Streams, RunType
<1> DEFINE k == Room(1)
<1>2. k \in {0, 1} /\ (k = 0 => run.disk < ooff + 1)
  <2>1. k \in 0 .. 1 /\ (k < 1 => run.disk < ooff + 1)
    BY <1>1, RoomFacts DEF Put
  <2> QED BY <2>1
<1>3. /\ out' = [o \in DOMAIN out \cup (ooff .. ooff + k - 1) |->
                   IF o \in ooff .. ooff + k - 1 THEN s[o - ooff + 1] ELSE out[o]]
      /\ ooff' = ooff + k /\ opipe' = opipe /\ ropen' = ropen
  BY <1>1 DEF Put
<1> HIDE DEF k
<1>4. DOMAIN out' = ooff + 1 - k .. Total - 1
  BY <1>1, <1>2, <1>3
<1>5. ASSUME NEW o \in DOMAIN out' PROVE out'[o] = Wanted[o]
  <2>1. CASE o \in ooff .. ooff + k - 1
    <3>1. o = ooff /\ o - ooff + 1 = 1
      BY <1>1, <1>2, <2>1
    <3> QED BY <1>3, <2>1, <3>1
  <2>2. CASE o \notin ooff .. ooff + k - 1
    <3>1. o \in DOMAIN out /\ out'[o] = out[o]
      BY <1>3, <2>2
    <3> QED BY <3>1 DEF OutputInv
  <2> QED BY <2>1, <2>2
<1>6. out' = [o \in DOMAIN out' |-> Wanted[o]]
  <2>1. out' = [o \in DOMAIN out' |-> out'[o]]
    BY <1>3
  <2> QED BY <1>5, <2>1
<1>7. ooff' \in Nat /\ (k = 0 => run.disk < Total /\ ooff' = ooff)
  BY <1>1, <1>2, <1>3
<1> QED BY <1>2, <1>3, <1>4, <1>6, <1>7 DEF k

\* What of the block is to be written.
LEMMA RestFacts ==
  ASSUME Inv, pc = "write"
  PROVE  /\ Rest \in Seq(Nat) /\ Len(Rest) = Len(buf) - nw /\ nw < Len(buf) /\ nw \in Nat
         /\ Len(Rest) \in Nat \ {0} /\ Len(buf) \in Nat
         /\ Streams => Follows(Rest, Wanted, Sent) /\ Sent \in Nat /\ Place = Sent - nw
         /\ ~Streams =>
              /\ nw = 0 /\ Len(buf) = 1 /\ Len(Rest) = 1 /\ Rest[1] = Wanted[left]
              /\ wbuf = <<>> /\ ooff = left /\ left < Total /\ left \in Nat
              /\ DOMAIN out = left + 1 .. Total - 1
<1>1. buf \in Seq(Nat) /\ Len(buf) \in Nat /\ nw \in Nat /\ left \in Nat /\ Len(wbuf) \in Nat /\ Len(opipe) \in Nat
  BY Basics DEF Inv
<1>2. nw < Len(buf) /\ Holding /\ At("write")
  BY DEF Inv, BlockInv, Holding, At
<1>3. \A i \in 1 .. Len(buf) : buf[i] \in Nat
  BY <1>1, ElementOfSeq
<1>4. /\ Rest \in Seq(Nat) /\ Len(Rest) = Len(buf) - nw
      /\ \A i \in 1 .. Len(buf) - nw : Rest[i] = buf[nw + i]
  <2> DEFINE r == SubSeq(buf, nw + 1, Len(buf))
  <2>0. r = Rest
    BY DEF Rest
  <2>1. /\ r \in Seq(Nat)
        /\ Len(r) = IF nw + 1 <= Len(buf) THEN Len(buf) - (nw + 1) + 1 ELSE 0
        /\ \A i \in 1 .. Len(buf) - (nw + 1) + 1 : r[i] = buf[(nw + 1) + i - 1]
    BY <1>1, <1>3, SubSeqProperties
  <2> HIDE DEF r
  <2>2. \A i \in 1 .. Len(buf) - nw : (nw + 1) + i - 1 = nw + i
    BY <1>1
  <2>3. Len(buf) - (nw + 1) + 1 = Len(buf) - nw /\ nw + 1 <= Len(buf)
    BY <1>1, <1>2
  <2> QED BY <2>0, <2>1, <2>2, <2>3
<1>5. Len(buf) - nw \in Nat \ {0}
  BY <1>1, <1>2
<1>6. ASSUME Streams PROVE Follows(Rest, Wanted, Sent) /\ Sent \in Nat /\ Place = Sent - nw
  <2>1. Follows(buf, Wanted, Place) /\ Stored \in Nat
    BY <1>6 DEF Inv, StreamInv
  <2>2. Sent \in Nat
    BY <1>1, <2>1 DEF Sent
  <2>3. nw \in 0 .. Len(buf) /\ Place + nw = Sent
    BY <1>1, <1>2, <2>2 DEF Place
  <2>4. Follows(Rest, Wanted, Place + nw)
    BY <2>1, <2>3, FollowsSplit DEF Rest
  <2> QED BY <2>2, <2>3, <2>4 DEF Place
<1>7. ASSUME ~Streams
      PROVE  /\ nw = 0 /\ Len(buf) = 1 /\ Len(Rest) = 1 /\ Rest[1] = Wanted[left]
             /\ wbuf = <<>> /\ ooff = left /\ left < Total /\ left \in Nat
             /\ DOMAIN out = left + 1 .. Total - 1
  <2>1. /\ Len(buf) <= 1 /\ buf[1] = Wanted[left] /\ wbuf = <<>> /\ ooff = left
        /\ Accepted <= Total /\ DOMAIN out = Accepted + Len(wbuf) .. Total - 1
    BY <1>2, <1>7 DEF Inv, BackInv
  <2>2. Accepted = left + 1 /\ Len(wbuf) = 0
    BY <1>2, <2>1 DEF Accepted
  <2>3. nw = 0 /\ Len(buf) = 1
    <3>1. \A m \in Nat, n \in Nat : m < n /\ n <= 1 => m = 0 /\ n = 1
      OBVIOUS
    <3> QED BY <1>1, <1>2, <2>1, <3>1, Zenon
  <2>4. Len(Rest) = 1 /\ Rest[1] = buf[1]
    <3>1. Len(buf) - nw = 1 /\ nw + 1 = 1 /\ 1 \in 1 .. Len(buf) - nw
      BY <2>3
    <3>2. Len(Rest) = 1
      BY <1>4, <3>1, Zenon
    <3>3. Rest[1] = buf[nw + 1]
      BY <1>4, <3>1, Zenon
    <3> QED BY <3>1, <3>2, <3>3, Zenon
  <2>5. Total \in Nat
    BY TotalFacts DEF Inv, Types, TypeOK
  <2>6. left < Total /\ Accepted + Len(wbuf) = left + 1
    BY <1>1, <2>1, <2>2, <2>5
  <2> QED BY <1>1, <2>1, <2>3, <2>4, <2>6
<1>8. Len(Rest) \in Nat \ {0}
  BY <1>4, <1>5, Zenon
<1> QED BY <1>1, <1>2, <1>4, <1>6, <1>7, <1>8

\* The block has moved on by nw' - nw bytes.
WriteFrame ==
  /\ UNCHANGED <<run, left, pos, written, buf, want, input>>
  /\ nw \in Nat /\ nw' \in Nat /\ nw' <= Len(buf) /\ (Streams => Place' = Place)
  /\ \/ pc' \in {"write", "flush"} /\ (pc' = "flush" => ret' = "write") /\ nw' < Len(buf)
     \/ pc' = "after" /\ nw' = Len(buf)
     \/ pc' = "abort" /\ (run.alarm \/ run.disk < Total)
     \/ pc' = "killed"

\* A step that writes some of the block to where it continues the output.
LEMMA WriteStep ==
  ASSUME Inv, pc = "write", WriteFrame, Types', OutputInv', StreamInv', BackInv'
  PROVE  Inv'
<1>1. UNCHANGED <<run, left, pos, written, buf, want, ioff, ipipe, wopen, rbuf>>
  BY DEF WriteFrame, input
<1>2. /\ Total' = Total /\ Wanted' = Wanted /\ FileSize(run)' = FileSize(run)
      /\ Streams' = Streams /\ Knows' = Knows /\ InOrder' = InOrder
  BY <1>1, Fixed
<1>3. Taken' = Taken /\ From' = From /\ StrideAt' = StrideAt /\ StrideSize(pos)' = StrideSize(pos)
  BY <1>1, <1>2 DEF Taken, From, StrideAt, StrideSize, Rank
<1>4. /\ Holding /\ ~Reading /\ ~Between /\ ~Ending
      /\ ~Reading' /\ ~Between' /\ ~Ending'
      /\ pc' \in {"abort", "killed"} \/ Holding' \/ pc' = "after"
      /\ pc' \notin {"abort", "killed"} /\ Holding' => nw' < Len(buf)
      /\ pc' = "after" => nw' = Len(buf)
      /\ pc' \in {"abort", "killed"} => ~Holding' /\ pc' # "after"
      /\ Holding' => pc' # "after"
      /\ At("seek")' => FALSE
  BY DEF WriteFrame, Holding, Reading, Between, Ending, At
<1>5. InputInv'
  BY <1>1, <1>3 DEF Inv, InputInv
<1>6. ReadInv'
  BY <1>4 DEF ReadInv
<1>7. BlockInv'
  <2>1. Len(buf) > 0 /\ Len(buf') = Len(buf)
    <3>1. nw < Len(buf) /\ nw \in Nat /\ Len(buf) \in Nat
      BY RestFacts
    <3>2. \A m \in Nat, n \in Nat : m < n => n > 0
      OBVIOUS
    <3>3. Len(buf) > 0
      BY <3>1, <3>2, Zenon
    <3> QED BY <1>1, <3>3
  <2> QED BY <1>1, <1>2, <1>4, <2>1 DEF Inv, BlockInv
<1>8. CountInv'
  <2>1. ASSUME run.prog = "reverse", pc' = "after" PROVE left + Sent' = FileSize(run)
    <3>1. left + 1 + Place = FileSize(run)
      BY <1>4, <2>1 DEF Inv, CountInv
    <3>2. nw' = 1
      <4>1. want = Len(buf) /\ nw' = Len(buf) /\ want <= run.block /\ run.block = 1 /\ nw < Len(buf)
        BY <1>4, <2>1, Basics DEF Inv, BlockInv, Knows, RunType
      <4>2. want \in Nat /\ nw \in Nat /\ want = nw'
        BY <4>1, Basics DEF Inv
      <4>3. nw < want
        BY <4>1, Zenon
      <4> QED BY <4>1, <4>2, <4>3
    <3>3. Place' = Sent' - nw' /\ Place' = Place
      BY <2>1 DEF Place, WriteFrame, Streams
    <3>4. Sent' \in Nat
      <4>1. Stored' \in Nat
        BY <1>2, <2>1 DEF StreamInv, Streams
      <4>2. Len(opipe') \in Nat /\ Len(wbuf') \in Nat
        BY DEF Types
      <4> QED BY <4>1, <4>2 DEF Sent
    <3>5. left \in Nat
      BY Basics DEF Inv
    <3>6. Place = Sent' - 1
      BY <3>2, <3>3
    <3>7. \A m \in Nat : left + 1 + (m - 1) = left + m
      BY <3>5
    <3>8. left + 1 + (Sent' - 1) = left + Sent'
      BY <3>4, <3>7, Zenon
    <3> QED BY <3>1, <3>6, <3>8, Zenon
  <2>2. Streams => Place' = Place
    BY DEF WriteFrame
  <2>3. InOrder => Place' = From'
    BY <1>3, <2>2 DEF Inv, CountInv, InOrder, Streams
  <2> QED BY <1>1, <1>2, <1>3, <1>4, <2>1, <2>2, <2>3 DEF Inv, CountInv, Streams
<1>9. EndInv'
  BY <1>4 DEF EndInv
<1>10. AssertionsHold'
  BY <1>1, <1>2 DEF WriteFrame, AssertionsHold
<1> QED BY <1>5, <1>6, <1>7, <1>8, <1>9, <1>10 DEF Inv

\* The program stays where it is in its round, or ends there.
Stays ==
  /\ UNCHANGED <<run, left, pos, written, buf, want, nw, input>>
  /\ Streams => Place' = Place /\ Sent' = Sent
  /\ ~Reading' /\ pc' # "after"
  /\ Holding' => Holding
  /\ Between' => Between
  /\ Ending' => Ending
  /\ At("seek")' => At("seek")
  /\ pc' = "abort" => run.alarm \/ run.disk < Total

\* A step that moves bytes towards the output, but none of the program's block.
LEMMA StaysStep ==
  ASSUME Inv, Stays, Types', OutputInv', StreamInv', BackInv'
  PROVE  Inv'
<1>1. UNCHANGED <<run, left, pos, written, buf, want, nw, ioff, ipipe, wopen, rbuf>>
  BY DEF Stays, input
<1>2. /\ Total' = Total /\ Wanted' = Wanted /\ FileSize(run)' = FileSize(run)
      /\ Streams' = Streams /\ Knows' = Knows /\ InOrder' = InOrder
  BY <1>1, Fixed
<1>3. Taken' = Taken /\ From' = From /\ StrideAt' = StrideAt /\ StrideSize(pos)' = StrideSize(pos)
  BY <1>1, <1>2 DEF Taken, From, StrideAt, StrideSize, Rank
<1>4. /\ ~Reading' /\ pc' # "after"
      /\ Holding' => Holding
      /\ Between' => Between
      /\ Ending' => Ending
      /\ At("seek")' => At("seek")
      /\ pc' = "abort" => run.alarm \/ run.disk < Total
  BY DEF Stays
<1>5. InputInv'
  BY <1>1, <1>3 DEF Inv, InputInv
<1>6. ReadInv'
  BY <1>4 DEF ReadInv
<1>7. BlockInv'
  BY <1>1, <1>2, <1>4 DEF Inv, BlockInv
<1>8. CountInv'
  <2>1. Streams => Place' = Place /\ Sent' = Sent
    BY DEF Stays
  <2> QED BY <1>1, <1>2, <1>3, <1>4, <2>1 DEF Inv, CountInv, Streams, InOrder
<1>9. EndInv'
  BY <1>1, <1>2, <1>4 DEF EndInv, Stays, Inv
<1>10. AssertionsHold'
  BY <1>1, <1>2, <1>4 DEF AssertionsHold
<1> QED BY <1>5, <1>6, <1>7, <1>8, <1>9, <1>10 DEF Inv

\* A flush, or a write that does not get on.
FlushFrame ==
  /\ UNCHANGED <<run, ret, left, pos, written, buf, want, nw, input>>
  /\ Streams => Place' = Place /\ Sent' = Sent
  /\ pc = "flush" \/ pc = "write"
  /\ \/ pc = "flush" /\ pc' \in {ret, "flush"}
     \/ pc = "flush" /\ ret = "close" /\ pc' = "exit"
     \/ pc' = "abort" /\ (run.alarm \/ run.disk < Total)
     \/ pc' = "killed"

\* A flush is such a step.
LEMMA FlushStays ==
  ASSUME Inv, FlushFrame, Types', OutputInv', StreamInv', BackInv'
  PROVE  Inv'
<1>1. ret \in {"top", "write", "seek", "close"}
  BY DEF Inv, Types, TypeOK
<1>2. Stays
  BY <1>1 DEF FlushFrame, Stays, Holding, Reading, Between, Ending, At
<1> QED BY <1>2, StaysStep

\* A write() of s from the front of the rest, after which the call goes on if `more`.
LEMMA PutStep ==
  ASSUME Inv, pc = "write", run.olib # "stdio", NEW s, NEW more \in BOOLEAN, Put(s),
         s \in Seq(Nat), Len(s) \in 1 .. Len(buf) - nw,
         Streams => Follows(s, Wanted, Sent), s[1] = Rest[1],
         Wrote(Room(Len(s)), more),
         ~more => run.dst = "file"
                    /\ (Room(Len(s)) < Len(s) \/ Len(s) = Len(buf) - nw),
         UNCHANGED <<run, ret, left, pos, written, buf, want, input, wbuf>>
  PROVE  Inv'
<1> DEFINE k == Room(Len(s))
<1>1. /\ wbuf = <<>> /\ wbuf' = <<>> /\ Len(wbuf) = 0 /\ Len(wbuf') = 0
  BY DEF Inv, OutputInv
<1>2. /\ nw \in Nat /\ nw < Len(buf) /\ Len(buf) \in Nat /\ Types /\ OutputInv /\ Len(s) \in Nat
      /\ Len(opipe) \in Nat
  BY RestFacts, Basics DEF Inv
<1>3. /\ Total' = Total /\ Wanted' = Wanted /\ Streams' = Streams
  BY Fixed
<1>4. nw' = nw + k /\ pc' = IF nw + k = Len(buf) THEN "after" ELSE IF more THEN "write" ELSE "abort"
  BY DEF Wrote
<1>5. CASE Streams
  <2>1. Stored \in Nat /\ Sent = Stored + Len(opipe)
    BY <1>1, <1>2, <1>5 DEF Inv, StreamInv, Sent
  <2>2. /\ k \in 0 .. Len(s)
        /\ Stored' \in Nat /\ DOMAIN out' = 0 .. Stored' - 1 /\ Stored' <= Total
        /\ out' = [o \in DOMAIN out' |-> Wanted[o]]
        /\ Follows(opipe', Wanted, Stored') /\ Len(opipe') <= PIPE_SIZE
        /\ Stored' + Len(opipe') = Stored + Len(opipe) + k
        /\ run.dst = "file" => opipe' = <<>> /\ ooff' = Stored'
        /\ ooff' \in Nat /\ ropen' = ropen
        /\ run.dst = "file" /\ k < Len(s) => run.disk < Total
    BY <1>2, <1>5, <2>1, PutStream DEF Inv
  <2> HIDE DEF k
  <2>3. nw' \in Nat /\ nw' <= Len(buf) /\ (nw + k # Len(buf) => nw' < Len(buf))
    BY SMTT(30), <1>2, <1>4, <2>2
  <2>4. opipe' \in Seq(Nat) /\ Len(opipe') \in Nat
    BY <2>2 DEF Follows
  <2>5. Place' = Place
    <3>1. Sent' = Sent + k
      BY <1>1, <2>1, <2>2, <2>4 DEF Sent
    <3>2. Sent \in Nat
      BY <1>2, <2>1
    <3> QED BY <1>2, <1>4, <2>2, <3>1, <3>2 DEF Place
  <2>6. ~more /\ nw + k # Len(buf) => run.disk < Total
    <3> SUFFICES ASSUME ~more, nw + k # Len(buf) PROVE k < Len(s) /\ run.dst = "file"
      BY <2>2
    <3>1. run.dst = "file" /\ (k < Len(s) \/ Len(s) = Len(buf) - nw)
      BY DEF k
    <3> QED BY <1>2, <2>2, <3>1
  <2>7. WriteFrame
    <3>1. CASE nw + k = Len(buf)
      BY <1>2, <1>4, <2>3, <2>5, <3>1 DEF WriteFrame
    <3>2. CASE nw + k # Len(buf) /\ more
      BY <1>2, <1>4, <2>3, <2>5, <3>2 DEF WriteFrame
    <3>3. CASE nw + k # Len(buf) /\ ~more
      BY <1>2, <1>4, <2>3, <2>5, <2>6, <3>3 DEF WriteFrame
    <3> QED BY <3>1, <3>2, <3>3
  <2>8. pc' \in {"after", "write", "abort"}
    BY <1>4
  <2>9. Types'
    <3>1. TypeOK'
      BY <1>1, <1>2, <2>2, <2>3, <2>8 DEF Types, TypeOK, input
    <3> QED BY <1>1, <1>2, <2>2, <2>3, <2>4, <3>1 DEF Types, input
  <2>10. OutputInv'
    <3>1. 0 .. Stored' - 1 \subseteq 0 .. Total - 1
      <4>1. Total \in Nat
        BY TotalFacts DEF Inv, Types, TypeOK
      <4>2. \A m \in Nat : m <= Total => 0 .. m - 1 \subseteq 0 .. Total - 1
        BY <4>1
      <4> QED BY <2>2, <4>2, Zenon
    <3>2. DOMAIN out' \subseteq 0 .. Total - 1
      BY <2>2, <3>1
    <3> QED BY <1>1, <1>3, <2>2, <3>2 DEF OutputInv
  <2>11. StreamInv'
    <3>1. Follows(wbuf', Wanted, Stored' + Len(opipe'))
      <4>1. Stored' + Len(opipe') \in Nat
        BY <2>2, <2>4
      <4> QED BY <1>1, <4>1, FollowsEmpty
    <3>2. Follows(buf', Wanted', Place') /\ Place' + Len(buf') <= Total'
      BY <1>3, <1>5, <2>5 DEF Inv, StreamInv
    <3> QED BY <1>3, <2>2, <3>1, <3>2 DEF StreamInv
  <2>12. BackInv'
    BY <1>3, <1>5 DEF BackInv
  <2> QED BY <2>7, <2>9, <2>10, <2>11, <2>12, WriteStep
<1>6. CASE ~Streams
  <2>1. /\ nw = 0 /\ Len(buf) = 1 /\ Rest[1] = Wanted[left]
        /\ ooff = left /\ left < Total /\ left \in Nat
        /\ DOMAIN out = left + 1 .. Total - 1
    BY <1>6, RestFacts
  <2>2. Len(s) = 1
    BY <2>1
  <2>3. /\ Room(1) \in {0, 1}
        /\ DOMAIN out' = left + 1 - Room(1) .. Total - 1
        /\ out' = [o \in DOMAIN out' |-> Wanted[o]]
        /\ opipe' = opipe /\ ropen' = ropen /\ ooff' \in Nat
        /\ Room(1) = 0 => run.disk < Total /\ ooff' = left
    <3>1. ooff < Total /\ DOMAIN out = ooff + 1 .. Total - 1 /\ s[1] = Wanted[ooff]
      BY <2>1
    <3> QED BY <1>2, <1>6, <2>1, <2>2, <3>1, PutBack
  <2>4. k = Room(1)
    BY <2>2
  <2> HIDE DEF k
  <2>5. Total \in Nat
    BY TotalFacts DEF Inv, Types, TypeOK
  <2>6. /\ nw' \in Nat /\ nw' <= 1
        /\ \/ pc' = "after" /\ nw' = 1
           \/ pc' = "write" /\ nw' = 0
           \/ pc' = "abort" /\ run.disk < Total
    <3>1. k \in {0, 1} /\ (k = 0 => run.disk < Total)
      BY <2>3, <2>4
    <3>2. nw' = k /\ nw + k = k
      BY <1>4, <2>1, <3>1
    <3>3. pc' = IF k = 1 THEN "after" ELSE IF more THEN "write" ELSE "abort"
      BY <1>4, <2>1, <3>2
    <3>4. CASE k = 1
      <4>1. nw' = 1 /\ pc' = "after"
        BY <3>2, <3>3, <3>4
      <4>2. nw' \in Nat /\ nw' <= 1
        BY <4>1
      <4> QED BY <4>1, <4>2, Zenon
    <3>5. CASE k = 0
      <4>1. nw' = 0 /\ pc' \in {"write", "abort"} /\ run.disk < Total
        BY <3>1, <3>2, <3>3, <3>5
      <4>2. nw' \in Nat /\ nw' <= 1
        BY <4>1
      <4> QED BY <4>1, <4>2, Zenon
    <3> QED BY <3>1, <3>4, <3>5
  <2>7. WriteFrame
    BY <1>2, <1>6, <2>1, <2>6 DEF WriteFrame
  <2>8. OutputInv'
    <3>1. DOMAIN out' \subseteq 0 .. Total - 1
      BY <2>1, <2>3, <2>5
    <3> QED BY <1>1, <1>2, <1>3, <2>3, <3>1 DEF OutputInv
  <2>9. Types'
    <3>1. TypeOK'
      <4>1. nw' \in 0 .. Len(buf) /\ nw' \in 0 .. Len(buf')
        BY <2>1, <2>6
      <4>2. pc' \in {"after", "write", "abort"}
        BY <2>6
      <4> QED BY <1>1, <1>2, <2>3, <4>1, <4>2 DEF Types, TypeOK, input
    <3> QED BY <1>1, <1>2, <2>3, <2>6, <3>1 DEF Types, input
  <2>10. StreamInv'
    BY <1>3, <1>6 DEF StreamInv
  <2>11. BackInv'
    <3>1. buf'[1] = Wanted'[left'] /\ Len(buf') = 1 /\ ~Streams' /\ Total' = Total
      BY <1>3, <1>6, <2>1, RestFacts DEF Inv, BackInv, Holding, At
    <3>2. CASE pc' = "after"
      <4>0. Accepted' = left
        BY <3>2 DEF Accepted, Reading, Holding, At
      <4>3. k = 1
        <5>1. nw' = 1 /\ nw' = k
          BY <1>4, <2>1, <2>3, <2>4, <2>6, <3>2
        <5> QED BY <5>1
      <4>1. Accepted' = left /\ Room(1) = 1
        BY <4>0, <2>4, <4>3
      <4>2. left + 1 - 1 = left /\ left <= Total /\ left + Len(wbuf') = left
        BY <1>1, <2>1, <2>5
      <4> QED BY <1>1, <2>3, <3>1, <3>2, <4>1, <4>2 DEF BackInv, Holding, At
    <3>3. CASE pc' = "write"
      <4>1. Accepted' = left + 1 /\ Room(1) = 0
        BY <1>4, <2>1, <2>3, <2>4, <2>6, <3>3 DEF Accepted, Reading, Holding, At
      <4>2. left + 1 - 0 = left + 1 /\ left + 1 <= Total /\ left + 1 + Len(wbuf') = left + 1
        BY <1>1, <2>1, <2>5
      <4> QED BY <1>1, <2>3, <3>1, <3>3, <4>1, <4>2 DEF BackInv, Holding, At
    <3>4. CASE pc' = "abort"
      BY <1>1, <3>1, <3>4 DEF BackInv, Holding, At
    <3> QED BY <2>6, <3>2, <3>3, <3>4
  <2> QED BY <2>7, <2>8, <2>9, <2>10, <2>11, WriteStep
<1> QED BY <1>5, <1>6

\* io61_writec() writes one byte of the block.
LEMMA WriteByteStep == Inv /\ WriteByte => Inv'
<1> SUFFICES ASSUME Inv, WriteByte PROVE Inv'
  OBVIOUS
<1>1. /\ pc = "write" /\ run.olib # "stdio"
      /\ Put(<<Head(Rest)>>) /\ Wrote(Room(1), Room(1) = 1)
      /\ UNCHANGED <<run, ret, left, pos, written, buf, want, input, wbuf>>
  BY DEF WriteByte, Bytewise
<1>2. /\ Rest \in Seq(Nat) /\ Len(Rest) = Len(buf) - nw /\ Len(Rest) \in Nat \ {0}
      /\ Streams => Follows(Rest, Wanted, Sent) /\ Sent \in Nat
  BY <1>1, RestFacts
<1>3. Head(Rest) = Rest[1] /\ Rest[1] \in Nat
  <2>1. 1 \in 1 .. Len(Rest)
    BY <1>2
  <2> QED BY <1>2, <2>1, ElementOfSeq
<1> DEFINE s == <<Head(Rest)>>
<1>4. s \in Seq(Nat) /\ Len(s) = 1 /\ s[1] = Rest[1]
  BY <1>3
<1>5. Streams => Follows(s, Wanted, Sent)
  <2> SUFFICES ASSUME Streams PROVE Follows(s, Wanted, Sent)
    OBVIOUS
  <2>1. 1 \in 1 .. Len(Rest) /\ Sent + 1 - 1 = Sent
    BY <1>2
  <2>2. Sent \in DOMAIN Wanted /\ Rest[1] = Wanted[Sent]
    BY <1>2, <2>1 DEF Follows
  <2> QED BY <1>2, <1>3, <2>2, FollowsOne
<1>6. Len(s) \in 1 .. Len(buf) - nw
  <2>1. Len(buf) - nw \in Nat \ {0}
    BY <1>2, Zenon
  <2> QED BY <1>4, <2>1
<1>7. (Room(1) # 1) => run.dst = "file" /\ Room(1) < 1
  <2>1. Types /\ ~Blocked /\ run.dst \in {"file", "pipe"}
    BY <1>1, Basics DEF Inv, Put, RunType
  <2>2. Room(1) \in 0 .. 1 /\ (run.dst = "pipe" => Room(1) > 0)
    BY <2>1, RoomFacts
  <2> QED BY <2>1, <2>2
<1>8. Room(Len(s)) = Room(1)
  BY <1>4
<1> HIDE DEF s
<1>9. Wrote(Room(Len(s)), Room(1) = 1) /\ Put(s)
  BY <1>1, <1>8 DEF s
<1>10. (Room(1) # 1) => run.dst = "file" /\ Room(Len(s)) < Len(s)
  BY <1>4, <1>7, <1>8
<1> QED BY <1>1, <1>4, <1>5, <1>6, <1>9, <1>10, PutStep

\* io61_write() of syscall-io61.cc writes the block, or as much as there is room
\* for.
LEMMA WriteCallStep == Inv /\ WriteCall => Inv'
<1> SUFFICES ASSUME Inv, WriteCall PROVE Inv'
  OBVIOUS
<1>1. /\ pc = "write" /\ run.olib # "stdio"
      /\ Put(Rest) /\ Wrote(Room(Len(Rest)), Continues)
      /\ UNCHANGED <<run, ret, left, pos, written, buf, want, input, wbuf>>
  BY DEF WriteCall
<1>2. /\ Rest \in Seq(Nat) /\ Len(Rest) = Len(buf) - nw /\ Len(Rest) \in Nat \ {0}
      /\ Streams => Follows(Rest, Wanted, Sent)
  BY <1>1, RestFacts
<1>3. Len(Rest) \in 1 .. Len(buf) - nw
  BY <1>2
<1>4. ~Continues => run.dst = "file"
  BY Basics DEF Inv, Continues, RunType
<1>5. Continues \in BOOLEAN
  BY DEF Continues
<1> QED BY <1>1, <1>2, <1>3, <1>4, <1>5, PutStep

\* fwrite() puts bytes into its buffer, or starts to flush it.
LEMMA WriteBufferStep == Inv /\ WriteBuffer => Inv'
<1> SUFFICES ASSUME Inv, WriteBuffer PROVE Inv'
  OBVIOUS
<1> DEFINE k == Min({Len(Rest), BUFSIZ - Len(wbuf)})
<1>1. /\ pc = "write" /\ run.olib = "stdio"
      /\ IF k = 0 THEN FlushThen("write") /\ UNCHANGED <<nw, wbuf>>
                  ELSE /\ wbuf' = wbuf \o SubSeq(Rest, 1, k)
                       /\ Wrote(k, TRUE)
                       /\ UNCHANGED ret
      /\ UNCHANGED <<run, left, pos, written, buf, want, input, ooff, opipe, ropen, out>>
  BY DEF WriteBuffer
<1>2. /\ Rest \in Seq(Nat) /\ Len(Rest) = Len(buf) - nw /\ nw < Len(buf) /\ nw \in Nat
      /\ Len(Rest) \in Nat \ {0} /\ Len(buf) \in Nat
      /\ Streams => Follows(Rest, Wanted, Sent) /\ Sent \in Nat
  BY <1>1, RestFacts
<1>3. /\ Len(wbuf) \in Nat /\ Len(wbuf) <= BUFSIZ /\ BUFSIZ \in Nat \ {0} /\ Len(opipe) \in Nat
      /\ wbuf \in Seq(Nat) /\ Types /\ OutputInv
  BY Basics, SizeAssumption DEF Inv, Types, TypeOK
<1>4. k = IF Len(Rest) <= BUFSIZ - Len(wbuf) THEN Len(Rest) ELSE BUFSIZ - Len(wbuf)
  <2>1. Len(Rest) \in Int /\ BUFSIZ - Len(wbuf) \in Int
    BY <1>2, <1>3
  <2> QED BY <2>1, MinOfTwo
<1> HIDE DEF k
<1>5. k \in 0 .. Len(Rest) /\ k \in Nat /\ k + Len(wbuf) <= BUFSIZ
  BY <1>2, <1>3, <1>4
<1>6. /\ Total' = Total /\ Wanted' = Wanted /\ Streams' = Streams /\ Stored' = Stored /\ UNCHANGED <<run, out>>
  BY <1>1, Fixed DEF Stored
<1>7. CASE k = 0
  <2>1. pc' = "flush" /\ ret' = "write" /\ nw' = nw /\ wbuf' = wbuf
    BY <1>1, <1>7 DEF FlushThen
  <2>2. Sent' = Sent /\ Place' = Place
    BY <1>1, <1>6, <2>1 DEF Sent, Place
  <2>3. WriteFrame
    BY <1>1, <1>2, <2>1, <2>2 DEF WriteFrame
  <2>4. Types'
    BY <1>1, <1>3, <2>1 DEF Types, TypeOK, input
  <2>5. OutputInv'
    BY <1>1, <1>3, <1>6, <2>1 DEF OutputInv
  <2>6. StreamInv'
    BY <1>1, <1>6, <2>1, <2>2 DEF Inv, StreamInv
  <2>7. BackInv'
    <3> SUFFICES ASSUME ~Streams PROVE FALSE
      BY <1>6 DEF BackInv
    <3>1. Len(Rest) = 1 /\ wbuf = <<>>
      BY <1>1, RestFacts
    <3>2. Len(wbuf) = 0
      BY <3>1
    <3>3. BUFSIZ - 0 >= 1
      BY <1>3
    <3>4. k = 1
      BY <1>4, <3>1, <3>2, <3>3
    <3> QED BY <1>7, <3>4
  <2> QED BY <1>1, <2>3, <2>4, <2>5, <2>6, <2>7, WriteStep
<1>8. CASE k # 0
  <2> DEFINE t == SubSeq(Rest, 1, k)
  <2>1. /\ wbuf' = wbuf \o t /\ nw' = nw + k /\ ret' = ret
        /\ pc' = IF nw + k = Len(buf) THEN "after" ELSE "write"
    BY <1>1, <1>8 DEF Wrote
  <2>2. t \in Seq(Nat) /\ Len(t) = k /\ \A i \in 1 .. k : t[i] = Rest[i]
    <3>1. \A i \in 1 .. k : Rest[i] \in Nat
      BY <1>2, <1>5, ElementOfSeq
    <3>2. /\ t \in Seq(Nat) /\ Len(t) = IF 1 <= k THEN k - 1 + 1 ELSE 0
          /\ \A i \in 1 .. k - 1 + 1 : t[i] = Rest[1 + i - 1]
      BY <1>5, <3>1, SubSeqProperties
    <3> HIDE DEF t
    <3> QED BY <1>5, <3>2
  <2>20. Streams => Follows(t, Wanted, Sent)
    BY <1>2, <1>5, FollowsSplit
  <2> HIDE DEF t
  <2>3. wbuf' \in Seq(Nat) /\ Len(wbuf') = Len(wbuf) + k
    BY <1>3, <2>1, <2>2, ConcatProperties
  <2>4. nw' \in Nat /\ nw' <= Len(buf) /\ (nw + k # Len(buf) => nw' < Len(buf))
    <3>1. k \in 0 .. Len(buf) - nw
      BY <1>2, <1>5, Zenon
    <3> QED BY SMTT(30), <1>2, <2>1, <3>1
  <2>5. Streams => Sent' = Sent + k /\ Place' = Place
    <3> SUFFICES ASSUME Streams PROVE Sent' = Sent + k /\ Place' = Place
      OBVIOUS
    <3>1. Stored \in Nat
      BY DEF Inv, StreamInv
    <3>2. Sent' = Sent + k
      BY <1>1, <1>3, <1>5, <1>6, <2>3, <3>1 DEF Sent
    <3> QED BY <1>2, <1>5, <2>1, <3>2 DEF Place
  <2>6. WriteFrame
    <3>1. CASE nw + k = Len(buf)
      BY <1>1, <1>2, <2>1, <2>4, <2>5, <3>1 DEF WriteFrame
    <3>2. CASE nw + k # Len(buf)
      BY <1>1, <1>2, <2>1, <2>4, <2>5, <3>2 DEF WriteFrame
    <3> QED BY <3>1, <3>2
  <2>7. Types'
    <3>1. Len(wbuf') <= BUFSIZ /\ nw' \in 0 .. Len(buf)
      BY <1>2, <1>3, <1>5, <2>3, <2>4
    <3>2. pc' \in {"after", "write"}
      BY <2>1
    <3> QED BY <1>1, <1>3, <2>1, <2>3, <2>4, <3>1, <3>2 DEF Types, TypeOK, input
  <2>8. OutputInv'
    BY <1>1, <1>3, <1>6 DEF OutputInv
  <2>9. StreamInv'
    <3> SUFFICES ASSUME Streams PROVE StreamInv'
      BY <1>6 DEF StreamInv
    <3>1. /\ Stored \in Nat /\ Follows(wbuf, Wanted, Stored + Len(opipe))
      BY DEF Inv, StreamInv
    <3>2. Sent = Stored + Len(opipe) + Len(wbuf)
      BY DEF Sent
    <3>3. Follows(wbuf', Wanted, Stored + Len(opipe))
      BY <2>1, <2>20, <3>1, <3>2, FollowsJoin
    <3> QED BY <1>1, <1>6, <2>5, <3>3 DEF Inv, StreamInv
  <2>10. BackInv'
    <3> SUFFICES ASSUME ~Streams PROVE BackInv'
      BY <1>6 DEF BackInv
    <3>1. /\ nw = 0 /\ Len(buf) = 1 /\ Len(Rest) = 1 /\ Rest[1] = Wanted[left]
          /\ wbuf = <<>> /\ ooff = left /\ left < Total /\ left \in Nat
          /\ DOMAIN out = left + 1 .. Total - 1
      BY <1>1, RestFacts
    <3>2. k = 1 /\ Len(wbuf) = 0
      <4>1. \A m \in Nat : m \in 0 .. 1 /\ m # 0 => m = 1
        OBVIOUS
      <4>2. k \in 0 .. 1
        BY <1>5, <3>1, Zenon
      <4> QED BY <1>5, <1>8, <3>1, <4>1, <4>2
    <3>3. Len(wbuf') = 1
      <4>1. Len(wbuf) + k = 1
        BY <3>2
      <4> QED BY <2>3, <4>1, Zenon
    <3>4. wbuf' = t
      BY <2>1, <2>2, <3>1, ConcatEmptySeq
    <3>5. wbuf'[1] = Wanted[left]
      BY <2>2, <3>1, <3>2, <3>4
    <3>6. nw + k = Len(buf)
      BY <3>1, <3>2
    <3>7. pc' = "after"
      BY <2>1, <3>6
    <3>8. Accepted' = left
      BY <1>1, <3>7 DEF Accepted, Reading, Holding, At
    <3>9. Total \in Nat
      BY TotalFacts DEF Inv, Types, TypeOK
    <3>10. left + Len(wbuf') = left + 1 /\ left <= Total /\ Len(wbuf') <= 1
      BY <3>1, <3>3, <3>9
    <3>11. ~Holding' /\ ~At("write")' /\ pc' # "flush" /\ buf' = buf /\ ooff' = left
      BY <1>1, <3>1, <3>7 DEF Holding, At
    <3>12. DOMAIN out' = Accepted' + Len(wbuf') .. Total - 1
      <4>1. DOMAIN out' = left + 1 .. Total - 1
        BY <1>6, <3>1
      <4> QED BY <3>8, <3>10, <4>1, Zenon
    <3>13. Accepted' <= Total /\ Accepted' < Total /\ ooff' = Accepted' /\ Len(buf') <= 1
      <4>1. Len(buf') <= 1
        BY <3>11 DEF Inv, BackInv
      <4>2. left <= Total /\ left < Total
        BY <3>1, <3>10
      <4> QED BY <3>8, <3>11, <4>1, <4>2, Zenon
    <3>14. wbuf'[1] = Wanted[ooff'] /\ Len(wbuf') <= 1
      BY <3>5, <3>10, <3>11
    <3> QED BY <1>6, <3>11, <3>12, <3>13, <3>14 DEF BackInv
  <2> QED BY <1>1, <2>6, <2>7, <2>8, <2>9, <2>10, WriteStep
<1> QED BY <1>7, <1>8

\* The types of what a flush changes.
LEMMA FlushTypes ==
  ASSUME Types, UNCHANGED <<run, ret, left, pos, written, buf, want, nw, input>>,
         pc' \in {"flush", "exit", "abort"} \/ pc' = ret,
         wbuf' \in Seq(Nat), Len(wbuf') <= BUFSIZ,
         opipe' \in Seq(Nat), Len(opipe') <= PIPE_SIZE, ooff' \in Nat, ropen' = ropen
  PROVE  Types'
<1>1. UNCHANGED <<ioff, ipipe, wopen, rbuf>> /\ UNCHANGED <<run, ret, left, pos, written, buf, want, nw>>
  BY DEF input
<1>2. pc' \in {"flush", "exit", "abort", "top", "write", "seek", "close"}
  BY DEF Types, TypeOK
<1>3. TypeOK'
  BY <1>1, <1>2 DEF Types, TypeOK
<1>4. /\ {left, pos, written, want, nw, ioff, ooff}' \subseteq Nat
      /\ {buf, ipipe, rbuf, wbuf, opipe}' \subseteq Seq(Nat)
  BY <1>1 DEF Types
<1> QED BY <1>3, <1>4 DEF Types

\* A piece of a flush reaches the output.
LEMMA FlushStep == Inv /\ Flush => Inv'
<1> SUFFICES ASSUME Inv, Flush PROVE Inv'
  OBVIOUS
<1> DEFINE k == Room(Len(wbuf))
<1>1. /\ pc = "flush" /\ Put(wbuf) /\ wbuf' = SubSeq(wbuf, k + 1, Len(wbuf))
      /\ IF wbuf' = <<>> THEN pc' = ret
         ELSE IF run.dst = "pipe" THEN UNCHANGED pc ELSE FlushFailed
      /\ UNCHANGED <<run, ret, left, pos, written, buf, want, nw, input>>
  BY DEF Flush
<1>2. /\ wbuf \in Seq(Nat) /\ Len(wbuf) \in Nat /\ Types /\ OutputInv /\ Len(wbuf) <= BUFSIZ
      /\ BUFSIZ \in Nat /\ Len(opipe) \in Nat /\ run.dst \in {"file", "pipe"}
      /\ ret \in {"top", "write", "seek", "close"}
  BY Basics, SizeAssumption DEF Inv, Types, TypeOK, RunType
<1>3. Total' = Total /\ Wanted' = Wanted /\ Streams' = Streams
  BY <1>1, Fixed
<1>4. k \in 0 .. Len(wbuf)
  BY <1>1, <1>2, RoomFacts DEF Put
<1>5. wbuf' \in Seq(Nat) /\ Len(wbuf') = Len(wbuf) - k
  <2>1. \A i \in 1 .. Len(wbuf) : wbuf[i] \in Nat
    BY <1>2, ElementOfSeq
  <2> HIDE DEF k
  <2> DEFINE r == SubSeq(wbuf, k + 1, Len(wbuf))
  <2>2. r \in Seq(Nat) /\ Len(r) = IF k + 1 <= Len(wbuf) THEN Len(wbuf) - (k + 1) + 1 ELSE 0
    BY <1>2, <1>4, <2>1, SubSeqProperties
  <2>3. wbuf' = r
    BY <1>1
  <2> HIDE DEF r
  <2>4. Len(r) = Len(wbuf) - k
    BY <1>2, <1>4, <2>2
  <2> QED BY <2>2, <2>3, <2>4
<1>6. wbuf' = <<>> \/ k < Len(wbuf)
  <2> HIDE DEF k
  <2> SUFFICES ASSUME ~(k < Len(wbuf)) PROVE wbuf' = <<>>
    OBVIOUS
  <2>1. Len(wbuf) - k = 0
    BY <1>2, <1>4
  <2>2. Len(wbuf') = 0
    BY <1>5, <2>1, Zenon
  <2> QED BY <1>5, <2>2, EmptySeq
<1>7. \/ pc' \in {ret, "flush"} \/ (ret = "close" /\ pc' = "exit")
      \/ (pc' = "abort" /\ run.dst = "file" /\ wbuf' # <<>>)
  BY <1>1, <1>2 DEF FlushFailed
<1>8. CASE Streams
  <2>1. Follows(wbuf, Wanted, Stored + Len(opipe)) /\ Stored \in Nat
    BY <1>8 DEF Inv, StreamInv
  <2>2. /\ Stored' \in Nat /\ DOMAIN out' = 0 .. Stored' - 1 /\ Stored' <= Total
        /\ out' = [o \in DOMAIN out' |-> Wanted[o]]
        /\ Follows(opipe', Wanted, Stored') /\ Len(opipe') <= PIPE_SIZE
        /\ Stored' + Len(opipe') = Stored + Len(opipe) + k
        /\ run.dst = "file" => opipe' = <<>> /\ ooff' = Stored'
        /\ ooff' \in Nat /\ ropen' = ropen
        /\ run.dst = "file" /\ k < Len(wbuf) => run.disk < Total
    BY <1>1, <1>2, <1>8, <2>1, PutStream DEF Inv
  <2>3. Follows(wbuf', Wanted, Stored + Len(opipe) + k)
    BY <1>1, <1>4, <2>1, FollowsSplit
  <2> HIDE DEF k
  <2>4. opipe' \in Seq(Nat) /\ Len(opipe') \in Nat
    BY <2>2 DEF Follows
  <2>5. Sent' = Sent /\ Place' = Place
    <3>1. Sent' = Sent
      BY <1>2, <1>4, <1>5, <2>1, <2>2, <2>4 DEF Sent
    <3> QED BY <1>1, <3>1 DEF Place
  <2>6. FlushFrame
    BY <1>1, <1>6, <1>7, <2>2, <2>5 DEF FlushFrame
  <2>7. Types'
    <3>1. Len(wbuf') <= BUFSIZ
      BY <1>2, <1>4, <1>5
    <3>2. pc' \in {"flush", "exit", "abort"} \/ pc' = ret
      BY <1>7
    <3>3. UNCHANGED <<run, ret, left, pos, written, buf, want, nw, input>>
      BY <1>1
    <3>4. opipe' \in Seq(Nat) /\ Len(opipe') <= PIPE_SIZE /\ ooff' \in Nat /\ ropen' = ropen
      BY <2>2, <2>4
    <3>5. Types /\ wbuf' \in Seq(Nat)
      BY <1>2, <1>5
    <3> QED BY <3>1, <3>2, <3>3, <3>4, <3>5, FlushTypes
  <2>8. OutputInv'
    <3>1. 0 .. Stored' - 1 \subseteq 0 .. Total - 1
      <4>1. Total \in Nat
        BY TotalFacts DEF Inv, Types, TypeOK
      <4>2. \A m \in Nat : m <= Total => 0 .. m - 1 \subseteq 0 .. Total - 1
        BY <4>1
      <4> QED BY <2>2, <4>2, Zenon
    <3>2. DOMAIN out' \subseteq 0 .. Total - 1
      BY <2>2, <3>1
    <3>3. run.olib # "stdio" => wbuf' = <<>>
      <4> SUFFICES ASSUME run.olib # "stdio" PROVE wbuf' = <<>>
        OBVIOUS
      <4>1. Len(wbuf) = 0
        BY <1>2 DEF OutputInv
      <4>2. ~(k < Len(wbuf))
        BY <1>4, <4>1
      <4> QED BY <1>6, <4>2
    <3> QED BY <1>1, <1>3, <2>2, <3>2, <3>3 DEF OutputInv
  <2>9. StreamInv'
    <3>1. Follows(wbuf', Wanted, Stored' + Len(opipe'))
      BY <2>2, <2>3, Zenon
    <3>2. Follows(buf', Wanted', Place') /\ Place' + Len(buf') <= Total'
      BY <1>1, <1>3, <1>8, <2>5 DEF Inv, StreamInv
    <3> QED BY <1>1, <1>3, <2>2, <3>1, <3>2 DEF StreamInv
  <2>10. BackInv'
    BY <1>3, <1>8 DEF BackInv
  <2> QED BY <2>6, <2>7, <2>8, <2>9, <2>10, FlushStays
<1>9. CASE ~Streams
  <2>1. /\ wbuf # <<>> /\ Len(wbuf) <= 1 /\ ooff = Accepted /\ Accepted < Total /\ wbuf[1] = Wanted[ooff]
        /\ DOMAIN out = Accepted + Len(wbuf) .. Total - 1 /\ ret # "write" /\ run.dst = "file"
        /\ Len(buf) <= 1 /\ (Holding => buf[1] = Wanted[left])
    BY <1>1, <1>2, <1>9, Basics DEF Inv, BackInv, At, RunType, Streams
  <2>2. Len(wbuf) = 1
    <3>1. Len(wbuf) # 0
      BY <1>2, <2>1, EmptySeq
    <3>2. \A n \in Nat : n # 0 /\ n <= 1 => n = 1
      OBVIOUS
    <3> QED BY <1>2, <2>1, <3>1, <3>2, Zenon
  <2>3. DOMAIN out = ooff + 1 .. Total - 1 /\ ooff < Total
    BY <2>1, <2>2
  <2>4. /\ Room(1) \in {0, 1}
        /\ DOMAIN out' = ooff + 1 - Room(1) .. Total - 1
        /\ out' = [o \in DOMAIN out' |-> Wanted[o]]
        /\ opipe' = opipe /\ ropen' = ropen /\ ooff' \in Nat
        /\ Room(1) = 0 => run.disk < Total /\ ooff' = ooff
    BY <1>1, <1>2, <1>9, <2>1, <2>2, <2>3, PutBack
  <2>5. k = Room(1)
    BY <2>2
  <2> HIDE DEF k
  <2>6. Total \in Nat /\ ooff \in Nat
    BY TotalFacts DEF Inv, Types, TypeOK
  <2>7. pc' # "flush" /\ (wbuf' = <<>> => pc' = ret)
        /\ (wbuf' # <<>> => (ret = "close" /\ pc' = "exit") \/ pc' = "abort")
    BY <1>1, <1>2, <2>1 DEF FlushFailed
  <2>8. \/ k = 1 /\ wbuf' = <<>> /\ Len(wbuf') = 0
        \/ k = 0 /\ Len(wbuf') = 1 /\ wbuf' # <<>> /\ wbuf' = wbuf
    <3>1. CASE k = 1
      <4>1. Len(wbuf) - k = 0
        BY <2>2, <3>1
      <4>2. Len(wbuf') = 0
        BY <1>5, <4>1, Zenon
      <4> QED BY <1>5, <3>1, <4>2, EmptySeq
    <3>2. CASE k = 0
      <4>1. wbuf' = SubSeq(wbuf, 1, Len(wbuf))
        BY <1>1, <3>2
      <4>2. wbuf' = wbuf
        BY <1>2, <4>1, SubSeqFull
      <4> QED BY <2>1, <2>2, <3>2, <4>2
    <3> QED BY <2>4, <2>5, <3>1, <3>2
  <2>9. FlushFrame
    <3>1. pc' = "abort" => run.disk < Total
      <4>1. pc' = "abort" => wbuf' # <<>>
        BY <1>2, <2>7
      <4> QED BY <2>4, <2>5, <2>8, <4>1
    <3> QED BY <1>1, <1>7, <1>9, <3>1 DEF FlushFrame
  <2>10. Types'
    <3>1. Len(wbuf') <= BUFSIZ
      BY <1>2, <1>4, <1>5
    <3>2. pc' \in {"flush", "exit", "abort"} \/ pc' = ret
      BY <1>7
    <3>3. UNCHANGED <<run, ret, left, pos, written, buf, want, nw, input>>
      BY <1>1
    <3>4. opipe' \in Seq(Nat) /\ Len(opipe') <= PIPE_SIZE /\ ooff' \in Nat /\ ropen' = ropen
      BY <1>2, <2>4 DEF Types, TypeOK
    <3>5. Types /\ wbuf' \in Seq(Nat)
      BY <1>2, <1>5
    <3> QED BY <3>1, <3>2, <3>3, <3>4, <3>5, FlushTypes
  <2>11. OutputInv'
    <3>1. DOMAIN out' \subseteq 0 .. Total - 1
      <4>1. Room(1) \in {0, 1} => ooff + 1 - Room(1) .. Total - 1 \subseteq 0 .. Total - 1
        BY <2>6
      <4> QED BY <2>4, <4>1
    <3>2. run.olib # "stdio" => wbuf' = <<>>
      BY <1>2, <2>1 DEF OutputInv
    <3> QED BY <1>1, <1>2, <1>3, <2>4, <3>1, <3>2 DEF OutputInv
  <2>12. StreamInv'
    BY <1>3, <1>9 DEF StreamInv
  <2>13. BackInv'
    <3>1. CASE pc' = "abort"
      <4>0. Len(wbuf') <= 1
        <5>1. wbuf' = wbuf
          BY <1>2, <2>7, <2>8, <3>1
        <5> QED BY <2>1, <5>1
      <4>1. ~Holding' /\ ~At("write")' /\ Len(wbuf') <= 1
        BY <3>1, <4>0 DEF Holding, At
      <4> QED BY <1>1, <1>3, <2>1, <2>7, <3>1, <4>1 DEF BackInv
    <3>2. CASE pc' # "abort"
      <4>1. /\ Accepted' = Accepted /\ (Holding' => Holding) /\ ~At("write")'
        BY <1>1, <1>2, <2>1, <2>7, <3>2 DEF Accepted, Holding, Reading, At
      <4>2. DOMAIN out' = Accepted + Len(wbuf') .. Total - 1
        <5>1. ooff + 1 - Room(1) = Accepted + Len(wbuf')
          BY <2>1, <2>4, <2>5, <2>6, <2>8
        <5> QED BY <2>4, <5>1
      <4>3. wbuf' # <<>> => ooff' = Accepted /\ wbuf'[1] = Wanted[ooff']
        BY <2>1, <2>4, <2>5, <2>8
      <4>4. Accepted <= Total /\ Len(wbuf') <= 1 /\ Accepted < Total
        BY <2>1, <2>6, <2>8
      <4> QED BY <1>1, <1>3, <2>1, <2>7, <4>1, <4>2, <4>3, <4>4 DEF BackInv
    <3> QED BY <3>1, <3>2
  <2> QED BY <2>9, <2>10, <2>11, <2>12, <2>13, FlushStays
<1> QED BY <1>8, <1>9

\* A write that SIGALRM or SIGPIPE ends.
LEMMA WriteEndsStep == Inv /\ (WriteInterrupted \/ WriteBroken) => Inv'
<1> SUFFICES ASSUME Inv, WriteInterrupted \/ WriteBroken PROVE Inv'
  OBVIOUS
<1>1. /\ UNCHANGED <<run, ret, left, pos, written, buf, want, nw, input, output>>
      /\ pc = "flush" \/ pc = "write"
      /\ \/ pc = "flush" /\ ret = "close" /\ pc' = "exit" /\ run.alarm
         \/ pc' = "abort" /\ run.alarm
         \/ pc' = "killed"
  BY DEF WriteInterrupted, WriteBroken, Writing, FlushFailed
<1>2. Total' = Total /\ Wanted' = Wanted /\ Streams' = Streams
  BY <1>1, Fixed
<1>3. UNCHANGED <<wbuf, ooff, opipe, ropen, out>>
  BY <1>1 DEF output
<1>4. Sent' = Sent /\ Place' = Place /\ Stored' = Stored
  BY <1>1, <1>3 DEF Sent, Place, Stored
<1>5. FlushFrame
  BY <1>1, <1>4 DEF FlushFrame
<1>6. Types'
  BY <1>1, <1>3 DEF Inv, Types, TypeOK, input
<1>7. OutputInv' /\ StreamInv'
  BY <1>1, <1>2, <1>3, <1>4 DEF Inv, OutputInv, StreamInv
<1>8. BackInv'
  <2>1. run.alarm => Streams
    BY Basics DEF Inv, RunType, Streams
  <2> SUFFICES ASSUME ~Streams PROVE BackInv'
    BY <1>2 DEF BackInv
  <2>2. pc' = "killed"
    BY <1>1, <2>1
  <2> QED BY <1>1, <1>2, <1>3, <2>2 DEF Inv, BackInv, Holding, At
<1> QED BY <1>5, <1>6, <1>7, <1>8, FlushStays
-----------------------------------------------------------------------------
(* The programs around it.                                                 *)

\* A step of the programs around this one, which moves bytes but loses none.
LEMMA AroundStep ==
  ASSUME Inv, UNCHANGED <<run, program>>, Taken' = Taken, Streams => Sent' = Sent,
         Types', InputInv', OutputInv', StreamInv', BackInv'
  PROVE  Inv'
<1>1. UNCHANGED <<run, pc, ret, left, pos, written, buf, want, nw>>
  BY DEF program
<1>2. /\ Total' = Total /\ Wanted' = Wanted /\ FileSize(run)' = FileSize(run)
      /\ Streams' = Streams /\ Knows' = Knows /\ InOrder' = InOrder
  BY <1>1, Fixed
<1>3. /\ From' = From /\ StrideAt' = StrideAt /\ StrideSize(pos)' = StrideSize(pos)
      /\ (Streams => Place' = Place)
  BY <1>1, <1>2 DEF From, StrideAt, StrideSize, Rank, Place
<1>4. /\ Reading' = Reading /\ Holding' = Holding /\ Between' = Between /\ Ending' = Ending
      /\ At("seek")' = At("seek")
  BY <1>1 DEF Reading, Holding, Between, Ending, At
<1>5. ReadInv'
  BY <1>1, <1>2, <1>3, <1>4 DEF Inv, ReadInv
<1>6. BlockInv'
  BY <1>1, <1>2, <1>4 DEF Inv, BlockInv
<1>7. CountInv'
  BY <1>1, <1>2, <1>3, <1>4 DEF Inv, CountInv, Streams, InOrder
<1>8. EndInv'
  BY <1>1, <1>2, <1>4 DEF EndInv, Inv
<1>9. AssertionsHold'
  BY <1>1, <1>2 DEF Inv, AssertionsHold
<1> QED BY <1>5, <1>6, <1>7, <1>8, <1>9 DEF Inv

\* The program before this one sends a byte, or ends.
LEMMA UpstreamStep == Inv /\ Upstream => Inv'
<1> SUFFICES ASSUME Inv, Upstream PROVE Inv'
  OBVIOUS
<1>1. /\ wopen /\ UNCHANGED <<run, program, rbuf, output>>
      /\ \/ /\ ioff < run.size /\ Len(ipipe) < PIPE_SIZE
            /\ ipipe' = Append(ipipe, Input[ioff + 1])
            /\ ioff' = ioff + 1 /\ wopen' = wopen
         \/ /\ ioff = run.size /\ wopen' = FALSE
            /\ ipipe' = ipipe /\ ioff' = ioff
  BY DEF Upstream
<1>2. /\ ioff \in Nat /\ ipipe \in Seq(Nat) /\ Len(ipipe) \in Nat /\ run.size \in Nat
      /\ Types /\ InputInv /\ run.src = "pipe" /\ rbuf \in Seq(Nat) /\ Len(rbuf) \in Nat
      /\ PIPE_SIZE \in Nat
  BY <1>1, Basics, SizeAssumption DEF Inv, InputInv, RunType
<1>3. /\ UNCHANGED <<pc, ret, left, pos, written, buf, want, nw>>
      /\ UNCHANGED <<wbuf, ooff, opipe, ropen, out>>
  BY <1>1 DEF program, output
<1>4. Total' = Total /\ Wanted' = Wanted /\ Streams' = Streams
  BY <1>1, Fixed
<1>5. Sent' = Sent /\ Stored' = Stored /\ Place' = Place
  BY <1>3 DEF Sent, Stored, Place
<1>6. /\ ioff' \in 0 .. run.size /\ ipipe' \in Seq(Nat) /\ Len(ipipe') <= PIPE_SIZE
      /\ ioff' - Len(ipipe') = ioff - Len(ipipe) /\ wopen' \in BOOLEAN
      /\ Follows(ipipe', Counting, ioff' - Len(ipipe'))
      /\ (~wopen' => ioff' = run.size)
  <2>1. CASE ioff = run.size /\ wopen' = FALSE /\ ipipe' = ipipe /\ ioff' = ioff
    BY <1>2, <2>1 DEF Types, TypeOK, InputInv
  <2>2. CASE /\ ioff < run.size /\ Len(ipipe) < PIPE_SIZE
             /\ ipipe' = Append(ipipe, Input[ioff + 1])
             /\ ioff' = ioff + 1 /\ wopen' = wopen
    <3>1. Input[ioff + 1] = ioff
      BY <1>2, <2>2 DEF Input
    <3>2. /\ ipipe' \in Seq(Nat) /\ Len(ipipe') = Len(ipipe) + 1
          /\ \A i \in 1 .. Len(ipipe) : ipipe'[i] = ipipe[i]
          /\ ipipe'[Len(ipipe) + 1] = ioff
      <4>1. ipipe' = Append(ipipe, ioff)
        BY <2>2, <3>1
      <4> QED BY <1>2, <4>1, AppendProperties
    <3>3. ioff' - Len(ipipe') = ioff - Len(ipipe) /\ ioff' \in 0 .. run.size /\ Len(ipipe') <= PIPE_SIZE
      BY <1>2, <2>2, <3>2
    <3>4. Follows(ipipe, Counting, ioff - Len(ipipe))
      BY <1>2 DEF InputInv
    <3>5. ioff - Len(ipipe) \in Nat
      BY <3>4 DEF Follows
    <3>6. ASSUME NEW i \in 1 .. Len(ipipe) + 1
          PROVE  /\ ioff - Len(ipipe) + i - 1 \in DOMAIN Counting
                 /\ ipipe'[i] = Counting[ioff - Len(ipipe) + i - 1]
      <4>1. CASE i \in 1 .. Len(ipipe)
        BY <3>2, <3>4, <4>1 DEF Follows
      <4>2. CASE i = Len(ipipe) + 1
        <5>1. ioff - Len(ipipe) + i - 1 = ioff
          BY <1>2, <4>2
        <5> QED BY <1>2, <3>2, <4>2, <5>1 DEF Counting
      <4> QED BY <1>2, <4>1, <4>2
    <3>7. Follows(ipipe', Counting, ioff - Len(ipipe))
      BY <3>2, <3>5, <3>6 DEF Follows
    <3> QED BY <1>1, <1>2, <2>2, <3>2, <3>3, <3>7 DEF Types, TypeOK
  <2> QED BY <1>1, <2>1, <2>2
<1>7. Taken' = Taken
  BY <1>1, <1>6 DEF Taken
<1>8. InputInv'
  BY <1>1, <1>2, <1>6, <1>7 DEF InputInv
<1>9. Types'
  BY <1>1, <1>2, <1>3, <1>6 DEF Types, TypeOK
<1>10. OutputInv' /\ StreamInv'
  BY <1>1, <1>3, <1>4, <1>5 DEF Inv, OutputInv, StreamInv
<1>11. BackInv'
  BY <1>1, <1>3, <1>4 DEF Inv, BackInv, Accepted, Reading, Holding, At
<1> QED BY <1>1, <1>5, <1>7, <1>8, <1>9, <1>10, <1>11, AroundStep

\* The program behind this one takes a byte.
LEMMA DownstreamStep == Inv /\ Downstream => Inv'
<1> SUFFICES ASSUME Inv, Downstream PROVE Inv'
  OBVIOUS
<1>1. /\ opipe # <<>> /\ opipe' = Tail(opipe)
      /\ out' = [o \in 0 .. Stored |-> IF o \in DOMAIN out THEN out[o] ELSE Head(opipe)]
      /\ UNCHANGED <<run, program, input, wbuf, ooff, ropen>>
  BY DEF Downstream, Stored
<1>2. /\ opipe \in Seq(Nat) /\ Len(opipe) \in Nat /\ Types /\ OutputInv /\ Len(wbuf) \in Nat
      /\ Len(opipe) <= PIPE_SIZE /\ PIPE_SIZE \in Nat
  BY Basics, SizeAssumption DEF Inv, Types, TypeOK
<1>3. run.dst # "file" /\ Streams
  BY <1>1, <1>2, Basics DEF OutputInv, RunType, Streams
<1>4. /\ Stored \in Nat /\ DOMAIN out = 0 .. Stored - 1 /\ Follows(opipe, Wanted, Stored)
      /\ Follows(wbuf, Wanted, Stored + Len(opipe))
  BY <1>3 DEF Inv, StreamInv
<1>5. Len(opipe) # 0 /\ Len(opipe) >= 1
  <2>1. Len(opipe) # 0
    BY <1>1, <1>2, EmptySeq
  <2>2. \A n \in Nat : n # 0 => n >= 1
    OBVIOUS
  <2> QED BY <1>2, <2>1, <2>2
<1>6. /\ Stored \in DOMAIN Wanted /\ Head(opipe) = Wanted[Stored]
  <2>1. 1 \in 1 .. Len(opipe) /\ Stored + 1 - 1 = Stored
    BY <1>2, <1>4, <1>5
  <2>2. Stored \in DOMAIN Wanted /\ opipe[1] = Wanted[Stored]
    BY <1>4, <2>1 DEF Follows
  <2> QED BY <1>1, <1>2, <2>2
<1>7. DOMAIN out' = 0 .. (Stored + 1) - 1 /\ Stored' = Stored + 1
  <2>1. DOMAIN out' = 0 .. (Stored + 1) - 1
    <3>1. (Stored + 1) - 1 = Stored
      BY <1>4
    <3> QED BY <1>1, <3>1
  <2>2. Stored + 1 \in Nat
    BY <1>4
  <2>3. Cardinality(DOMAIN out') = Stored + 1
    BY <2>1, <2>2, StoredFacts, Zenon
  <2>4. Stored' = Cardinality(DOMAIN out')
    BY DEF Stored
  <2> QED BY <2>1, <2>3, <2>4
<1>8. out' = [o \in DOMAIN out' |-> Wanted[o]]
  <2>1. ASSUME NEW o \in DOMAIN out' PROVE out'[o] = Wanted[o]
    <3>1. CASE o \in DOMAIN out
      BY <1>1, <1>2, <2>1, <3>1 DEF OutputInv
    <3>2. CASE o \notin DOMAIN out
      <4>1. o = Stored
        BY <1>1, <1>4, <3>2
      <4> QED BY <1>1, <1>6, <3>2, <4>1
    <3> QED BY <3>1, <3>2
  <2>2. out' = [o \in DOMAIN out' |-> out'[o]]
    BY <1>1
  <2> QED BY <2>1, <2>2
<1>9. Follows(opipe', Wanted, Stored + 1) /\ Len(opipe') = Len(opipe) - 1
  <2>1. 1 \in 0 .. Len(opipe)
    BY <1>2, <1>5
  <2>2. opipe' = SubSeq(opipe, 1 + 1, Len(opipe))
    BY <1>1
  <2> QED BY <1>4, <2>1, <2>2, FollowsSplit
<1>10. Sent' = Sent
  <2>1. Len(wbuf') = Len(wbuf)
    BY <1>1
  <2> QED BY <1>2, <1>4, <1>7, <1>9, <2>1 DEF Sent
<1>11. /\ UNCHANGED <<pc, ret, left, pos, written, buf, want, nw>>
       /\ UNCHANGED <<ioff, ipipe, wopen, rbuf>>
  BY <1>1 DEF program, input
<1>12. Taken' = Taken /\ Place' = Place
  BY <1>10, <1>11 DEF Taken, Place
<1>13. Total' = Total /\ Wanted' = Wanted /\ Streams' = Streams
  BY <1>1, Fixed
<1>14. Types'
  <2>1. opipe' \in Seq(Nat) /\ Len(opipe') <= PIPE_SIZE
    <3>1. opipe' \in Seq(Nat)
      BY <1>9 DEF Follows
    <3> QED BY <1>2, <1>9, <3>1
  <2> QED BY <1>1, <1>2, <1>11, <2>1 DEF Types, TypeOK
<1>15. OutputInv'
  <2>1. DOMAIN Wanted = 0 .. Total - 1 /\ Total \in Nat
    BY TotalFacts, WantedFacts DEF Inv, Types, TypeOK
  <2>2. 0 .. (Stored + 1) - 1 \subseteq 0 .. Total - 1
    <3>1. Stored \in 0 .. Total - 1
      BY <1>6, <2>1
    <3> QED BY <1>4, <2>1, <3>1
  <2> QED BY <1>1, <1>2, <1>3, <1>7, <1>8, <1>13, <2>2 DEF OutputInv
<1>16. StreamInv'
  <2>1. Stored + 1 + Len(opipe') = Stored + Len(opipe) /\ Stored + 1 \in Nat
    BY <1>2, <1>4, <1>9
  <2>2. Follows(wbuf', Wanted, Stored' + Len(opipe'))
    BY <1>1, <1>4, <1>7, <2>1
  <2> QED BY <1>1, <1>3, <1>7, <1>9, <1>11, <1>12, <1>13, <2>1, <2>2 DEF Inv, StreamInv
<1>17. BackInv'
  BY <1>3, <1>13 DEF BackInv
<1>18. InputInv'
  BY <1>1, <1>11, <1>12 DEF Inv, InputInv
<1> QED BY <1>1, <1>10, <1>12, <1>14, <1>15, <1>16, <1>17, <1>18, AroundStep

\* The program behind this one quits, or nothing happens.
LEMMA StillStep == Inv /\ (DownstreamQuits \/ UNCHANGED vars) => Inv'
<1> SUFFICES ASSUME Inv, DownstreamQuits \/ UNCHANGED vars PROVE Inv'
  OBVIOUS
<1>1. /\ UNCHANGED <<run, program, input, wbuf, ooff, opipe, out>>
      /\ ropen' \in BOOLEAN
  BY DEF DownstreamQuits, vars, output, Inv, Types, TypeOK
<1>2. /\ UNCHANGED <<pc, ret, left, pos, written, buf, want, nw>>
      /\ UNCHANGED <<ioff, ipipe, wopen, rbuf>>
  BY <1>1 DEF program, input
<1>3. Total' = Total /\ Wanted' = Wanted /\ Streams' = Streams
  BY <1>1, Fixed
<1>4. Sent' = Sent /\ Stored' = Stored /\ Place' = Place /\ Taken' = Taken
  BY <1>1, <1>2 DEF Sent, Stored, Place, Taken
<1>5. Types'
  BY <1>1, <1>2 DEF Inv, Types, TypeOK
<1>6. InputInv' /\ OutputInv' /\ StreamInv'
  BY <1>1, <1>2, <1>3, <1>4 DEF Inv, InputInv, OutputInv, StreamInv
<1>7. BackInv'
  BY <1>1, <1>2, <1>3 DEF Inv, BackInv, Accepted, Reading, Holding, At
<1> QED BY <1>1, <1>4, <1>5, <1>6, <1>7, AroundStep
-----------------------------------------------------------------------------
(* The programs' loops.                                                    *)

\* Where a round begins.
LEMMA TopFacts ==
  ASSUME Inv, pc = "top"
  PROVE  /\ Between /\ ~Reading /\ ~Holding /\ ~Ending
         /\ nw = Len(buf) /\ Len(buf) \in Nat /\ left \in Nat
         /\ Total \in Nat /\ FileSize(run) \in Nat /\ Total <= FileSize(run)
         /\ (Knows => Total = FileSize(run)) /\ Total <= run.size /\ run.size \in Nat
         /\ Taken \in Nat
         /\ Streams => Sent \in Nat /\ Sent <= Total /\ Sent = Place + Len(buf)
         /\ InOrder => Sent = Taken
<1>1. Between /\ ~Reading /\ ~Holding /\ ~Ending
  BY DEF Between, Reading, Holding, Ending, At
<1>2. nw = Len(buf)
  BY <1>1 DEF Inv, BlockInv
<1>3. /\ Len(buf) \in Nat /\ Len(opipe) \in Nat /\ Len(wbuf) \in Nat /\ run \in CommandLines
      /\ run.size \in Nat /\ left \in Nat
  BY Basics DEF Inv, RunType
<1>4. /\ Total \in Nat /\ FileSize(run) \in Nat /\ Total <= FileSize(run)
      /\ (Knows => Total = FileSize(run)) /\ Total <= run.size
  <2>1. /\ Total \in Nat /\ FileSize(run) \in Nat /\ (Knows => Total = FileSize(run))
        /\ Total = IF FileSize(run) <= run.size THEN FileSize(run) ELSE run.size
    BY <1>3, TotalFacts
  <2> QED BY <1>3, <2>1
<1>5. Taken \in Nat
  BY DEF Inv, InputInv, Follows
<1>6. ASSUME Streams PROVE Sent \in Nat /\ Sent <= Total /\ Sent = Place + Len(buf)
  <2>1. Stored \in Nat /\ Place + Len(buf) <= Total
    BY <1>6 DEF Inv, StreamInv
  <2>2. Sent \in Nat
    BY <1>3, <2>1 DEF Sent
  <2>3. Place = Sent - Len(buf)
    BY <1>2 DEF Place
  <2> QED BY <1>3, <2>1, <2>2, <2>3
<1>7. ASSUME InOrder PROVE Sent = Taken
  <2>1. Place = From /\ Streams
    BY <1>7 DEF Inv, CountInv, InOrder, Streams
  <2>2. From = Taken - Len(buf) /\ Sent = Place + Len(buf) /\ Place = Sent - Len(buf) /\ Sent \in Nat
    BY <1>2, <1>6, <2>1 DEF From, Place
  <2> QED BY <1>3, <1>5, <2>1, <2>2
<1> QED BY <1>1, <1>2, <1>3, <1>4, <1>5, <1>6, <1>7

\* The loop is left.
LEMMA CloseStarts ==
  ASSUME Inv, pc = "top", pc' = "close", Streams => Sent = Total,
         run.prog = "reversewrite" => left = 0,
         UNCHANGED <<run, ret, left, pos, written, buf, want, nw, input, output>>
  PROVE  Inv'
<1>1. /\ Total' = Total /\ Wanted' = Wanted /\ FileSize(run)' = FileSize(run)
      /\ Streams' = Streams /\ Knows' = Knows /\ InOrder' = InOrder
  BY Fixed
<1>2. UNCHANGED <<ioff, ipipe, wopen, rbuf>> /\ UNCHANGED <<wbuf, ooff, opipe, ropen, out>>
  BY DEF input, output
<1>3. Taken' = Taken /\ From' = From /\ Sent' = Sent /\ Place' = Place /\ Stored' = Stored
  BY <1>2 DEF Taken, From, Sent, Place, Stored
<1>4. /\ ~Reading' /\ ~Holding' /\ ~Between' /\ pc' # "after" /\ Between /\ ~At("seek")'
      /\ ~Holding /\ ~Reading /\ ~At("write")'
  BY DEF Reading, Holding, Between, At
<1>5. Types'
  BY <1>2 DEF Inv, Types, TypeOK
<1>6. InputInv' /\ OutputInv' /\ StreamInv'
  BY <1>1, <1>2, <1>3 DEF Inv, InputInv, OutputInv, StreamInv
<1>7. BackInv'
  <2>1. Accepted' = Accepted
    BY <1>4 DEF Accepted
  <2> QED BY <1>1, <1>2, <1>4, <2>1 DEF Inv, BackInv
<1>8. ReadInv' /\ BlockInv'
  BY <1>4 DEF Inv, ReadInv, BlockInv
<1>9. CountInv'
  BY <1>1, <1>3, <1>4 DEF Inv, CountInv
<1>10. EndInv' /\ AssertionsHold'
  BY <1>1, <1>3 DEF EndInv, AssertionsHold
<1> QED BY <1>5, <1>6, <1>7, <1>8, <1>9, <1>10 DEF Inv

\* A round begins, at place Sent of the output.
LEMMA ReadStarts ==
  ASSUME Inv, pc = "top", NEW sz \in 1 .. run.block, StartRead(sz),
         UNCHANGED <<run, ret, pos, written, output>>,
         Types', InputInv', Taken' + sz <= run.size \/ ~Knows,
         left' = IF Knows /\ run.prog # "stride" THEN left - 1 ELSE left,
         Streams =>
           /\ run.prog \notin {"block", "varblock"} => Sent + sz <= FileSize(run)
           /\ \A i \in 0 .. sz - 1 : Sent + i < Total => Wanted[Sent + i] = Taken' + i,
         InOrder => Taken' = Taken,
         run.prog = "reverse" => Taken' = left',
         run.prog = "reversewrite" => Taken' = Taken,
         run.prog = "stride" => Taken' = pos /\ StrideAt /\ sz = StrideSize(pos)
  PROVE  Inv'
<1>0. /\ Between /\ ~Reading /\ ~Holding /\ nw = Len(buf) /\ Len(buf) \in Nat
      /\ Streams => Sent \in Nat /\ Sent <= Total /\ Sent = Place + Len(buf)
      /\ InOrder => Sent = Taken
      /\ left \in Nat /\ FileSize(run) \in Nat /\ Total \in Nat
  BY TopFacts
<1>1. pc' = "read" /\ want' = sz /\ buf' = <<>> /\ nw' = 0 /\ Len(buf') = 0
  BY DEF StartRead
<1>2. /\ Total' = Total /\ Wanted' = Wanted /\ FileSize(run)' = FileSize(run)
      /\ Streams' = Streams /\ Knows' = Knows /\ InOrder' = InOrder
  BY Fixed
<1>3. UNCHANGED <<wbuf, ooff, opipe, ropen, out>> /\ UNCHANGED <<run, pos, written>>
  BY DEF output
<1>4. Sent' = Sent /\ Stored' = Stored
  BY <1>3 DEF Sent, Stored
<1>5. Streams => Place' = Sent
  BY <1>0, <1>1, <1>4 DEF Place
<1>6. From' = Taken' /\ Taken' \in Nat
  <2>1. Taken' \in Nat
    BY DEF InputInv, Follows
  <2>2. From' = Taken' - 0
    <3>1. From' = Taken' - Len(buf')
      BY DEF From
    <3> QED BY <1>1, <3>1, Zenon
  <2>3. \A m \in Nat : m - 0 = m
    OBVIOUS
  <2> QED BY <2>1, <2>2, <2>3, Zenon
<1>7. /\ Reading' /\ ~Holding' /\ ~Between' /\ ~Ending' /\ ~At("seek")' /\ ~At("write")'
      /\ pc' # "after" /\ pc' # "abort" /\ pc' # "flush"
  BY <1>1 DEF Reading, Holding, Between, Ending, At
<1>8. OutputInv'
  BY <1>2, <1>3 DEF Inv, OutputInv
<1>9. StreamInv'
  <2> SUFFICES ASSUME Streams PROVE StreamInv'
    BY <1>2 DEF StreamInv
  <2>1. Follows(buf', Wanted, Place') /\ Place' + Len(buf') <= Total
    BY <1>0, <1>1, <1>5, FollowsEmpty
  <2> QED BY <1>2, <1>3, <1>4, <2>1 DEF Inv, StreamInv
<1>10. BackInv'
  <2> SUFFICES ASSUME ~Streams PROVE BackInv'
    BY <1>2 DEF BackInv
  <2>1. Knows /\ run.prog # "stride"
    BY DEF Streams, Knows
  <2>2. Accepted' = left' + 1 /\ Accepted = left /\ left' = left - 1
    BY <1>0, <1>7, <2>1 DEF Accepted
  <2>3. Accepted' = Accepted
    BY <1>0, <2>2
  <2>4. pc \notin {"abort", "killed"} /\ Len(buf') <= 1
    BY <1>1
  <2> QED BY <1>1, <1>2, <1>3, <1>7, <2>3, <2>4 DEF Inv, BackInv
<1>11. ReadInv'
  <2>1. Len(buf') < want' /\ From' >= 0
    BY <1>1, <1>6
  <2>2. Knows => From' + want' <= run.size
    BY <1>1, <1>6
  <2>3. Streams =>
          /\ run.prog \notin {"block", "varblock"} => Place' + want' <= FileSize(run)
          /\ \A i \in 0 .. want' - 1 : Place' + i < Total => Wanted[Place' + i] = From' + i
    BY <1>1, <1>5, <1>6
  <2> QED BY <1>1, <1>2, <1>3, <2>1, <2>2, <2>3 DEF ReadInv
<1>12. BlockInv'
  BY <1>7 DEF BlockInv
<1>13. CountInv'
  <2>1. InOrder => Place' = From'
    BY <1>0, <1>5, <1>6 DEF InOrder, Streams
  <2>2. run.prog = "cat" => left' + Place' = FileSize(run)
    BY <1>0, <1>5 DEF Inv, CountInv, Streams, Knows
  <2>3. run.prog = "reverse" => From' = left' /\ left' + 1 + Place' = FileSize(run)
    <3> SUFFICES ASSUME run.prog = "reverse" PROVE From' = left' /\ left' + 1 + Place' = FileSize(run)
      OBVIOUS
    <3>1. left + Sent = FileSize(run) /\ Place' = Sent /\ Sent \in Nat /\ left' = left - 1
      BY <1>0, <1>5 DEF Inv, CountInv, Streams, Knows
    <3> QED BY <1>0, <1>6, <3>1
  <2>4. run.prog = "reversewrite" => left' + 1 + Taken' = FileSize(run)
    <3> SUFFICES ASSUME run.prog = "reversewrite" PROVE left' + 1 + Taken' = FileSize(run)
      OBVIOUS
    <3>1. left + Taken = FileSize(run) /\ Taken' = Taken /\ left' = left - 1
      BY <1>0 DEF Inv, CountInv, Streams, Knows
    <3> QED BY <1>0, <1>6, <3>1
  <2>5. run.prog = "stride" =>
          /\ left' = Total /\ Place' = written /\ StrideAt' /\ want' = StrideSize(pos)'
          /\ From' = pos
    <3> SUFFICES ASSUME run.prog = "stride"
                 PROVE  /\ left' = Total /\ Place' = written /\ StrideAt'
                        /\ want' = StrideSize(pos)' /\ From' = pos
      OBVIOUS
    <3>1. StrideAt' = StrideAt /\ StrideSize(pos)' = StrideSize(pos)
      BY <1>2, <1>3 DEF StrideAt, StrideSize, Rank
    <3>2. left = Total /\ Sent = written /\ Streams
      BY <1>0 DEF Inv, CountInv, Streams
    <3> QED BY <1>1, <1>5, <1>6, <3>1, <3>2 DEF Knows
  <2>6. run.prog # "stride" => pos' = 0 /\ written' = 0
    BY <1>3 DEF Inv, CountInv
  <2> QED BY <1>2, <1>3, <1>7, <2>1, <2>2, <2>3, <2>4, <2>5, <2>6 DEF CountInv
<1>14. EndInv' /\ AssertionsHold'
  BY <1>7 DEF EndInv, AssertionsHold
<1> QED BY <1>8, <1>9, <1>10, <1>11, <1>12, <1>13, <1>14 DEF Inv

\* cat61, read61 and write61 start a round, or end when they have copied their limit.
LEMMA CatLoopStep == Inv /\ CatLoop => Inv'
<1> SUFFICES ASSUME Inv, CatLoop PROVE Inv'
  OBVIOUS
<1>1. /\ pc = "top" /\ run.prog = "cat" /\ UNCHANGED <<run, ret, left, pos, written, input, output>>
      /\ IF left = 0 THEN pc' = "close" /\ UNCHANGED <<buf, want, nw>> ELSE StartRead(1)
  BY DEF CatLoop
<1>2. /\ Between /\ left \in Nat /\ Total \in Nat /\ FileSize(run) \in Nat /\ Total <= FileSize(run)
      /\ Streams /\ InOrder /\ ~Knows /\ Sent \in Nat /\ Sent <= Total /\ Sent = Taken
  BY <1>1, TopFacts DEF Streams, InOrder, Knows
<1>3. left + Sent = FileSize(run)
  BY <1>1, <1>2 DEF Inv, CountInv
<1>4. CASE left = 0
  <2>1. Sent = Total
    BY <1>2, <1>3, <1>4
  <2> QED BY <1>1, <1>4, <2>1, CloseStarts
<1>5. CASE left # 0
  <2>1. StartRead(1) /\ 1 \in 1 .. run.block /\ run.block = 1
    BY <1>1, <1>5, Basics DEF Inv, RunType
  <2>2. UNCHANGED <<ioff, ipipe, wopen, rbuf>> /\ UNCHANGED <<wbuf, ooff, opipe, ropen, out>>
    BY <1>1 DEF input, output
  <2>3. Taken' = Taken
    BY <2>2 DEF Taken
  <2>4. InputInv'
    BY <1>1, <2>2, <2>3 DEF Inv, InputInv
  <2>5. Types'
    <3>1. /\ pc' = "read" /\ want' = 1 /\ buf' = <<>> /\ nw' = 0 /\ buf' \in Seq(Nat)
          /\ Len(buf') <= want' /\ want' \in 0 .. run.block /\ nw' \in 0 .. Len(buf')
      BY <2>1 DEF StartRead
    <3> QED BY <1>1, <2>2, <3>1 DEF Inv, Types, TypeOK
  <2>6. Sent + 1 <= FileSize(run)
    BY <1>2, <1>3, <1>5
  <2>7. \A i \in 0 .. 1 - 1 : Sent + i < Total => Wanted[Sent + i] = Taken' + i
    <3>1. \A i \in 0 .. 1 - 1 : i = 0
      OBVIOUS
    <3>2. Sent < Total => Wanted[Sent] = Sent
      <4>1. Sent < Total => Sent \in 0 .. Total - 1
        BY <1>2
      <4> QED BY <1>2, <4>1, WantedFacts, Basics DEF Inv
    <3>3. Sent + 0 = Sent /\ Taken' + 0 = Sent
      BY <1>2, <2>3
    <3> QED BY <3>1, <3>2, <3>3
  <2> QED BY <1>1, <1>2, <2>1, <2>3, <2>4, <2>5, <2>6, <2>7, ReadStarts
<1> QED BY <1>4, <1>5

\* blockcat61 and varblockcat61 start a round.
LEMMA BlockLoopStep == Inv /\ (BlockLoop \/ VarblockLoop) => Inv'
<1> SUFFICES ASSUME Inv, BlockLoop \/ VarblockLoop PROVE Inv'
  OBVIOUS
<1>1. PICK sz \in 1 .. run.block :
        /\ pc = "top" /\ run.prog \in {"block", "varblock"} /\ StartRead(sz)
        /\ UNCHANGED <<run, ret, left, pos, written, input, output>>
  <2>1. run.block \in 1 .. run.block
    <3>1. run.block \in Nat \ {0}
      BY Basics DEF Inv, RunType
    <3> QED BY <3>1
  <2> QED BY <2>1 DEF BlockLoop, VarblockLoop
<1>2. /\ Total \in Nat /\ Streams /\ InOrder /\ ~Knows /\ Sent \in Nat /\ Sent = Taken
      /\ run.block \in Nat
  BY <1>1, TopFacts, Basics DEF Streams, InOrder, Knows, Inv, RunType
<1>3. UNCHANGED <<ioff, ipipe, wopen, rbuf>> /\ UNCHANGED <<wbuf, ooff, opipe, ropen, out>>
  BY <1>1 DEF input, output
<1>4. Taken' = Taken
  BY <1>3 DEF Taken
<1>5. InputInv'
  BY <1>1, <1>3, <1>4 DEF Inv, InputInv
<1>6. Types'
  <2>1. /\ pc' = "read" /\ want' = sz /\ buf' = <<>> /\ nw' = 0 /\ buf' \in Seq(Nat)
        /\ Len(buf') <= want' /\ want' \in 0 .. run.block /\ nw' \in 0 .. Len(buf')
    BY <1>1, <1>2 DEF StartRead
  <2> QED BY <1>1, <1>3, <2>1 DEF Inv, Types, TypeOK
<1>7. \A i \in 0 .. sz - 1 : Sent + i < Total => Wanted[Sent + i] = Taken' + i
  <2> TAKE i \in 0 .. sz - 1
  <2> HAVE Sent + i < Total
  <2>1. Sent + i \in 0 .. Total - 1
    BY <1>1, <1>2
  <2> QED BY <1>2, <1>4, <2>1, WantedFacts, Basics DEF Inv
<1> QED BY <1>1, <1>2, <1>4, <1>5, <1>6, <1>7, ReadStarts DEF Knows

\* A seek of the input.
LEMMA SeekFacts ==
  ASSUME Inv, run.src = "file", run' = run, NEW o \in 0 .. run.size, SeekInput(o)
  PROVE  Taken' = o /\ InputInv' /\ ioff' = o /\ ipipe' = <<>> /\ wopen' = wopen /\ rbuf' = <<>>
<1>1. /\ ioff' = o /\ rbuf' = <<>> /\ ipipe' = ipipe /\ wopen' = wopen /\ o \in Nat
      /\ ipipe = <<>> /\ ~wopen
  BY DEF SeekInput, Inv, InputInv
<1>2. Len(ipipe') = 0 /\ Len(rbuf') = 0
  BY <1>1
<1>3. ioff' - Len(ipipe') = o /\ Taken' = o
  <2>1. \A m \in Nat : m - 0 = m /\ m - 0 - 0 = m
    OBVIOUS
  <2>2. Taken' = ioff' - Len(ipipe') - Len(rbuf')
    BY DEF Taken
  <2> QED BY <1>1, <1>2, <2>1, <2>2, Zenon
<1>4. Follows(ipipe', Counting, o) /\ Follows(rbuf', Counting, o)
  BY <1>1, FollowsEmpty
<1> QED BY <1>1, <1>3, <1>4 DEF InputInv

\* reverse61 seeks to the byte before the last one it read, or ends.
LEMMA ReverseLoopStep == Inv /\ ReverseLoop => Inv'
<1> SUFFICES ASSUME Inv, ReverseLoop PROVE Inv'
  OBVIOUS
<1>1. /\ pc = "top" /\ run.prog = "reverse" /\ UNCHANGED <<run, ret, pos, written, output>>
      /\ IF left = 0 THEN pc' = "close" /\ UNCHANGED <<left, buf, want, nw, input>>
         ELSE left' = left - 1 /\ SeekInput(left - 1) /\ StartRead(1)
  BY DEF ReverseLoop
<1>2. /\ Between /\ left \in Nat /\ Total \in Nat /\ Total = FileSize(run) /\ Total <= run.size
      /\ Streams /\ ~InOrder /\ Knows /\ Sent \in Nat /\ Sent <= Total /\ run.size \in Nat
  BY <1>1, TopFacts DEF Streams, InOrder, Knows
<1>3. left + Sent = FileSize(run)
  BY <1>1, <1>2 DEF Inv, CountInv
<1>4. CASE left = 0
  <2>1. Sent = Total
    BY <1>2, <1>3, <1>4
  <2> QED BY <1>1, <1>4, <2>1, CloseStarts
<1>5. CASE left # 0
  <2>1. /\ StartRead(1) /\ 1 \in 1 .. run.block /\ run.block = 1 /\ run.src = "file"
        /\ SeekInput(left - 1) /\ left' = left - 1
    BY <1>1, <1>5, Basics DEF Inv, RunType
  <2>2. left - 1 \in 0 .. run.size /\ left - 1 \in Nat /\ left - 1 <= SIZE_MAX
    <3>1. left <= SIZE_MAX /\ SIZE_MAX \in Nat
      BY SizeAssumption DEF Inv, Types, TypeOK
    <3> QED BY <1>2, <1>3, <1>5, <3>1
  <2>3. Taken' = left - 1 /\ InputInv' /\ ioff' = left - 1 /\ ipipe' = <<>> /\ wopen' = wopen /\ rbuf' = <<>>
    BY <1>1, <2>1, <2>2, SeekFacts
  <2>4. UNCHANGED <<wbuf, ooff, opipe, ropen, out>>
    BY <1>1 DEF output
  <2>5. Types'
    <3>1. /\ pc' = "read" /\ want' = 1 /\ buf' = <<>> /\ nw' = 0 /\ buf' \in Seq(Nat)
          /\ Len(buf') <= want' /\ want' \in 0 .. run.block /\ nw' \in 0 .. Len(buf')
      BY <2>1 DEF StartRead
    <3>2. left' \in 0 .. SIZE_MAX /\ left' \in Nat
      BY <2>1, <2>2, SizeAssumption
    <3>3. /\ ioff' \in 0 .. run.size /\ ioff' \in Nat /\ ipipe' \in Seq(Nat) /\ rbuf' \in Seq(Nat)
          /\ Len(ipipe') <= PIPE_SIZE /\ Len(rbuf') <= BUFSIZ
      BY <2>2, <2>3, SizeAssumption
    <3> QED BY <1>1, <2>3, <2>4, <3>1, <3>2, <3>3 DEF Inv, Types, TypeOK
  <2>6. Sent + 1 <= FileSize(run) /\ Sent \in 0 .. Total - 1 /\ Taken' + 1 <= run.size
        /\ Total - 1 - Sent = left - 1
    BY <1>2, <1>3, <1>5, <2>2, <2>3
  <2>7. \A i \in 0 .. 1 - 1 : Sent + i < Total => Wanted[Sent + i] = Taken' + i
    <3>1. \A i \in 0 .. 1 - 1 : i = 0
      OBVIOUS
    <3>2. Wanted[Sent] = Total - 1 - Sent
      BY <1>1, <2>6, WantedFacts, Basics DEF Inv
    <3>3. Sent + 0 = Sent /\ Taken' + 0 = left - 1
      BY <1>2, <2>2, <2>3
    <3> QED BY <2>6, <3>1, <3>2, <3>3
  <2>8. left' = IF Knows /\ run.prog # "stride" THEN left - 1 ELSE left
    BY <1>1, <1>2, <2>1
  <2> QED BY <1>1, <1>2, <2>1, <2>3, <2>5, <2>6, <2>7, <2>8, ReadStarts
<1> QED BY <1>4, <1>5

\* reversewrite61 reads the next byte, or ends.
LEMMA ReversewriteLoopStep == Inv /\ ReversewriteLoop => Inv'
<1> SUFFICES ASSUME Inv, ReversewriteLoop PROVE Inv'
  OBVIOUS
<1>1. /\ pc = "top" /\ run.prog = "reversewrite" /\ UNCHANGED <<run, ret, pos, written, input, output>>
      /\ IF left = 0 THEN pc' = "close" /\ UNCHANGED <<left, buf, want, nw>>
         ELSE left' = left - 1 /\ StartRead(1)
  BY DEF ReversewriteLoop
<1>2. /\ Between /\ left \in Nat /\ Total \in Nat /\ Total = FileSize(run) /\ Total <= run.size
      /\ ~Streams /\ ~InOrder /\ Knows /\ Taken \in Nat /\ run.size \in Nat
  BY <1>1, TopFacts DEF Streams, InOrder, Knows
<1>3. left + Taken = FileSize(run)
  BY <1>1, <1>2 DEF Inv, CountInv
<1>4. CASE left = 0
  BY <1>1, <1>2, <1>4, CloseStarts
<1>5. CASE left # 0
  <2>1. /\ StartRead(1) /\ 1 \in 1 .. run.block /\ run.block = 1 /\ left' = left - 1
    BY <1>1, <1>5, Basics DEF Inv, RunType
  <2>2. left - 1 \in Nat /\ left - 1 <= SIZE_MAX
    <3>1. left <= SIZE_MAX /\ SIZE_MAX \in Nat
      BY SizeAssumption DEF Inv, Types, TypeOK
    <3> QED BY <1>2, <1>5, <3>1
  <2>3. UNCHANGED <<ioff, ipipe, wopen, rbuf>> /\ UNCHANGED <<wbuf, ooff, opipe, ropen, out>>
    BY <1>1 DEF input, output
  <2>4. Taken' = Taken
    BY <2>3 DEF Taken
  <2>5. InputInv'
    BY <1>1, <2>3, <2>4 DEF Inv, InputInv
  <2>6. Types'
    <3>1. /\ pc' = "read" /\ want' = 1 /\ buf' = <<>> /\ nw' = 0 /\ buf' \in Seq(Nat)
          /\ Len(buf') <= want' /\ want' \in 0 .. run.block /\ nw' \in 0 .. Len(buf')
      BY <2>1 DEF StartRead
    <3>2. left' \in 0 .. SIZE_MAX /\ left' \in Nat
      BY <2>1, <2>2, SizeAssumption
    <3> QED BY <1>1, <2>3, <3>1, <3>2 DEF Inv, Types, TypeOK
  <2>7. Taken' + 1 <= run.size
    BY <1>2, <1>3, <1>5, <2>4
  <2>8. left' = IF Knows /\ run.prog # "stride" THEN left - 1 ELSE left
    BY <1>1, <1>2, <2>1
  <2> QED BY <1>1, <1>2, <2>1, <2>4, <2>5, <2>6, <2>7, <2>8, ReadStarts
<1> QED BY <1>4, <1>5

\* stridecat61 seeks to the next block of its column, or ends.
LEMMA StrideLoopStep == Inv /\ StrideLoop => Inv'
<1> SUFFICES ASSUME Inv, StrideLoop PROVE Inv'
  OBVIOUS
<1>1. /\ pc = "top" /\ run.prog = "stride" /\ UNCHANGED <<run, ret, left, pos, written, output>>
      /\ IF written >= left THEN pc' = "close" /\ UNCHANGED <<buf, want, nw, input>>
         ELSE /\ SeekInput(pos)
              /\ StartRead(IF pos + run.block > left THEN left - pos ELSE run.block)
  BY DEF StrideLoop
<1>2. /\ Between /\ Total \in Nat /\ Total = FileSize(run) /\ Total <= run.size
      /\ Streams /\ ~InOrder /\ Knows /\ Sent \in Nat /\ Sent <= Total /\ run.size \in Nat
  BY <1>1, TopFacts DEF Streams, InOrder, Knows
<1>3. left = Total /\ Sent = written /\ (StrideAt \/ written = Total) /\ pos \in Nat
      /\ run \in CommandLines
  BY <1>1, <1>2, Basics DEF Inv, CountInv, Types
<1>4. CASE written >= left
  <2>1. Sent = Total
    BY <1>2, <1>3, <1>4
  <2> QED BY <1>1, <1>4, <2>1, CloseStarts
<1>5. CASE ~(written >= left)
  <2>1. StrideAt /\ pos \in 0 .. Total - 1 /\ pos % run.block = 0 /\ Sent = Rank(pos)
    <3>1. StrideAt
      BY <1>2, <1>3, <1>5
    <3> QED BY <1>2, <1>3, <3>1 DEF StrideAt
  <2>2. /\ StrideSize(pos) \in 1 .. run.block /\ pos + StrideSize(pos) <= Total
        /\ \A i \in 0 .. StrideSize(pos) - 1 : Wanted[Rank(pos) + i] = pos + i
        /\ Rank(pos) + StrideSize(pos) <= Total
    BY <1>1, <1>3, <2>1, StrideRead
  <2>3. PICK sz : sz = StrideSize(pos)
    OBVIOUS
  <2>4. StartRead(sz) /\ SeekInput(pos) /\ sz \in 1 .. run.block /\ run.src = "file" /\ run.block \in Nat
    <3>1. SeekInput(pos) /\ StartRead(IF pos + run.block > left THEN left - pos ELSE run.block)
      BY <1>1, <1>5
    <3>2. sz = IF pos + run.block > left THEN left - pos ELSE run.block
      BY <1>3, <2>3 DEF StrideSize
    <3>3. run.src = "file" /\ run.block \in Nat
      BY <1>1, Basics DEF Inv, RunType
    <3> QED BY <2>2, <2>3, <3>1, <3>2, <3>3
  <2>5. pos \in 0 .. run.size
    BY <1>2, <2>1
  <2>6. Taken' = pos /\ InputInv' /\ ioff' = pos /\ ipipe' = <<>> /\ wopen' = wopen /\ rbuf' = <<>>
    BY <1>1, <2>4, <2>5, SeekFacts
  <2>7. UNCHANGED <<wbuf, ooff, opipe, ropen, out>>
    BY <1>1 DEF output
  <2>8. Types'
    <3>1. /\ pc' = "read" /\ want' = sz /\ buf' = <<>> /\ nw' = 0 /\ buf' \in Seq(Nat) /\ want' \in Nat
          /\ Len(buf') <= want' /\ want' \in 0 .. run.block /\ nw' \in 0 .. Len(buf')
      BY <2>4 DEF StartRead
    <3>2. /\ ioff' \in 0 .. run.size /\ ioff' \in Nat /\ ipipe' \in Seq(Nat) /\ rbuf' \in Seq(Nat)
          /\ Len(ipipe') <= PIPE_SIZE /\ Len(rbuf') <= BUFSIZ
      BY <1>3, <2>5, <2>6, SizeAssumption
    <3> QED BY <1>1, <2>6, <2>7, <3>1, <3>2 DEF Inv, Types, TypeOK
  <2>9. /\ Sent + sz <= FileSize(run) /\ Taken' + sz <= run.size
        /\ \A i \in 0 .. sz - 1 : Wanted[Sent + i] = Taken' + i
    BY <1>2, <2>1, <2>2, <2>3, <2>4, <2>5, <2>6
  <2>10. left' = IF Knows /\ run.prog # "stride" THEN left - 1 ELSE left
    BY <1>1
  <2> QED BY <1>1, <1>2, <2>1, <2>3, <2>4, <2>6, <2>8, <2>9, <2>10, ReadStarts
<1> QED BY <1>4, <1>5

\* reversewrite61 seeks in the output, once its buffer is empty.
LEMMA ReversewriteSeekStep == Inv /\ ReversewriteSeek => Inv'
<1> SUFFICES ASSUME Inv, ReversewriteSeek PROVE Inv'
  OBVIOUS
<1>1. /\ pc = "seek"
      /\ \/ wbuf # <<>> /\ pc' = "flush" /\ ret' = "seek" /\ ooff' = ooff
         \/ wbuf = <<>> /\ pc' = "write" /\ ret' = ret /\ ooff' = left
      /\ UNCHANGED <<run, left, pos, written, buf, want, nw, input>>
      /\ UNCHANGED <<wbuf, opipe, ropen, out>>
  BY DEF ReversewriteSeek, FlushThen
<1>2. /\ Holding /\ ~Reading /\ Holding' /\ ~Reading' /\ ~Between' /\ ~Ending' /\ At("seek")
      /\ (At("write")' => pc' = "write")
  BY <1>1 DEF Holding, Reading, Between, Ending, At
<1>3. ~Streams
  BY <1>2 DEF Inv, BlockInv
<1>4. Total' = Total /\ Wanted' = Wanted /\ Streams' = Streams
  BY <1>1, Fixed
<1>5. Stays
  BY <1>1, <1>2, <1>3 DEF Stays
<1>6. UNCHANGED <<ioff, ipipe, wopen, rbuf>>
  BY <1>1 DEF input
<1>7. Types'
  <2>1. ooff' \in Nat
    BY <1>1 DEF Inv, Types
  <2>2. pc' \in {"flush", "write"} /\ ret' \in {"top", "write", "seek", "close"}
    BY <1>1 DEF Inv, Types, TypeOK
  <2>3. UNCHANGED <<run, left, pos, written, buf, want, nw, wbuf, opipe, ropen, out>>
    BY <1>1
  <2> QED BY <1>6, <2>1, <2>2, <2>3 DEF Inv, Types, TypeOK
<1>8. OutputInv' /\ StreamInv'
  BY <1>1, <1>3, <1>4 DEF Inv, OutputInv, StreamInv
<1>9. BackInv'
  <2>1. Accepted' = Accepted
    BY <1>1, <1>2 DEF Accepted
  <2>2. pc' \notin {"abort", "killed"} /\ pc \notin {"abort", "killed"}
    BY <1>1
  <2>3. (pc' = "flush" => wbuf' # <<>>) /\ (At("write")' => pc' = "write" /\ wbuf' = <<>> /\ ooff' = left')
    BY <1>1, <1>2
  <2>4. wbuf' # <<>> => wbuf # <<>> /\ ooff' = ooff
    BY <1>1
  <2>5. UNCHANGED <<left, buf, wbuf, out>>
    BY <1>1
  <2> QED BY <1>2, <1>3, <1>4, <2>1, <2>2, <2>3, <2>4, <2>5 DEF Inv, BackInv
<1> QED BY <1>5, <1>7, <1>8, <1>9, StaysStep

\* The files are closed, once the buffer is empty.
LEMMA CloseStep == Inv /\ Close => Inv'
<1> SUFFICES ASSUME Inv, Close PROVE Inv'
  OBVIOUS
<1>1. /\ pc = "close"
      /\ \/ wbuf # <<>> /\ pc' = "flush" /\ ret' = "close"
         \/ wbuf = <<>> /\ pc' = "exit" /\ ret' = ret
      /\ UNCHANGED <<run, left, pos, written, buf, want, nw, input>>
      /\ UNCHANGED output
  BY DEF Close, FlushThen
<1>2. /\ ~Holding /\ ~Reading /\ ~Holding' /\ ~Reading' /\ ~Between' /\ Ending /\ ~At("seek")'
      /\ ~At("write")'
  BY <1>1 DEF Holding, Reading, Between, Ending, At
<1>3. UNCHANGED <<wbuf, ooff, opipe, ropen, out>> /\ UNCHANGED <<ioff, ipipe, wopen, rbuf>>
  BY <1>1 DEF input, output
<1>4. Total' = Total /\ Wanted' = Wanted /\ Streams' = Streams
  BY <1>1, Fixed
<1>5. Sent' = Sent /\ Place' = Place /\ Stored' = Stored
  BY <1>1, <1>3 DEF Sent, Place, Stored
<1>6. Stays
  BY <1>1, <1>2, <1>5 DEF Stays
<1>7. Types'
  <2>1. pc' \in {"flush", "exit"} /\ ret' \in {"top", "write", "seek", "close"}
    BY <1>1 DEF Inv, Types, TypeOK
  <2>2. UNCHANGED <<run, left, pos, written, buf, want, nw>>
    BY <1>1
  <2> QED BY <1>3, <2>1, <2>2 DEF Inv, Types, TypeOK
<1>8. OutputInv' /\ StreamInv'
  BY <1>1, <1>3, <1>4, <1>5 DEF Inv, OutputInv, StreamInv
<1>9. BackInv'
  <2>1. Accepted' = Accepted
    BY <1>1, <1>2 DEF Accepted
  <2>2. pc \notin {"abort", "killed"} /\ (pc' = "flush" => wbuf' # <<>>)
    BY <1>1, <1>3
  <2>3. UNCHANGED <<left, buf>>
    BY <1>1
  <2> QED BY <1>2, <1>3, <1>4, <2>1, <2>2, <2>3 DEF Inv, BackInv
<1> QED BY <1>6, <1>7, <1>8, <1>9, StaysStep

\* The numbers of a round that ends.
LEMMA AfterFacts ==
  ASSUME Inv, After
  PROVE  /\ left' \in Nat /\ left' <= SIZE_MAX /\ pos' \in Nat /\ written' \in 0 .. run.size
         /\ run.prog = "cat" => left' + Sent = FileSize(run)
         /\ run.prog # "cat" => left' = left
         /\ run.prog = "stride" =>
              /\ Sent = written'
              /\ written' = Total \/ (pos' < Total /\ pos' % run.block = 0 /\ written' = Rank(pos'))
         /\ run.prog # "stride" => pos' = 0 /\ written' = 0
<1>1. /\ pc = "after" /\ left' = IF run.prog = "cat" THEN left - 1 ELSE left
      /\ run.prog = "stride" => written' = written + nw /\ pos' = NextPos(pos + run.stride)
      /\ run.prog # "stride" => written' = written /\ pos' = pos
  BY DEF After
<1>2. /\ nw = Len(buf) /\ Len(buf) > 0 /\ Len(buf) \in Nat /\ (Knows => Len(buf) = want)
  BY <1>1, Basics DEF Inv, BlockInv
<1>3. /\ left \in Nat /\ left <= SIZE_MAX /\ SIZE_MAX \in Nat /\ written \in 0 .. run.size /\ pos \in Nat
      /\ run.size \in Nat /\ run \in CommandLines /\ Len(buf) <= want /\ want <= run.block /\ want \in Nat
      /\ Len(opipe) \in Nat /\ Len(wbuf) \in Nat
  BY SizeAssumption, Basics DEF Inv, Types, TypeOK, RunType
<1>4. /\ Total \in Nat /\ FileSize(run) \in Nat /\ Total <= FileSize(run) /\ Total <= run.size
  <2>1. /\ Total \in Nat /\ FileSize(run) \in Nat
        /\ Total = IF FileSize(run) <= run.size THEN FileSize(run) ELSE run.size
    BY <1>3, TotalFacts
  <2> QED BY <1>3, <2>1
<1>5. ASSUME Streams PROVE Place \in Nat /\ Place + Len(buf) <= Total /\ Sent = Place + Len(buf)
  <2>1. Place \in Nat /\ Place + Len(buf) <= Total /\ Stored \in Nat
    BY <1>5 DEF Inv, StreamInv, Follows
  <2>2. Sent \in Nat
    BY <1>3, <2>1 DEF Sent
  <2>3. Place = Sent - Len(buf)
    BY <1>2 DEF Place
  <2> QED BY <1>2, <2>1, <2>2, <2>3
<1>6. CASE run.prog = "cat"
  <2>1. Streams /\ left + Place = FileSize(run) /\ run.block = 1
    BY <1>1, <1>6, Basics DEF Inv, CountInv, Streams, RunType
  <2>2. Len(buf) = 1
    BY <1>2, <1>3, <2>1
  <2>3. left - 1 \in Nat /\ left - 1 <= SIZE_MAX /\ left - 1 + Sent = FileSize(run)
    BY <1>2, <1>3, <1>4, <1>5, <2>1, <2>2
  <2>4. pos = 0 /\ written = 0
    BY <1>6 DEF Inv, CountInv
  <2> QED BY <1>1, <1>3, <1>6, <2>3, <2>4
<1>7. CASE run.prog = "stride"
  <2>1. Streams /\ Knows /\ left = Total /\ Place = written /\ StrideAt /\ want = StrideSize(pos)
    BY <1>1, <1>7 DEF Inv, CountInv, Streams, Knows
  <2>2. pos < Total /\ pos % run.block = 0 /\ written = Rank(pos) /\ pos \in 0 .. Total - 1
    BY <1>3, <1>4, <2>1 DEF StrideAt
  <2>3. PICK n : n = NextPos(pos + run.stride)
    OBVIOUS
  <2>4. /\ n \in Nat
        /\ \/ Rank(pos) + StrideSize(pos) = Total
           \/ n < Total /\ n % run.block = 0 /\ Rank(n) = Rank(pos) + StrideSize(pos)
    BY <1>3, <1>7, <2>1, <2>2, <2>3, StrideNext
  <2>5. written' = Rank(pos) + StrideSize(pos) /\ pos' = n /\ left' = left
    BY <1>1, <1>2, <1>7, <2>1, <2>2, <2>3
  <2>6. written' = Sent /\ written' \in 0 .. run.size
    BY <1>1, <1>2, <1>3, <1>4, <1>5, <1>7, <2>1
  <2> QED BY <1>3, <1>7, <2>4, <2>5, <2>6
<1>8. CASE run.prog \notin {"cat", "stride"}
  <2>1. pos = 0 /\ written = 0
    BY <1>8 DEF Inv, CountInv
  <2> QED BY <1>1, <1>3, <1>8, <2>1
<1> QED BY <1>6, <1>7, <1>8

\* A round ends.
LEMMA AfterStep == Inv /\ After => Inv'
<1> SUFFICES ASSUME Inv, After PROVE Inv'
  OBVIOUS
<1>1. /\ pc = "after" /\ UNCHANGED <<run, buf, want, nw, input, output>>
      /\ \/ wbuf # <<>> /\ pc' = "flush" /\ ret' = "top"
         \/ pc' = "top" /\ ret' = ret
  BY DEF After, FlushThen
<1>2. /\ left' \in Nat /\ left' <= SIZE_MAX /\ pos' \in Nat /\ written' \in 0 .. run.size
      /\ run.prog = "cat" => left' + Sent = FileSize(run)
      /\ run.prog # "cat" => left' = left
      /\ run.prog = "stride" =>
           /\ Sent = written'
           /\ written' = Total \/ (pos' < Total /\ pos' % run.block = 0 /\ written' = Rank(pos'))
      /\ run.prog # "stride" => pos' = 0 /\ written' = 0
  BY AfterFacts
<1>3. /\ ~Holding /\ ~Reading /\ ~Holding' /\ ~Reading' /\ Between' /\ ~Ending' /\ ~At("seek")'
      /\ ~At("write")' /\ pc' # "after" /\ pc' # "abort"
  BY <1>1 DEF Holding, Reading, Between, Ending, At
<1>4. /\ Total' = Total /\ Wanted' = Wanted /\ FileSize(run)' = FileSize(run)
      /\ Streams' = Streams /\ Knows' = Knows /\ InOrder' = InOrder
  BY <1>1, Fixed
<1>5. UNCHANGED <<ioff, ipipe, wopen, rbuf>> /\ UNCHANGED <<wbuf, ooff, opipe, ropen, out>>
      /\ UNCHANGED <<run, buf, want, nw>>
  BY <1>1 DEF input, output
<1>6. Taken' = Taken /\ From' = From /\ Sent' = Sent /\ Place' = Place /\ Stored' = Stored
  BY <1>5 DEF Taken, From, Sent, Place, Stored
<1>7. Types'
  <2>1. pc' \in {"flush", "top"} /\ ret' \in {"top", "write", "seek", "close"}
    BY <1>1 DEF Inv, Types, TypeOK
  <2>2. left' \in 0 .. SIZE_MAX /\ written' \in Nat
    <3>1. run.size \in Nat
      BY Basics DEF Inv, RunType
    <3> QED BY <1>2, <3>1, SizeAssumption
  <2> QED BY <1>2, <1>5, <2>1, <2>2 DEF Inv, Types, TypeOK
<1>8. InputInv' /\ OutputInv' /\ StreamInv'
  BY <1>4, <1>5, <1>6 DEF Inv, InputInv, OutputInv, StreamInv
<1>9. BackInv'
  <2> SUFFICES ASSUME ~Streams PROVE BackInv'
    BY <1>4 DEF BackInv
  <2>1. left' = left
    BY <1>2 DEF Streams
  <2>2. Accepted' = Accepted
    BY <1>3, <2>1 DEF Accepted
  <2>3. pc \notin {"abort", "killed"} /\ (pc' = "flush" => wbuf' # <<>>)
    BY <1>1, <1>5
  <2> QED BY <1>3, <1>4, <1>5, <2>2, <2>3 DEF Inv, BackInv
<1>10. ReadInv' /\ EndInv' /\ AssertionsHold'
  BY <1>3 DEF ReadInv, EndInv, AssertionsHold
<1>11. BlockInv'
  <2>1. nw' = Len(buf')
    BY <1>1, <1>5 DEF Inv, BlockInv
  <2> QED BY <1>3, <2>1 DEF BlockInv
<1>12. CountInv'
  <2>1. InOrder => Place' = From'
    BY <1>6 DEF Inv, CountInv
  <2>2. run.prog = "reverse" => left' + Sent' = FileSize(run)
    BY <1>1, <1>2, <1>6 DEF Inv, CountInv
  <2>3. run.prog = "reversewrite" => left' + Taken' = FileSize(run)
    BY <1>1, <1>2, <1>6 DEF Inv, CountInv
  <2>4. run.prog = "stride" =>
          /\ left' = Total /\ Sent' = written' /\ (StrideAt' \/ written' = Total)
    <3>1. Rank(pos)' = Rank(pos')
      BY <1>4, <1>5 DEF Rank
    <3>2. StrideAt' <=> pos' < Total /\ pos' % run.block = 0 /\ written' = Rank(pos')
      BY <1>4, <1>5, <3>1 DEF StrideAt
    <3>3. run.prog = "stride" => left = Total
      BY DEF Inv, CountInv
    <3> QED BY <1>2, <1>6, <3>2, <3>3
  <2>5. run.prog = "cat" => left' + Sent' = FileSize(run)
    BY <1>2, <1>6
  <2> QED BY <1>2, <1>3, <1>4, <1>5, <2>1, <2>2, <2>3, <2>4, <2>5 DEF CountInv
<1> QED BY <1>7, <1>8, <1>9, <1>10, <1>11, <1>12 DEF Inv

-----------------------------------------------------------------------------
(* The invariant holds.                                                    *)

\* The invariant holds at the start.
LEMMA InitInv == Init => Inv
<1> SUFFICES ASSUME Init PROVE Inv
  OBVIOUS
<1>1. /\ run \in CommandLines /\ pc = "top" /\ ret = "top" /\ left = FileSize(run)
      /\ pos = 0 /\ written = 0 /\ buf = <<>> /\ want = 0 /\ nw = 0
      /\ ioff = 0 /\ ipipe = <<>> /\ wopen = (run.src = "pipe") /\ rbuf = <<>>
      /\ wbuf = <<>> /\ ooff = 0 /\ opipe = <<>> /\ ropen = (run.dst = "pipe") /\ out = <<>>
  BY DEF Init
<1>2. RunType(run)
  BY <1>1, RunFacts
<1>3. /\ FileSize(run) \in Nat /\ FileSize(run) <= SIZE_MAX /\ Total \in Nat
      /\ (Knows => Total = FileSize(run))
  BY <1>1, TotalFacts
<1>4. Len(<<>>) = 0 /\ DOMAIN out = {} /\ Cardinality({}) = 0
  BY <1>1, FS_EmptySet
<1>5. Stored = 0 /\ Sent = 0 /\ Place = 0 /\ Taken = 0 /\ From = 0
  <2>1. 0 + 0 + 0 = 0 /\ 0 - 0 = 0 /\ 0 - 0 - 0 = 0
    OBVIOUS
  <2>2. Stored = 0
    BY <1>4 DEF Stored
  <2>3. Sent = 0
    BY <1>1, <1>4, <2>1, <2>2, Zenon DEF Sent
  <2>4. Taken = 0
    BY <1>1, <1>4, <2>1, Zenon DEF Taken
  <2> QED BY <1>1, <1>4, <2>1, <2>2, <2>3, <2>4, Zenon DEF Place, From
<1>6. /\ Between /\ ~Reading /\ ~Holding /\ ~Ending /\ ~At("seek") /\ ~At("write")
      /\ pc # "after" /\ pc # "flush" /\ pc # "abort" /\ pc # "killed"
  BY <1>1 DEF Between, Reading, Holding, Ending, At
<1>7. Types
  <2>1. /\ left \in 0 .. SIZE_MAX /\ left \in Nat
    BY <1>1, <1>3, SizeAssumption
  <2>2. /\ written \in 0 .. run.size /\ ioff \in 0 .. run.size /\ want \in 0 .. run.block
        /\ nw \in 0 .. Len(buf) /\ Len(buf) <= want
    BY <1>1, <1>2, <1>4 DEF RunType
  <2>3. /\ Len(ipipe) <= PIPE_SIZE /\ Len(opipe) <= PIPE_SIZE /\ Len(rbuf) <= BUFSIZ
        /\ Len(wbuf) <= BUFSIZ
    BY <1>1, <1>4, SizeAssumption
  <2>4. {buf, ipipe, rbuf, wbuf, opipe} \subseteq Seq(Nat)
    BY <1>1
  <2>5. {left, pos, written, want, nw, ioff, ooff} \subseteq Nat
    BY <1>1, <2>1
  <2>6. wopen \in BOOLEAN /\ ropen \in BOOLEAN
    BY <1>1
  <2>7. TypeOK
    BY <1>1, <2>1, <2>2, <2>3, <2>5, <2>6 DEF TypeOK
  <2> QED BY <2>4, <2>5, <2>7 DEF Types
<1>8. InputInv
  <2>1. Follows(ipipe, Counting, 0) /\ Follows(rbuf, Counting, 0)
    BY <1>1, FollowsEmpty
  <2>4. ioff - Len(ipipe) = 0
    <3>1. 0 - 0 = 0
      OBVIOUS
    <3> QED BY <1>1, <1>4, <3>1, Zenon
  <2>2. run.src = "file" => ~wopen
    BY <1>1
  <2>3. run.src = "pipe" => wopen
    BY <1>1
  <2> QED BY <1>1, <1>5, <2>1, <2>2, <2>3, <2>4 DEF InputInv
<1>9. OutputInv
  <2>1. out = [o \in DOMAIN out |-> Wanted[o]]
    BY <1>1, <1>4
  <2> QED BY <1>1, <1>4, <2>1 DEF OutputInv
<1>10. StreamInv
  <2>1. DOMAIN out = 0 .. 0 - 1
    BY <1>4
  <2>2. Follows(opipe, Wanted, 0) /\ Follows(wbuf, Wanted, 0) /\ Follows(buf, Wanted, 0)
    BY <1>1, FollowsEmpty
  <2>3. Stored + Len(opipe) = 0 /\ Place + Len(buf) <= Total
    BY <1>1, <1>3, <1>4, <1>5
  <2> QED BY <1>1, <1>5, <2>1, <2>2, <2>3 DEF StreamInv
<1>11. BackInv
  <2> SUFFICES ASSUME ~Streams PROVE BackInv
    BY DEF BackInv
  <2>1. Accepted = Total
    BY <1>1, <1>3, <1>6 DEF Accepted, Streams, Knows
  <2>2. {} = Total + Len(wbuf) .. Total - 1
    BY <1>1, <1>3, <1>4
  <2>3. Len(wbuf) <= 1 /\ Len(buf) <= 1 /\ Total <= Total
    BY <1>1, <1>3, <1>4
  <2> QED BY <1>1, <1>4, <1>6, <2>1, <2>2, <2>3 DEF BackInv
<1>12. ReadInv /\ BlockInv /\ EndInv /\ AssertionsHold
  BY <1>1, <1>4, <1>6 DEF ReadInv, BlockInv, EndInv, AssertionsHold
<1>13. CountInv
  <2>1. left + Sent = FileSize(run) /\ left + Taken = FileSize(run)
    BY <1>1, <1>3, <1>5
  <2>2. run.prog = "stride" => left = Total /\ (StrideAt \/ written = Total)
    <3> SUFFICES ASSUME run.prog = "stride" PROVE left = Total /\ (StrideAt \/ written = Total)
      OBVIOUS
    <3>1. Rank(0) = 0 /\ 0 % run.block = 0
      BY <1>1, StrideFirst
    <3> QED BY <1>1, <1>3, <3>1 DEF Knows, StrideAt
  <2> QED BY <1>1, <1>5, <1>6, <2>1, <2>2 DEF CountInv
<1> QED BY <1>7, <1>8, <1>9, <1>10, <1>11, <1>12, <1>13 DEF Inv

\* No step violates the invariant.
LEMMA NextInv == Inv /\ [Next]_vars => Inv'
BY ReadByteStep, ReadCallStep, ReadBufferStep, FillBufferStep, ReadInterruptedStep,
   WriteByteStep, WriteCallStep, WriteBufferStep, FlushStep, WriteEndsStep, CatLoopStep,
   BlockLoopStep, ReverseLoopStep, StrideLoopStep, ReversewriteLoopStep,
   ReversewriteSeekStep, AfterStep, CloseStep, UpstreamStep, DownstreamStep, StillStep
   DEF Next, Program, Done

\* The invariant holds always.
LEMMA Invariance == Spec => []Inv
<1>1. Init => Inv
  BY InitInv
<1>2. Inv /\ [Next]_vars => Inv'
  BY NextInv
<1> QED BY <1>1, <1>2, PTL DEF Spec

-----------------------------------------------------------------------------
(* The bytes on their way.                                                 *)

\* The input is all of its bytes, from its first one on.
LEMMA InputFollows == run.size \in Nat => Follows(Input, Counting, 0) /\ Len(Input) = run.size
<1> SUFFICES ASSUME run.size \in Nat PROVE Follows(Input, Counting, 0) /\ Len(Input) = run.size
  OBVIOUS
<1>1. Input = [i \in 1 .. run.size |-> i - 1]
  BY DEF Input
<1>2. \A i \in 1 .. run.size : i - 1 \in Nat
  OBVIOUS
<1>3. Input \in Seq(Nat) /\ Len(Input) = run.size
  BY <1>1, <1>2
<1>4. \A i \in 1 .. run.size : 0 + i - 1 \in Nat /\ Input[i] = 0 + i - 1
  BY <1>1
<1> QED BY <1>3, <1>4 DEF Follows, Counting

\* In a copy in order, the bytes for a place of the output are those of that place of
\* the input.
LEMMA FollowsInput ==
  ASSUME run \in CommandLines, InOrder, NEW s, NEW n, Follows(s, Wanted, n)
  PROVE  Follows(s, Counting, n)
<1>1. /\ s \in Seq(Nat) /\ n \in Nat /\ Len(s) \in Nat /\ Total \in Nat
      /\ \A i \in 1 .. Len(s) : n + i - 1 \in DOMAIN Wanted /\ s[i] = Wanted[n + i - 1]
  BY TotalFacts DEF Follows
<1>2. ASSUME NEW i \in 1 .. Len(s) PROVE n + i - 1 \in Nat /\ s[i] = n + i - 1
  <2>1. n + i - 1 \in Nat /\ n + i - 1 \in 0 .. Total - 1
    BY <1>1, WantedFacts
  <2> QED BY <1>1, <2>1, WantedFacts
<1> QED BY <1>1, <1>2 DEF Follows, Counting

\* A sequence that has all of the input is the input.
LEMMA AllOfInput ==
  ASSUME NEW s, Follows(s, Counting, 0), run.size \in Nat, Len(s) = run.size
  PROVE  s = Input
<1>1. s \in Seq(Nat) /\ \A i \in 1 .. Len(s) : s[i] = 0 + i - 1
  BY FollowsCounting
<1>2. Input \in Seq(Nat) /\ Len(Input) = run.size /\ \A i \in 1 .. Len(Input) : Input[i] = 0 + i - 1
  BY InputFollows, FollowsCounting DEF Follows
<1> QED BY <1>1, <1>2, SeqEqual

\* The pieces between the output and the input, joined, are the input.
LEMMA InFlight == Inv => NothingLostInFlight
<1> SUFFICES ASSUME Inv, InOrder PROVE NothingLostInFlight
  BY DEF NothingLostInFlight, InOrder
<1> DEFINE a == [i \in 1 .. Stored |-> out[i - 1]]
           r == SubSeq(buf, nw + 1, Len(buf))
           t == SubSeq(Input, ioff + 1, run.size)
<1>1. /\ Streams /\ run \in CommandLines /\ run.size \in Nat /\ ioff \in 0 .. run.size
      /\ nw \in 0 .. Len(buf) /\ Len(buf) \in Nat /\ Len(rbuf) \in Nat /\ Len(ipipe) \in Nat
      /\ Len(opipe) \in Nat /\ Len(wbuf) \in Nat /\ Stored \in Nat /\ ioff \in Nat
  BY Basics DEF Inv, Types, TypeOK, InOrder, Streams, StreamInv, RunType
<1>2. Follows(a, Counting, 0) /\ Len(a) = Stored
  <2>1. DOMAIN out = 0 .. Stored - 1 /\ DOMAIN out \subseteq 0 .. Total - 1
        /\ out = [o \in DOMAIN out |-> Wanted[o]]
    BY <1>1 DEF Inv, StreamInv, OutputInv
  <2>2. ASSUME NEW i \in 1 .. Stored PROVE out[i - 1] = i - 1 /\ i - 1 \in Nat
    <3>1. i - 1 \in DOMAIN out /\ i - 1 \in Nat
      BY <1>1, <2>1
    <3>2. out[i - 1] = Wanted[i - 1]
      BY <2>1, <3>1
    <3> QED BY <1>1, <2>1, <3>1, <3>2, WantedFacts
  <2>3. a \in Seq(Nat) /\ Len(a) = Stored
    BY <1>1, <2>2
  <2>4. \A i \in 1 .. Stored : 0 + i - 1 \in Nat /\ a[i] = 0 + i - 1
    BY <1>1, <2>2
  <2> QED BY <2>3, <2>4 DEF Follows, Counting
<1>3. Follows(opipe, Counting, Stored) /\ Follows(wbuf, Counting, Stored + Len(opipe))
  BY <1>1, FollowsInput DEF Inv, StreamInv
<1>4. Follows(r, Counting, Sent) /\ Len(r) = Len(buf) - nw
  <2>1. Follows(buf, Counting, Place)
    BY <1>1, FollowsInput DEF Inv, StreamInv
  <2>2. Follows(r, Counting, Place + nw) /\ Len(r) = Len(buf) - nw
    BY <1>1, <2>1, FollowsSplit
  <2>3. Place + nw = Sent
    BY <1>1 DEF Place, Sent
  <2> QED BY <2>2, <2>3
<1>5. Sent + (Len(buf) - nw) = Taken /\ Taken \in Nat /\ Sent \in Nat
  <2>1. Place = From /\ Taken \in Nat
    BY DEF Inv, CountInv, InputInv, Follows
  <2>2. Sent \in Nat
    BY <1>1 DEF Sent
  <2>3. Sent - nw = Taken - Len(buf)
    BY <2>1 DEF Place, From
  <2> QED BY <1>1, <2>1, <2>2, <2>3
<1>6. Follows(rbuf, Counting, Taken) /\ Follows(ipipe, Counting, ioff - Len(ipipe))
      /\ Taken + Len(rbuf) = ioff - Len(ipipe)
  <2>1. Taken + Len(rbuf) = ioff - Len(ipipe)
    BY <1>1 DEF Taken
  <2> QED BY <2>1 DEF Inv, InputInv
<1>7. Follows(t, Counting, ioff) /\ Len(t) = run.size - ioff
  <2>1. Follows(Input, Counting, 0) /\ Len(Input) = run.size
    BY <1>1, InputFollows
  <2>2. Follows(SubSeq(Input, ioff + 1, Len(Input)), Counting, 0 + ioff)
        /\ Len(SubSeq(Input, ioff + 1, Len(Input))) = Len(Input) - ioff
    BY <1>1, <2>1, FollowsSplit
  <2>3. 0 + ioff = ioff
    BY <1>1
  <2> QED BY <2>1, <2>2, <2>3
<1> HIDE DEF a, r, t
<1>8. Follows(a \o opipe, Counting, 0) /\ Len(a \o opipe) = Stored + Len(opipe)
  <2>1. 0 + Len(a) = Stored
    BY <1>1, <1>2
  <2> QED BY <1>2, <1>3, <2>1, FollowsJoin
<1>9. Follows(a \o opipe \o wbuf, Counting, 0) /\ Len(a \o opipe \o wbuf) = Sent
  <2> DEFINE b == a \o opipe
  <2>1. 0 + Len(b) = Stored + Len(opipe)
    BY <1>1, <1>8
  <2>2. Follows(b, Counting, 0) /\ Len(b) = Stored + Len(opipe)
    BY <1>8
  <2> HIDE DEF b
  <2>3. Follows(b \o wbuf, Counting, 0) /\ Len(b \o wbuf) = Len(b) + Len(wbuf)
    BY <1>3, <2>1, <2>2, FollowsJoin
  <2> QED BY <2>2, <2>3 DEF b, Sent
<1>10. /\ Follows(a \o opipe \o wbuf \o r, Counting, 0)
       /\ Len(a \o opipe \o wbuf \o r) = Taken
  <2> DEFINE b == a \o opipe \o wbuf
  <2>1. Follows(b, Counting, 0) /\ Len(b) = Sent /\ 0 + Len(b) = Sent
    BY <1>5, <1>9
  <2> HIDE DEF b
  <2>2. Follows(b \o r, Counting, 0) /\ Len(b \o r) = Len(b) + Len(r)
    BY <1>4, <2>1, FollowsJoin
  <2>3. Len(b \o r) = Taken
    BY <1>4, <1>5, <2>1, <2>2
  <2> QED BY <2>2, <2>3 DEF b
<1>11. /\ Follows(a \o opipe \o wbuf \o r \o rbuf, Counting, 0)
       /\ Len(a \o opipe \o wbuf \o r \o rbuf) = ioff - Len(ipipe)
  <2> DEFINE b == a \o opipe \o wbuf \o r
  <2>1. Follows(b, Counting, 0) /\ Len(b) = Taken /\ 0 + Len(b) = Taken
    BY <1>5, <1>10
  <2> HIDE DEF b
  <2>2. Follows(b \o rbuf, Counting, 0) /\ Len(b \o rbuf) = Len(b) + Len(rbuf)
    BY <1>6, <2>1, FollowsJoin
  <2>3. Len(b \o rbuf) = ioff - Len(ipipe)
    BY <1>6, <2>1, <2>2
  <2> QED BY <2>2, <2>3 DEF b
<1>12. /\ Follows(a \o opipe \o wbuf \o r \o rbuf \o ipipe, Counting, 0)
       /\ Len(a \o opipe \o wbuf \o r \o rbuf \o ipipe) = ioff
  <2> DEFINE b == a \o opipe \o wbuf \o r \o rbuf
  <2>1. Follows(b, Counting, 0) /\ Len(b) = ioff - Len(ipipe) /\ 0 + Len(b) = ioff - Len(ipipe)
    BY <1>1, <1>11
  <2> HIDE DEF b
  <2>2. Follows(b \o ipipe, Counting, 0) /\ Len(b \o ipipe) = Len(b) + Len(ipipe)
    BY <1>6, <2>1, FollowsJoin
  <2>3. Len(b \o ipipe) = ioff
    BY <1>1, <2>1, <2>2
  <2> QED BY <2>2, <2>3 DEF b
<1>13. a \o opipe \o wbuf \o r \o rbuf \o ipipe \o t = Input
  <2> DEFINE b == a \o opipe \o wbuf \o r \o rbuf \o ipipe
  <2>1. Follows(b, Counting, 0) /\ Len(b) = ioff /\ 0 + Len(b) = ioff
    BY <1>1, <1>12
  <2> HIDE DEF b
  <2>2. Follows(b \o t, Counting, 0) /\ Len(b \o t) = Len(b) + Len(t)
    BY <1>7, <2>1, FollowsJoin
  <2>3. Len(b \o t) = run.size
    BY <1>1, <1>7, <2>1, <2>2
  <2>4. b \o t = Input
    BY <1>1, <2>2, <2>3, AllOfInput
  <2> QED BY <2>4 DEF b
<1> QED BY <1>13, Zenon DEF a, r, t, Stored, NothingLostInFlight

\* In every pipeline, with every library, block, stride, limit, pipe and buffer, the
\* bytes from the output's end to the input's are those of the input, in order, and no
\* assertion of a copy program fails unless the disk is full or an alarm came.
THEOREM BytesAreRight == Spec => []BytesRight
<1>1. Inv => BytesRight
  BY InFlight DEF Inv, Types, BytesRight
<1> QED BY <1>1, Invariance, PTL

-----------------------------------------------------------------------------
(* Short reads.                                                            *)

EndOfInput == ioff = run.size /\ ipipe = <<>> /\ rbuf = <<>> /\ ~wopen
ShortRead ==
  /\ pc = "read" /\ pc' \in {"write", "seek"} /\ Len(buf') < want
  /\ run.ilib # "syscall" \/ run.read_bytewise

\* What is not a read leaves the program where it is, or is not at a read.
LEMMA OnlyReads ==
  Next /\ pc = "read" /\ pc' # "read" =>
    ReadByte \/ ReadCall \/ ReadBuffer \/ FillBuffer \/ ReadInterrupted
<1> SUFFICES ASSUME Next, pc = "read", pc' # "read"
             PROVE  ReadByte \/ ReadCall \/ ReadBuffer \/ FillBuffer \/ ReadInterrupted
  OBVIOUS
<1>1. Program
  <2>1. ASSUME Upstream \/ Downstream \/ DownstreamQuits \/ Done PROVE pc' = pc
    BY <2>1 DEF Upstream, Downstream, DownstreamQuits, Done, vars, program
  <2> QED BY <2>1 DEF Next
<1> QED BY <1>1
    DEF Program, WriteByte, WriteCall, WriteBuffer, Flush, WriteInterrupted, WriteBroken, Writing,
        CatLoop, BlockLoop, VarblockLoop, ReverseLoop, StrideLoop, ReversewriteLoop,
        ReversewriteSeek, After, Close

\* A loop of io61_readc() that returns too little has met the end of the input.
LEMMA ShortByte == Inv /\ ReadByte /\ ShortRead => EndOfInput
<1> SUFFICES ASSUME Inv, ReadByte, ShortRead PROVE EndOfInput
  OBVIOUS
<1>1. /\ Readable /\ Consume(1) /\ buf' = buf \o Data(1) /\ UNCHANGED <<run, wopen>> /\ pc' # pc
      /\ IF LastByte THEN Returned(Len(buf')) ELSE UNCHANGED pc
  BY DEF ReadByte, ShortRead
<1>2. Types /\ InputInv /\ buf \in Seq(Nat) /\ want \in Nat /\ Len(buf) \in Nat
  BY Basics DEF Inv, Types
<1>3. /\ Data(1) \in Seq(Nat) /\ Len(Data(1)) <= 1
      /\ Data(1) = <<>> => ioff = run.size /\ ipipe = <<>> /\ ~wopen
  BY <1>1, <1>2, DataFacts
<1>4. run.ilib # "stdio" /\ rbuf = <<>>
  BY DEF ReadByte, Bytewise, Inv, InputInv
<1>5. CASE Data(1) = <<>>
  BY <1>3, <1>4, <1>5 DEF EndOfInput
<1>6. CASE Data(1) # <<>>
  <2>1. Len(buf) + 1 = want
    BY <1>1, <1>6 DEF LastByte
  <2>2. Len(buf') = Len(buf) + Len(Data(1))
    BY <1>1, <1>2, <1>3, ConcatProperties
  <2>3. Len(Data(1)) \in Nat /\ Len(Data(1)) # 0
    BY <1>3, <1>6, EmptySeq
  <2>4. Len(buf') = want
    BY <1>2, <1>3, <2>1, <2>2, <2>3
  <2> QED BY <1>2, <2>4 DEF ShortRead
<1> QED BY <1>5, <1>6

\* So has an fread() that returns too little.
LEMMA ShortFill == Inv /\ FillBuffer /\ ShortRead => EndOfInput
<1> SUFFICES ASSUME Inv, FillBuffer, ShortRead PROVE EndOfInput
  OBVIOUS
<1>1. /\ Readable /\ Consume(BUFSIZ) /\ rbuf' = Data(BUFSIZ) /\ UNCHANGED <<run, wopen>> /\ rbuf = <<>>
      /\ pc' # pc /\ (rbuf' # <<>> => pc' = pc)
  BY DEF FillBuffer, ShortRead
<1>2. Types /\ InputInv /\ BUFSIZ \in Nat \ {0}
  BY SizeAssumption DEF Inv
<1>3. Data(BUFSIZ) = <<>> => ioff = run.size /\ ipipe = <<>> /\ ~wopen
  BY <1>1, <1>2, DataFacts
<1> QED BY <1>1, <1>3 DEF EndOfInput

\* io61_read() of io61.cc and stdio-io61.cc, and a loop of io61_readc(), return less
\* than they were asked for only when the file or the pipe before them is at its end
\* and every buffer between is empty, however slowly the pipe is filled.
THEOREM ShortReadsAreEnds == Spec => ShortReadIsEnd
<1>1. ASSUME Inv, Next, ShortRead PROVE EndOfInput
  <2>1. ReadByte \/ ReadCall \/ ReadBuffer \/ FillBuffer \/ ReadInterrupted
    BY <1>1, OnlyReads DEF ShortRead
  <2>2. CASE ReadByte
    BY <1>1, <2>2, ShortByte
  <2>3. CASE ReadCall
    BY <1>1, <2>3 DEF ReadCall, ShortRead
  <2>4. CASE ReadBuffer
    <3>1. Len(buf') = want \/ pc' = pc
      BY <2>4 DEF ReadBuffer
    <3>2. want \in Nat
      BY <1>1 DEF Inv, Types
    <3> QED BY <1>1, <3>1, <3>2 DEF ShortRead
  <2>5. CASE FillBuffer
    BY <1>1, <2>5, ShortFill
  <2>6. CASE ReadInterrupted
    BY <1>1, <2>6 DEF ReadInterrupted, Returned, ShortRead
  <2> QED BY <2>1, <2>2, <2>3, <2>4, <2>5, <2>6
<1>2. ASSUME Inv, [Next]_vars
      PROVE  [pc = "read" /\ pc' \in {"write", "seek"} /\ Len(buf') < want
                /\ (run.ilib # "syscall" \/ run.read_bytewise)
              => ioff = run.size /\ ipipe = <<>> /\ rbuf = <<>> /\ ~wopen]_vars
  BY <1>1, <1>2 DEF ShortRead, EndOfInput
<1> QED BY <1>2, Invariance, PTL DEF Spec, ShortReadIsEnd

-----------------------------------------------------------------------------
(* The copiers' promise.                                                   *)

\* write() removes nothing from the output.
LEMMA PutGrows ==
  ASSUME NEW s, Put(s)
  PROVE  DOMAIN out \subseteq DOMAIN out'
<1> DEFINE at == ooff .. ooff + Room(Len(s)) - 1
<1>1. \/ out' = [o \in DOMAIN out \cup at |-> IF o \in at THEN s[o - ooff + 1] ELSE out[o]]
      \/ out' = out
  BY DEF Put
<1> HIDE DEF at
<1> QED BY <1>1

\* The program's steps are taken while it runs; they only add to the output.
LEMMA ProgramGrows == Program => ~Ended /\ run' = run /\ DOMAIN out \subseteq DOMAIN out'
<1>1. ASSUME WriteByte \/ WriteCall \/ Flush
      PROVE  ~Ended /\ run' = run /\ DOMAIN out \subseteq DOMAIN out'
  <2>1. \E s : Put(s)
    BY <1>1 DEF WriteByte, WriteCall, Flush
  <2> QED BY <1>1, <2>1, PutGrows DEF WriteByte, WriteCall, Flush, Ended
<1>2. ASSUME ReadByte \/ ReadCall \/ ReadBuffer \/ FillBuffer \/ ReadInterrupted
      PROVE  ~Ended /\ UNCHANGED <<run, out>>
  BY <1>2 DEF ReadByte, ReadCall, ReadBuffer, FillBuffer, ReadInterrupted, Ended, output
<1>3. ASSUME WriteBuffer \/ WriteInterrupted \/ WriteBroken
      PROVE  ~Ended /\ UNCHANGED <<run, out>>
  BY <1>3 DEF WriteBuffer, WriteInterrupted, WriteBroken, Writing, Ended, output
<1>4. ASSUME CatLoop \/ BlockLoop \/ VarblockLoop \/ ReverseLoop \/ StrideLoop \/ ReversewriteLoop
      PROVE  ~Ended /\ UNCHANGED <<run, out>>
  BY <1>4 DEF CatLoop, BlockLoop, VarblockLoop, ReverseLoop, StrideLoop, ReversewriteLoop, Ended,
              output
<1>5. ASSUME ReversewriteSeek \/ After \/ Close PROVE ~Ended /\ UNCHANGED <<run, out>>
  BY <1>5 DEF ReversewriteSeek, After, Close, Ended, output
<1> QED BY <1>1, <1>2, <1>3, <1>4, <1>5 DEF Program

\* Nothing is removed from the output, and nothing of the program changes after its
\* end but what is left in the pipe.
LEMMA StepGrows ==
  ASSUME Inv, [Next]_vars
  PROVE  /\ run' = run /\ DOMAIN out \subseteq DOMAIN out'
         /\ Ended => pc' = pc /\ wbuf' = wbuf
         /\ Ended /\ opipe = <<>> => UNCHANGED <<out, opipe>>
<1>1. CASE Program
  BY <1>1, ProgramGrows
<1>2. CASE Upstream
  BY <1>2 DEF Upstream, program, output
<1>3. CASE Downstream
  <2>1. /\ run' = run /\ pc' = pc /\ wbuf' = wbuf /\ opipe # <<>>
        /\ DOMAIN out' = 0 .. Stored
    BY <1>3 DEF Downstream, program, Stored
  <2>2. Streams
    <3>1. run.dst # "file"
      BY <2>1 DEF Inv, OutputInv
    <3> QED BY <3>1, Basics DEF Inv, Streams, RunType
  <2>3. Stored \in Nat /\ DOMAIN out = 0 .. Stored - 1
    BY <2>2 DEF Inv, StreamInv
  <2>4. DOMAIN out \subseteq DOMAIN out'
    BY <2>1, <2>3
  <2> QED BY <2>1, <2>4
<1>4. CASE DownstreamQuits
  BY <1>4 DEF DownstreamQuits, program
<1>5. CASE UNCHANGED vars
  BY <1>5 DEF vars, program, output
<1> QED BY <1>1, <1>2, <1>3, <1>4, <1>5 DEF Next, Done

\* What a status says.
StatusSays ==
  /\ Status \in {"running", "ok", "failed"}
  /\ Status = "ok" <=> pc = "exit" /\ opipe = <<>> /\ wbuf = <<>> /\ ~run.alarm
  /\ Status = "failed" <=> pc \in {"abort", "killed"} \/ (pc = "exit" /\ (wbuf # <<>> \/ run.alarm))
Complete == Status = "ok" => DOMAIN out = DOMAIN Wanted

\* The three values of the status exclude one another.
LEMMA StatusFacts == StatusSays
<1>1. CASE pc = "exit" /\ opipe = <<>> /\ wbuf = <<>> /\ ~run.alarm
  BY <1>1 DEF Status, StatusSays
<1>2. CASE pc \in {"abort", "killed"} \/ (pc = "exit" /\ (wbuf # <<>> \/ run.alarm))
  BY <1>2 DEF Status, StatusSays
<1>3. CASE /\ ~(pc = "exit" /\ opipe = <<>> /\ wbuf = <<>> /\ ~run.alarm)
           /\ ~(pc \in {"abort", "killed"} \/ (pc = "exit" /\ (wbuf # <<>> \/ run.alarm)))
  BY <1>3 DEF Status, StatusSays
<1> QED BY <1>1, <1>2, <1>3

\* A program that succeeds has written everything.
LEMMA SuccessIsComplete == Inv => Complete
<1> SUFFICES ASSUME Inv, Status = "ok" PROVE DOMAIN out = DOMAIN Wanted
  BY DEF Complete
<1>1. pc = "exit" /\ opipe = <<>> /\ wbuf = <<>> /\ ~run.alarm
  BY StatusFacts DEF StatusSays
<1>2. run \in CommandLines /\ Total \in Nat /\ DOMAIN Wanted = 0 .. Total - 1
  BY Basics, TotalFacts, WantedFacts DEF Inv
<1>3. Ending /\ ~Holding /\ ~Reading
  BY <1>1 DEF Ending, Holding, Reading, At
<1>4. Len(opipe) = 0 /\ Len(wbuf) = 0
  BY <1>1
<1>5. \A m \in Nat : m + 0 + 0 = m /\ m + 0 = m
  OBVIOUS
<1>6. CASE Streams
  <2>1. Sent = Total /\ Stored \in Nat /\ DOMAIN out = 0 .. Stored - 1
    BY <1>1, <1>3, <1>6 DEF Inv, EndInv, StreamInv
  <2>2. Sent = Stored
    BY <1>4, <1>5, <2>1, Zenon DEF Sent
  <2> QED BY <1>2, <2>1, <2>2
<1>7. CASE ~Streams
  <2>1. left = 0 /\ Accepted = left
    BY <1>3, <1>7 DEF Inv, CountInv, Streams, Accepted
  <2>2. DOMAIN out = Accepted + Len(wbuf) .. Total - 1
    BY <1>1, <1>7 DEF Inv, BackInv
  <2>3. 0 + 0 = 0
    OBVIOUS
  <2>4. DOMAIN out = 0 .. Total - 1
    BY <1>4, <2>1, <2>2, <2>3, Zenon
  <2> QED BY <1>2, <2>4
<1> QED BY <1>6, <1>7

\* Every step is a step of the copier, or changes nothing that it knows of.
LEMMA CopierStep == Inv /\ Inv' /\ [Next]_vars => [Copied!Next]_(Copied!vars)
<1> SUFFICES ASSUME Inv, Inv', [Next]_vars PROVE Copied!Next \/ UNCHANGED Copied!vars
  OBVIOUS
<1>1. /\ run' = run /\ DOMAIN out \subseteq DOMAIN out'
      /\ Ended => pc' = pc /\ wbuf' = wbuf
      /\ Ended /\ opipe = <<>> => UNCHANGED <<out, opipe>>
  BY StepGrows
<1>2. Wanted' = Wanted
  BY <1>1, Fixed
<1>3. /\ Status' \in {"running", "ok", "failed"}
      /\ Status' = "ok" <=> pc' = "exit" /\ opipe' = <<>> /\ wbuf' = <<>> /\ ~run'.alarm
      /\ Status' = "failed" <=>
           pc' \in {"abort", "killed"} \/ (pc' = "exit" /\ (wbuf' # <<>> \/ run'.alarm))
  <2>1. StatusSays'
    BY StatusFacts, PTL
  <2> QED BY <2>1 DEF StatusSays
<1>4. CASE Status = "ok"
  <2>1. pc = "exit" /\ opipe = <<>> /\ wbuf = <<>> /\ ~run.alarm
    BY <1>4, StatusFacts DEF StatusSays
  <2>2. Status' = Status /\ out' = out
    BY <1>1, <1>3, <1>4, <2>1 DEF Ended
  <2> QED BY <1>2, <2>2 DEF Copied!vars
<1>5. CASE Status # "ok"
  <2> DEFINE S == DOMAIN out' \ DOMAIN out
  <2>1. S \in SUBSET (DOMAIN Wanted \ DOMAIN out)
    <3>1. DOMAIN out' \subseteq 0 .. Total' - 1 /\ run' \in CommandLines
      BY Basics DEF Inv, OutputInv, Types, TypeOK
    <3>2. DOMAIN out' \subseteq DOMAIN Wanted
      <4>1. DOMAIN Wanted = 0 .. Total - 1
        BY <1>1, <3>1, WantedFacts
      <4> QED BY <1>1, <3>1, <4>1, Fixed
    <3> QED BY <3>2
  <2>2. Copied!Grow(S)
    <3>1. out = [o \in DOMAIN out |-> Wanted[o]]
      BY DEF Inv, OutputInv
    <3>2. out' = [o \in DOMAIN out' |-> Wanted[o]]
      BY <1>2 DEF Inv, OutputInv
    <3>3. DOMAIN out' = DOMAIN out \cup S
      BY <1>1
    <3> HIDE DEF S
    <3>4. \A o \in DOMAIN out : out[o] = Wanted[o]
      BY <3>1
    <3>5. out' = [o \in DOMAIN out \cup S |-> Wanted[o]]
      BY <3>2, <3>3, Zenon
    <3>6. [o \in DOMAIN out \cup S |-> Wanted[o]]
            = [o \in DOMAIN out \cup S |-> IF o \in S THEN Wanted[o] ELSE out[o]]
      BY <3>4
    <3> QED BY <3>5, <3>6 DEF Copied!Grow
  <2>3. Copied!Report
    <3>1. CASE Status = "failed"
      <4>1. pc \in {"abort", "killed"} \/ (pc = "exit" /\ (wbuf # <<>> \/ run.alarm))
        BY <3>1, StatusFacts DEF StatusSays
      <4>2. Status' = "failed"
        BY <1>1, <1>3, <4>1 DEF Ended
      <4> QED BY <3>1, <4>2 DEF Copied!Report
    <3>2. CASE Status = "running"
      <4>1. Status' = "ok" => DOMAIN out' = DOMAIN Wanted'
        <5>1. Complete'
          BY SuccessIsComplete, PTL
        <5> QED BY <5>1 DEF Complete
      <4> QED BY <1>2, <1>3, <3>2, <4>1 DEF Copied!Report
    <3> QED BY <1>5, <3>1, <3>2, StatusFacts DEF StatusSays
  <2> HIDE DEF S
  <2> QED BY <1>2, <1>5, <2>1, <2>2, <2>3 DEF Copied!Next
<1> QED BY <1>4, <1>5

\* Every program puts every byte of the input it is asked for in its place of the
\* output, and there only, never overwrites one, and exits normally only when the
\* output is complete: copies in order, in reverse and by columns of blocks alike, over
\* every library, and with short reads, full pipes and full disks.
THEOREM ProgramsImplementCopier == Spec => ImplementsCopier
<1>1. Init => Copied!Init
  <2> SUFFICES ASSUME Init PROVE Copied!Init
    OBVIOUS
  <2>1. pc = "top" /\ out = <<>> /\ DOMAIN out = {}
    BY DEF Init
  <2>2. Status = "running"
    BY <2>1, StatusFacts DEF StatusSays
  <2> QED BY <2>1, <2>2 DEF Copied!Init
<1>2. Inv /\ Inv' /\ [Next]_vars => [Copied!Next]_(Copied!vars)
  BY CopierStep
<1> QED BY <1>1, <1>2, Invariance, PTL DEF Spec, ImplementsCopier, Copied!Spec
=============================================================================
