-------------------------------- MODULE CLib --------------------------------
(***************************************************************************)
(* The C library of WeensyOS (lib.cc, lib.hh): memory and string           *)
(* functions, conversion of numbers, arithmetic on unsigned words and      *)
(* random numbers in a range.  A character is its code.  A memory is a     *)
(* function from addresses 0 .. n - 1 to characters; a C string for the    *)
(* conversions is a sequence, its NUL at position Len(s), counted from 0.  *)
(***************************************************************************)
EXTENDS Integers, Sequences, FiniteSets, SequencesExt, FiniteSetsExt

CONSTANTS
  LONG_BITS,  \* width of unsigned long
  RAND_MAX

ASSUME CLibAssumption == LONG_BITS \in Nat /\ LONG_BITS > 1 /\ RAND_MAX \in Nat
\* (Provers do not know what ^ is.)
ASSUME PowerAssumption == 2 ^ LONG_BITS \in Nat \ {0}

nullptr == 0 - 1
isspace(c) == c \in 9 .. 13 \cup {32}
isupper(c) == c \in 65 .. 90
tolower(c) == IF isupper(c) THEN c + 32 ELSE c

-----------------------------------------------------------------------------
(* Memory and strings.                                                     *)

\* The loops that look for something: the first address from p on, before
\* `last`, with property P; `last` if there is none.
First(p, last, P(_)) ==
  CHOOSE q \in p .. last : (q = last \/ P(q)) /\ \A k \in p .. q - 1 : ~P(k)

\* Bytes are copied one by one, from the first to the last or from the last to the
\* first.
CopyUp(m, d, s, n) ==
  LET copy[k \in 0 .. n] ==
        IF k = 0 THEN m ELSE [copy[k - 1] EXCEPT ![d + k - 1] = copy[k - 1][s + k - 1]]
  IN copy[n]
CopyDown(m, d, s, n) ==
  LET copy[k \in 0 .. n] ==
        IF k = 0 THEN m ELSE [copy[k - 1] EXCEPT ![d + n - k] = copy[k - 1][s + n - k]]
  IN copy[n]

memcpy(m, d, s, n) == CopyUp(m, d, s, n)
\* Mutant of memmove: an overlap of one byte is missed.
MemmoveOff(m, d, s, n) ==
  IF s < d /\ s + n > d + 1 THEN CopyDown(m, d, s, n) ELSE CopyUp(m, d, s, n)
memmove(m, d, s, n) ==
  IF s < d /\ s + n > d THEN CopyDown(m, d, s, n) ELSE CopyUp(m, d, s, n)
memset(m, p, c, n) == [q \in DOMAIN m |-> IF q \in p .. p + n - 1 THEN c ELSE m[q]]

Sign(a, b) == IF a > b THEN 1 ELSE IF a < b THEN 0 - 1 ELSE 0

memcmp(m, a, b, n) ==
  LET k == First(0, n, LAMBDA i : m[a + i] # m[b + i])
  IN IF k = n THEN 0 ELSE Sign(m[a + k], m[b + k])
memchr(m, p, c, n) ==
  LET q == First(p, p + n, LAMBDA i : m[i] = c) IN IF q = p + n THEN nullptr ELSE q

Size(m) == Cardinality(DOMAIN m)
strlen(m, p) == First(p, Size(m), LAMBDA i : m[i] = 0) - p
strnlen(m, p, maxlen) == First(p, p + maxlen, LAMBDA i : m[i] = 0) - p
strcpy(m, d, s) == CopyUp(m, d, s, strlen(m, s) + 1)
strncpy(m, d, s, maxlen) ==
  LET n == strnlen(m, s, maxlen) IN memset(CopyUp(m, d, s, n), d + n, 0, maxlen - n)

LimitOf(n, maxlen) == IF n > maxlen - 1 THEN maxlen - 1 ELSE n
\* strlcpy() returns the length of what it was given to copy.
strlcpy(m, d, s, maxlen) ==
  LET n == strlen(m, s)
      nn == LimitOf(n, maxlen)
  IN [mem |-> IF maxlen = 0 THEN m ELSE [memcpy(m, d, s, nn) EXCEPT ![d + nn] = 0],
      n |-> n]

\* The four comparisons: characters are taken by `fold`, and are NUL after the
\* first n.
Compare(m, a, b, n, fold(_)) ==
  LET ch(p, k) == IF k >= n THEN 0 ELSE fold(m[p + k])
      k == First(0, Size(m), LAMBDA i : ch(a, i) = 0 \/ ch(b, i) = 0
                                         \/ ch(a, i) # ch(b, i))
  IN Sign(ch(a, k), ch(b, k))
Same(c) == c
strcmp(m, a, b) == Compare(m, a, b, Size(m), Same)
strncmp(m, a, b, n) == Compare(m, a, b, n, Same)
strcasecmp(m, a, b) == Compare(m, a, b, Size(m), tolower)
strncasecmp(m, a, b, n) == Compare(m, a, b, n, tolower)

strchr(m, p, c) ==
  LET q == First(p, Size(m), LAMBDA i : m[i] = 0 \/ m[i] = c)
  IN IF m[q] = c THEN q ELSE nullptr

\* Mutant of strstr: what was compared is not looked at again.
StrstrSkips(m, hs, ns) ==
  LET find[i \in 0 .. Size(m), j \in 0 .. Size(m)] ==
        IF m[ns + j] = 0 THEN hs + i
        ELSE IF m[hs + i + j] = 0 THEN nullptr
        ELSE IF m[hs + i + j] = m[ns + j] THEN find[i, j + 1]
        ELSE find[i + j + 1, 0]
  IN find[0, 0]
\* After a mismatch strstr() goes on at the next character of hs.
strstr(m, hs, ns) ==
  LET find[i \in 0 .. Size(m), j \in 0 .. Size(m)] ==
        IF m[ns + j] = 0 THEN hs + i
        ELSE IF m[hs + i] = 0 THEN nullptr
        ELSE IF m[hs + i + j] = m[ns + j] THEN find[i, j + 1]
        ELSE find[i + 1, 0]
  IN find[0, 0]

-----------------------------------------------------------------------------
(* Numbers.                                                                *)

ULONG_MAX == 2 ^ LONG_BITS - 1
Word(x) == x % (2 ^ LONG_BITS)
At(s, p) == IF p < Len(s) THEN s[p + 1] ELSE 0

NoDigit == 0 - 1
DigitOf(c, base) ==
  IF c >= 48 /\ c < 48 + base THEN c - 48
  ELSE IF c >= 97 /\ c < 97 + base - 10 THEN c - 97 + 10
  ELSE IF c >= 65 /\ c < 65 + base - 10 THEN c - 65 + 10
  ELSE NoDigit

\* Mutant of WouldOverflow: the digit is not counted.
WouldOverflowBase(x, digit, base) == x > ULONG_MAX \div base
WouldOverflow(x, digit, base) == x > (ULONG_MAX - digit) \div base

\* from_chars() for unsigned long, from position `first` to the NUL.
from_chars(s, first, base) ==
  LET parse[p \in first .. Len(s), x \in 0 .. ULONG_MAX, overflow \in BOOLEAN] ==
        LET digit == DigitOf(At(s, p), base) IN
        IF digit = NoDigit
        THEN [ptr |-> p, value |-> x,
              ec |-> IF p = first THEN "E_INVAL" ELSE IF overflow THEN "E_RANGE" ELSE "0"]
        ELSE IF WouldOverflow(x, digit, base) THEN parse[p + 1, x, TRUE]
        ELSE parse[p + 1, Word(x * base + digit), overflow]
  IN parse[first, 0, FALSE]

\* The largest magnitude of a long.
Bound(negative) == 2 ^ (LONG_BITS - 1) - (IF negative THEN 0 ELSE 1)
Negated(negative, x) == IF negative THEN 0 - x ELSE x

from_chars_long(s, first, base) ==
  LET negative == At(s, first) = 45
      r == from_chars(s, IF negative THEN first + 1 ELSE first, base)
  IN IF r.ec = "E_INVAL" THEN [r EXCEPT !.ptr = first]
     ELSE IF r.ec = "E_RANGE" \/ r.value > Bound(negative) THEN [r EXCEPT !.ec = "E_RANGE"]
     ELSE [r EXCEPT !.value = Negated(negative, @)]

strtol_fix_base(s, t, base) ==
  LET next == tolower(At(s, t + 1)) IN
  IF base = 0
  THEN IF At(s, t) # 48 THEN [t |-> t, base |-> 10]
       ELSE IF next = 120 THEN [t |-> t + 2, base |-> 16]
       ELSE IF next = 111 THEN [t |-> t + 2, base |-> 8]
       ELSE IF next = 98 THEN [t |-> t + 2, base |-> 2]
       ELSE [t |-> t, base |-> 8]
  ELSE [t |-> IF base = 16 /\ At(s, t) = 48 /\ next = 120 THEN t + 2 ELSE t, base |-> base]

\* What strtoul() and strtol() have in common: blanks, a sign, the base, digits.
Scan(s, base) ==
  LET t == First(0, Len(s), LAMBDA i : ~isspace(At(s, i)))
      signed == At(s, t) \in {43, 45}
      fixed == strtol_fix_base(s, IF signed THEN t + 1 ELSE t, base)
      r == from_chars(s, fixed.t, fixed.base)
  IN [negative |-> At(s, t) = 45, ec |-> r.ec,
      value |-> IF r.ec = "0" THEN r.value ELSE 0,
      end |-> IF r.ec = "E_INVAL" THEN 0 ELSE r.ptr]

strtoul(s, base) ==
  LET r == Scan(s, base)
      x == IF r.ec = "E_RANGE" THEN ULONG_MAX ELSE r.value
  IN [value |-> Word(Negated(r.negative, x)), end |-> r.end]

strtol(s, base) ==
  LET r == Scan(s, base)
      bound == Bound(r.negative)
      x == IF r.ec = "E_RANGE" \/ r.value > bound THEN bound ELSE r.value
  IN [value |-> Negated(r.negative, x), end |-> r.end]

\* Mutant of Length: the cube of the base has three digits.
LengthShort(value, base) ==
  LET count[v \in 0 .. ULONG_MAX] ==
        LET n == IF v < base THEN 1 ELSE IF v < base * base THEN 2 ELSE 3
        IN IF v <= base ^ 3 THEN n ELSE n + count[v \div base ^ 3]
  IN count[value]
\* The number of characters of a value, three digits a round.
Length(value, base) ==
  LET count[v \in 0 .. ULONG_MAX] ==
        LET n == IF v < base THEN 1 ELSE IF v < base * base THEN 2 ELSE 3
        IN IF v < base ^ 3 THEN n ELSE n + count[v \div base ^ 3]
  IN count[value]

\* to_chars() into `room` characters.
to_chars(room, value, base) ==
  LET n == Length(value, base)
      digit(k) == LET d == (value \div base ^ (n - k)) % base
                  IN IF d < 10 THEN 48 + d ELSE 97 + d - 10
  IN IF room < n THEN [ec |-> "E_OVERFLOW", out |-> <<>>]
     ELSE [ec |-> "0", out |-> [k \in 1 .. n |-> digit(k)]]

to_chars_long(room, value, base) ==
  IF room = 0 THEN [ec |-> "E_OVERFLOW", out |-> <<>>]
  ELSE IF value < 0
  THEN LET r == to_chars(room - 1, Word(0 - value), base)
       IN [r EXCEPT !.out = <<45>> \o @]
  ELSE to_chars(room, value, base)

-----------------------------------------------------------------------------
(* Arithmetic on unsigned words, and random numbers.                       *)

\* The index of the most and least significant one bit, plus one.
msb(x) == IF x = 0 THEN 0 ELSE Max({i \in 1 .. LONG_BITS : 2 ^ (i - 1) <= x})
lsb(x) == IF x = 0 THEN 0 ELSE Min({i \in 1 .. LONG_BITS : x % 2 ^ i # 0})
round_down(x, m) == x - (x % m)
round_up(x, m) == round_down(Word(x + m - 1), m)
\* (Above the largest power of two round_up_pow2() shifts by the word's width, which
\* is undefined; its property stays below.)
round_down_pow2(x) == IF x = 0 THEN 0 ELSE 2 ^ (msb(x) - 1)
\* Mutant of round_up_pow2: a power of two is not its own.
RoundUpPow2Over(x) == IF x = 0 THEN 0 ELSE Word(2 ^ msb(x))
round_up_pow2(x) == IF x = 0 THEN 0 ELSE Word(2 ^ msb(x - 1))

\* uniform_int_distribution(): the number of results, max - min + 1.  RAND_MAX is
\* the largest int.  As unsigned the sum fits; as int it overflows when
\* max - min = RAND_MAX: the build computes it in a wider register, or wraps around
\* to a negative number, which is converted to unsigned long.
UnsignedAmount(min, max) == max - min + 1
IntAmounts(min, max) ==
  IF max - min < RAND_MAX THEN {max - min + 1}
  ELSE {RAND_MAX + 1, Word(0 - (RAND_MAX + 1))}

\* Which r the engine may give are taken, and what each becomes.  The others are
\* drawn again.
\* Mutant of Per: rounded up.
PerUp(amount) == (RAND_MAX + amount) \div amount
Per(amount) == (RAND_MAX + 1) \div amount
Taken(amount) == {r \in 0 .. RAND_MAX : r < Word(Per(amount) * amount)}
Uniform(min, amount, r) == min + r \div Per(amount)

-----------------------------------------------------------------------------
(* Properties, for one argument each: a run takes all of a small set.      *)

In(m, p, n) == p + n <= Size(m)
IsString(m, p) == \E q \in DOMAIN m : q >= p /\ m[q] = 0
Str(m, p) == [k \in 1 .. strlen(m, p) |-> m[p + k - 1]]
Replaced(m, d, text) ==
  [q \in DOMAIN m |-> IF q \in d .. d + Len(text) - 1 THEN text[q - d + 1] ELSE m[q]]
Firsts(s, n) == SubSeq(s, 1, Min({n, Len(s)}))
Chars(m, p, n) == [k \in 1 .. n |-> m[p + k - 1]]

\* Copies give what was at the source before, and change nothing else: memmove()
\* whatever overlaps, the others if source and destination do not.
CopiesRight(m) ==
  \A d, s \in DOMAIN m, n \in 0 .. Size(m) :
    /\ In(m, d, n) /\ In(m, s, n) => memmove(m, d, s, n) = Replaced(m, d, Chars(m, s, n))
    /\ IsString(m, s) =>
         LET apart(k) == In(m, d, k) /\ (d + k <= s \/ d > s + strlen(m, s))
             cut == Firsts(Str(m, s), n)
             short == Firsts(Str(m, s), n - 1)
         IN /\ apart(strlen(m, s) + 1) =>
                 strcpy(m, d, s) = Replaced(m, d, Append(Str(m, s), 0))
            /\ apart(n) =>
                 /\ strncpy(m, d, s, n) =
                      Replaced(m, d, cut \o [k \in 1 .. n - Len(cut) |-> 0])
                 /\ strlcpy(m, d, s, n) =
                      [mem |-> IF n = 0 THEN m ELSE Replaced(m, d, Append(short, 0)),
                       n |-> strlen(m, s)]

\* The order of strings in a dictionary.
Before(a, b) ==
  \E k \in 0 .. Len(a) : /\ k < Len(b) /\ Firsts(a, k) = Firsts(b, k)
                         /\ k = Len(a) \/ a[k + 1] < b[k + 1]
Order(a, b) == IF Before(a, b) THEN 0 - 1 ELSE IF a = b THEN 0 ELSE 1
Folded(a) == [k \in DOMAIN a |-> tolower(a[k])]
FirstOr(S) == IF S = {} THEN nullptr ELSE Min(S)

\* The comparisons order strings as a dictionary does, and the searches give the
\* first place that is right.
SearchesRight(m) ==
  \A a, b \in DOMAIN m :
    /\ \A n \in 0 .. Size(m) :
         In(m, a, n) /\ In(m, b, n) =>
           memcmp(m, a, b, n) = Order(Chars(m, a, n), Chars(m, b, n))
    /\ (IsString(m, a) /\ IsString(m, b)) =>
         LET x == Str(m, a)
             y == Str(m, b)
         IN /\ strcmp(m, a, b) = Order(x, y)
            /\ strcasecmp(m, a, b) = Order(Folded(x), Folded(y))
            /\ \A n \in 0 .. Size(m) :
                 /\ strncmp(m, a, b, n) = Order(Firsts(x, n), Firsts(y, n))
                 /\ strncasecmp(m, a, b, n) =
                      Order(Folded(Firsts(x, n)), Folded(Firsts(y, n)))
            /\ strchr(m, a, m[b]) = FirstOr({q \in a .. a + Len(x) : m[q] = m[b]})
            /\ strstr(m, a, b) =
                 FirstOr({q \in a .. a + Len(x) : IsPrefix(y, Str(m, q))})

\* What digits stand for, without a bound.
ValueOf(digits, base) ==
  FoldLeft(LAMBDA x, c : x * base + DigitOf(c, base), 0, digits)
Clamped(x, low, high) == IF x < low THEN low ELSE IF x > high THEN high ELSE x

\* A text of blanks, a sign, a prefix, digits of a base, and a rest that is not a
\* digit is read up to its rest, with the value it stands for or the nearest one
\* there is.  `t.given` is the base the call names: 0, the one the prefix stands
\* for, or 16.  (strtoul() of a negative number out of range is left out: it gives
\* 1.)
ReadRight(t) ==
  LET s == t.blanks \o t.sign \o t.prefix \o t.digits \o t.rest
      end == Len(s) - Len(t.rest)
      x == ValueOf(t.digits, t.base)
      y == IF t.sign = <<45>> THEN 0 - x ELSE x
      first == Len(s) - Len(t.digits) - Len(t.rest)
      r == from_chars(s, first, t.base)
      negative == from_chars_long(<<45>> \o t.digits \o t.rest, 0, t.base)
  IN /\ r.ptr = end /\ r.ec = IF x > ULONG_MAX THEN "E_RANGE" ELSE "0"
     /\ x <= ULONG_MAX => r.value = x
     /\ negative.ptr = 1 + Len(t.digits)
     /\ IF x > Bound(TRUE) THEN negative.ec = "E_RANGE"
        ELSE negative.ec = "0" /\ negative.value = 0 - x
     /\ strtol(s, t.given) = [value |-> Clamped(y, 0 - Bound(TRUE), Bound(FALSE)), end |-> end]
     /\ (y >= 0 \/ x <= ULONG_MAX) =>
          strtoul(s, t.given) = [value |-> Word(Clamped(y, 0 - ULONG_MAX, ULONG_MAX)), end |-> end]

\* A number written is read back as the same, in as many characters as it needs and
\* in no fewer.
WrittenRight(x, base) ==
  LET w == to_chars(LONG_BITS, x, base)
      n == Len(w.out)
      signed == IF x > Bound(FALSE) THEN x - 2 ^ LONG_BITS ELSE x
      v == to_chars_long(LONG_BITS + 1, signed, base)
  IN /\ w.ec = "0"
     /\ from_chars(w.out, 0, base) = [ptr |-> n, value |-> x, ec |-> "0"]
     /\ n > 1 => w.out[1] # 48
     /\ to_chars(n, x, base) = w /\ to_chars(n - 1, x, base).ec = "E_OVERFLOW"
     /\ from_chars_long(v.out, 0, base) = [ptr |-> Len(v.out), value |-> signed, ec |-> "0"]

\* Powers of two and multiples are the nearest ones.  round_up() gives 0 instead
\* where x + n - 1 wraps around: for a power of two n there is no multiple then, for
\* another n there may be one, which lib.hh says is returned.
RoundingRight(x, n) ==
  LET powers == {2 ^ i : i \in 0 .. LONG_BITS - 1}
      multiples == {k \in 0 .. ULONG_MAX : k % n = 0}
      down == {k \in multiples : k <= x}
      up == {k \in multiples : k >= x}
  IN /\ round_down(x, n) = Max(down)
     /\ round_up(x, n) = IF x + n - 1 <= ULONG_MAX THEN Min(up) ELSE 0
     /\ n \in powers /\ up # {} => round_up(x, n) = Min(up)
     /\ x > 0 => /\ round_down_pow2(x) = Max({k \in powers : k <= x})
                 /\ lsb(x) = Max({i \in 1 .. LONG_BITS : x % 2 ^ (i - 1) = 0})
     /\ 0 < x /\ x <= Max(powers) => round_up_pow2(x) = Min({k \in powers : k >= x})

\* Every number of the range is as likely as any other, if the engine's are, and at
\* least every other draw is taken.
Even(min, max, amount) ==
  LET ways(v) == Cardinality({r \in Taken(amount) : Uniform(min, amount, r) = v})
  IN /\ \A r \in Taken(amount) : Uniform(min, amount, r) \in min .. max
     /\ \A v \in min .. max : ways(v) = ways(min) /\ ways(v) > 0
     /\ 2 * Cardinality(Taken(amount)) > RAND_MAX

\* Even for every range of the unsigned engine and for every range of ints but the
\* largest one lib.hh permits, max - min = RAND_MAX: where its sum wraps around no
\* draw is taken, and the loop does not end.
UniformRight(min, max) ==
  /\ min >= 0 => Even(min, max, UnsignedAmount(min, max))
  /\ \A amount \in IntAmounts(min, max) :
       Even(min, max, amount) \/ (max - min = RAND_MAX /\ Taken(amount) = {})

=============================================================================
