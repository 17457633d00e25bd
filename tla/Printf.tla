------------------------------- MODULE Printf -------------------------------
(***************************************************************************)
(* printer::vprintf() and vsnprintf() of lib.cc.  A format is a sequence   *)
(* of characters, which are strings of length one; the arguments are a     *)
(* sequence of integers and of texts (sequences of characters).            *)
(***************************************************************************)
EXTENDS Integers, Sequences, FiniteSets, SequencesExt

CONSTANTS
  INT_BITS, PTR_BITS,  \* width of int, and of long and pointers
  NUMBUFSIZ            \* size of the buffer for a number

ASSUME PrintfAssumption == {INT_BITS, PTR_BITS, NUMBUFSIZ} \subseteq Nat \ {0}

upper_digits == <<"0", "1", "2", "3", "4", "5", "6", "7", "8", "9",
                  "A", "B", "C", "D", "E", "F">>
lower_digits == <<"0", "1", "2", "3", "4", "5", "6", "7", "8", "9",
                  "a", "b", "c", "d", "e", "f">>
DigitChars == {lower_digits[i] : i \in 1 .. 10}
DigitValue(ch) == (CHOOSE i \in 1 .. 10 : lower_digits[i] = ch) - 1
flag_chars == {"#", "0", "-", " ", "+", "'"}
End == "NUL"
FormatAt(f, p) == IF p > Len(f) THEN End ELSE f[p]

\* The first position from p on whose character is not one of `class`.
PastAll(f, p, class) ==
  CHOOSE q \in p .. Len(f) + 1 : /\ FormatAt(f, q) \notin class
                                 /\ \A k \in p .. q - 1 : f[k] \in class
NumberIn(f, p, q) == FoldLeft(LAMBDA n, ch : 10 * n + DigitValue(ch), 0, SubSeq(f, p, q - 1))
Most(a, b) == IF a < b THEN b ELSE a
Copies(ch, n) == [i \in 1 .. n |-> ch]

-----------------------------------------------------------------------------

Group(base) == IF base = 10 THEN 3 ELSE 4

\* The digits of val, last to first, into NUMBUFSIZ - 1 characters; with the flag
\* ' every third digit, or fourth if the base is 16, is followed by a mark.
print_number(val, digits, base, flags) ==
  LET print[v \in 0 .. 2 ^ PTR_BITS - 1, room \in 0 .. NUMBUFSIZ, since \in 0 .. 4] ==
        LET mark == "'" \in flags /\ since = Group(base)
            v2 == IF mark THEN v ELSE v \div base
            ch == IF mark THEN (IF base = 10 THEN "," ELSE "'") ELSE digits[(v % base) + 1]
            left == IF v2 = 0 \/ room = 1 THEN <<>>
                    ELSE print[v2, room - 1, IF mark THEN 0 ELSE since + 1]
        IN Append(left, ch)
  IN print[val, NUMBUFSIZ - 1, 0]

\* A number, or a text, to be put into a field.
Number(num, base, digits, prefix, flags) ==
  [numeric |-> TRUE, prefix |-> prefix, data |-> print_number(num, digits, base, flags)]
Text(data) == [numeric |-> FALSE, prefix |-> <<>>, data |-> data]

SignPrefix(x, flags) == IF x < 0 THEN <<"-">> ELSE IF "+" \in flags THEN <<"+">>
                        ELSE IF " " \in flags THEN <<" ">> ELSE <<>>

\* The conversion `ch` of argument x; `bits` is the width of the argument's type.
Converted(ch, x, flags, bits) ==
  CASE ch \in {"d", "i"} ->
         Number((IF x < 0 THEN 0 - x ELSE x), 10, upper_digits, SignPrefix(x, flags), flags)
    [] ch = "u" -> Number(x % 2 ^ bits, 10, upper_digits, <<>>, flags)
    [] ch = "x" -> Number(x % 2 ^ bits, 16, lower_digits,
                          IF "#" \in flags /\ x % 2 ^ bits # 0 THEN <<"0", "x">> ELSE <<>>, flags)
    [] ch = "X" -> Number(x % 2 ^ bits, 16, upper_digits,
                          IF "#" \in flags /\ x % 2 ^ bits # 0 THEN <<"0", "X">> ELSE <<>>, flags)
    [] ch = "p" -> Number(x % 2 ^ PTR_BITS, 16, lower_digits, <<"0", "x">>, flags)
    [] ch = "s" -> Text(x)
    [] ch = "c" -> Text(IF x = End THEN <<>> ELSE <<x>>)
    [] OTHER -> Text(<<IF ch = End THEN "%" ELSE ch>>)
TakesArgument(ch) == ch \in {"d", "i", "u", "x", "X", "p", "s", "C", "c"}

\* Mutant of ZerosFor: zeros fill the field of a number aligned to the left, too.
ZerosForLeft(c, len, flags, width, precision) ==
  IF ~c.numeric THEN 0
  ELSE IF precision >= 0 THEN (IF precision > len THEN precision - len ELSE 0)
  ELSE IF "0" \in flags /\ len + Len(c.prefix) < width THEN width - len - Len(c.prefix)
  ELSE 0
ZerosFor(c, len, flags, width, precision) ==
  IF ~c.numeric THEN 0
  ELSE IF precision >= 0 THEN (IF precision > len THEN precision - len ELSE 0)
  ELSE IF "0" \in flags /\ "-" \notin flags /\ len + Len(c.prefix) < width
  THEN width - len - Len(c.prefix)
  ELSE 0

\* The field of width `width` for what was converted.
Field(c, flags, width, precision) ==
  LET len == IF precision >= 0 /\ ~c.numeric /\ precision < Len(c.data)
             THEN precision ELSE Len(c.data)
      zeros == ZerosFor(c, len, flags, width, precision)
      blanks == width - len - zeros - Len(c.prefix)
      pad == Copies(" ", blanks)
  IN (IF "-" \in flags THEN <<>> ELSE pad) \o c.prefix \o Copies("0", zeros)
     \o SubSeq(c.data, 1, len) \o (IF "-" \in flags THEN pad ELSE <<>>)

\* A directive is read in stages, each from position `at` of the format on.
NoColor == 0 - 1
NotGiven == 0 - 1
Numeral(f, p) == IF FormatAt(f, p) \in DigitChars
                 THEN NumberIn(f, p, PastAll(f, p, DigitChars)) ELSE NotGiven
ReadFlags(f, p, args) ==
  [at |-> PastAll(f, p + 1, flag_chars), args |-> args,
   flags |-> {f[k] : k \in p + 1 .. PastAll(f, p + 1, flag_chars) - 1},
   width |-> NotGiven, precision |-> NotGiven, bits |-> INT_BITS]
ReadWidth(f, d) ==
  IF FormatAt(f, d.at) = "*"
  THEN [d EXCEPT !.at = @ + 1, !.width = d.args[1], !.args = Tail(@)]
  ELSE [d EXCEPT !.at = PastAll(f, @, DigitChars), !.width = Numeral(f, d.at)]
ReadPrecision(f, d) ==
  IF FormatAt(f, d.at) # "." THEN d
  ELSE IF FormatAt(f, d.at + 1) = "*"
  THEN [d EXCEPT !.at = @ + 2, !.precision = Most(d.args[1], 0), !.args = Tail(@)]
  ELSE [d EXCEPT !.at = PastAll(f, @ + 1, DigitChars), !.precision = Most(Numeral(f, d.at + 1), 0)]
ReadLength(f, d) ==
  [d EXCEPT !.at = IF FormatAt(f, @) \in {"l", "t", "z", "h"} THEN @ + 1 ELSE @,
            !.bits = IF FormatAt(f, d.at) \in {"l", "t", "z"} THEN PTR_BITS ELSE @]

\* The main conversion: where the next character is, the arguments left, what is
\* printed and the colour %C asks for.
Conversion(ch, d) ==
  [next |-> IF ch = End THEN d.at ELSE d.at + 1,
   args |-> IF TakesArgument(ch) THEN Tail(d.args) ELSE d.args,
   out |-> IF ch = "C" THEN <<>>
           ELSE Field(Converted(ch, IF TakesArgument(ch) THEN d.args[1] ELSE 0, d.flags, d.bits),
                      d.flags, d.width, d.precision),
   color |-> IF ch = "C" THEN d.args[1] ELSE NoColor]
ConversionAt(f, d) == Conversion(FormatAt(f, d.at), d)

\* The directive, or the other character, at p.
Directive(f, p, args) ==
  IF f[p] = "%"
  THEN ConversionAt(f, ReadLength(f, ReadPrecision(f, ReadWidth(f, ReadFlags(f, p, args)))))
  ELSE [next |-> p + 1, args |-> args, out |-> <<f[p]>>, color |-> NoColor]

\* vprintf(): the characters put and the colour at the end, after directive d.
RECURSIVE VprintfAfter(_, _, _)
VprintfAfter(f, d, color) ==
  IF FormatAt(f, d.next) = End THEN [out |-> d.out, color |-> color]
  ELSE LET From(e) == VprintfAfter(f, e, IF e.color = NoColor THEN color ELSE e.color)
       IN [From(Directive(f, d.next, d.args)) EXCEPT !.out = d.out \o @]
vprintf(f, args, color) ==
  VprintfAfter(f, [next |-> 1, args |-> args, out |-> <<>>, color |-> NoColor], color)

\* vsnprintf(): at most `size` characters are stored, and then a NUL where there is
\* still room, or over the last one.
\* Mutant of Stored: the NUL is only stored where there is room.
StoredUnended(out, size) == IF Len(out) < size THEN Append(out, End) ELSE SubSeq(out, 1, size)
Stored(out, size) ==
  IF size = 0 THEN <<>>
  ELSE IF Len(out) < size THEN Append(out, End)
  ELSE [SubSeq(out, 1, size) EXCEPT ![size] = End]
vsnprintf(size, f, args) ==
  LET Into(out) == [buf |-> Stored(out, size), n |-> Len(out)]
  IN Into(vprintf(f, args, 0).out)

-----------------------------------------------------------------------------
(* Properties.  A directive is a record of its flags, width and precision  *)
(* (None, or a number that is written or, with a star, an argument), its   *)
(* length modifier, its conversion and the value to print.                 *)

None == 0 - 1
WrittenAs(n, star) == IF n = None THEN <<>> ELSE IF star THEN <<"*">> ELSE <<lower_digits[n + 1]>>
FormatOf(d) ==
  <<"%">> \o SetToSeq(d.flags) \o WrittenAs(d.width, d.star)
  \o (IF d.precision = None THEN <<>> ELSE <<".">> \o WrittenAs(d.precision, d.star))
  \o d.length \o <<d.conv>>
ArgumentsOf(d) ==
  SelectSeq(<<d.width, d.precision>>, LAMBDA n : d.star /\ n # None) \o <<d.value>>

\* What a directive prints before another one and a character in between.
BeforeRest(out) ==
  IF Len(out) > 1 /\ SubSeq(out, Len(out) - 1, Len(out)) = <<"!", "7">>
  THEN SubSeq(out, 1, Len(out) - 2) ELSE <<"nothing">>
Printed(d) ==
  BeforeRest(vprintf(FormatOf(d) \o <<"!", "%", "d">>, ArgumentsOf(d) \o <<7>>, 0).out)

\* The number a field shows, told from its characters.
FromField(chars, base) ==
  LET digits == SelectSeq(chars, LAMBDA ch : ch \in ToSet(lower_digits) \cup ToSet(upper_digits))
      value(ch) == IF ch \in ToSet(lower_digits)
                   THEN (CHOOSE i \in 1 .. 16 : lower_digits[i] = ch) - 1
                   ELSE (CHOOSE i \in 1 .. 16 : upper_digits[i] = ch) - 1
  IN FoldLeft(LAMBDA n, ch : n * base + value(ch), 0, digits)
Least(a, b) == IF a < b THEN a ELSE b

\* The parts of a field of a number: blanks, sign or prefix, digits, blanks.
NumberField(d, left, prefix, digits, right) ==
  LET base == IF d.conv \in {"x", "X", "p"} THEN 16 ELSE 10
      bits == IF d.length = <<"l">> \/ d.conv = "p" THEN PTR_BITS ELSE INT_BITS
      zero == "0" \in d.flags /\ "-" \notin d.flags /\ d.precision = None
      hasMark == digits # <<>> /\ \E i \in DOMAIN digits : digits[i] \in {",", "'"}
      marks == SelectSeq(digits, LAMBDA ch : ch \notin {",", "'"})
  IN /\ FromField(digits, base) =
          IF d.conv = "d" THEN (IF d.value < 0 THEN 0 - d.value ELSE d.value)
          ELSE d.value % 2 ^ bits
     /\ prefix = IF d.conv = "d" /\ d.value < 0 THEN <<"-">>
                 ELSE IF d.conv = "d" /\ "+" \in d.flags THEN <<"+">>
                 ELSE IF d.conv = "d" /\ " " \in d.flags THEN <<" ">>
                 ELSE IF d.conv = "p" \/ (d.conv = "x" /\ "#" \in d.flags /\ d.value # 0)
                 THEN <<"0", "x">>
                 ELSE <<>>
     \* at least `precision` digits, no zero in front that is not asked for
     /\ Len(digits) >= d.precision
     /\ (Len(digits) > Most(1, d.precision) /\ ~zero) => digits[1] # "0"
     \* the width is filled: with blanks on one side, or with zeros
     /\ Len(left) + Len(prefix) + Len(digits) + Len(right) >= d.width
     /\ left \o right # <<>> =>
          Len(left) + Len(prefix) + Len(digits) + Len(right) = d.width /\ ~zero
     /\ (zero /\ Len(prefix) + Len(digits) > Most(d.width, 0)) =>
          Len(marks) = 1 \/ digits[1] # "0"
     /\ IF "-" \in d.flags THEN left = <<>> ELSE right = <<>>
     \* marks only if asked for, every three or four digits from the right
     /\ hasMark => "'" \in d.flags
     /\ ("'" \in d.flags /\ d.precision = None /\ ~zero) =>
          \A i \in DOMAIN digits :
            digits[i] \in {",", "'"} <=>
              (Len(digits) - i + 1) % (1 + IF base = 10 THEN 3 ELSE 4) = 0

\* Whatever the flags, width and precision, a number's field shows the number, and a
\* text's field the text or as much of it as the precision lets through; the
\* arguments that follow are not mixed up.
PrintfRight(d) ==
  LET shown == SubSeq(d.value, 1, IF d.precision = None THEN Len(d.value)
                                  ELSE Least(d.precision, Len(d.value)))
      pad == Copies(" ", d.width - Len(shown))
  IN \A out \in {Printed(d)} :
       LET n == Len(out) IN
       IF d.conv = "s"
       THEN out = IF "-" \in d.flags THEN shown \o pad ELSE pad \o shown
       ELSE \E a \in 0 .. n, p \in 0 .. 2, z \in 0 .. n :
              /\ a + p + z <= n
              /\ \A i \in (1 .. a) \cup (n - z + 1 .. n) : out[i] = " "
              /\ NumberField(d, SubSeq(out, 1, a), SubSeq(out, a + 1, a + p),
                             SubSeq(out, a + p + 1, n - z), SubSeq(out, n - z + 1, n))

\* A buffer of any size gets what fits in it, always with a NUL, and the length
\* returned is that of the whole.
SnprintfRight(size, d) ==
  \A out \in {Printed(d)}, r \in {vsnprintf(size, FormatOf(d), ArgumentsOf(d))} :
    /\ r.n = Len(out)
    /\ size = 0 => r.buf = <<>>
    /\ size > 0 => r.buf = Append(SubSeq(out, 1, Least(size - 1, Len(out))), End)
=============================================================================
