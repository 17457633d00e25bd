-------------------------------- MODULE Args --------------------------------
(***************************************************************************)
(* io61_args of pset5 (helpers.cc): the sizes a user may write, the        *)
(* options of the copy programs, and the restart under strace.  A size is  *)
(* a sequence of characters, which are strings of length one.              *)
(***************************************************************************)
EXTENDS Integers, Sequences, FiniteSets, SequencesExt

CONSTANTS
  SIZE_MAX,       \* the largest size_t
  KILO,           \* 1024
  DBL_BITS,       \* bits of a double's significand (53)
  CommandLines,   \* sequences of <<option, argument>>; a file has the option "file"
  ManyInputs, ManyOutputs,  \* whether the program's opts has # and ##
  DefaultBlock    \* its block size

ASSUME ArgsAssumption ==
  /\ {SIZE_MAX, KILO, DBL_BITS, DefaultBlock} \subseteq Nat
  /\ \E i \in 1 .. KILO : KILO = 2 ^ i
  /\ DBL_BITS > 0 /\ 2 ^ DBL_BITS < SIZE_MAX

-----------------------------------------------------------------------------
(* parse_size().                                                           *)

nullopt == 0 - 1
DecimalDigits == <<"0", "1", "2", "3", "4", "5", "6", "7", "8", "9">>
HexDigits == DecimalDigits \o <<"a", "b", "c", "d", "e", "f">>
ValueIn(digits, ch) == (CHOOSE i \in DOMAIN digits : digits[i] = ch) - 1
CharAt(s, p) == IF p \in DOMAIN s THEN s[p] ELSE "NUL"

\* The first position from p on that holds no digit, and the digits' value.
DigitsEnd(s, p, digits) ==
  CHOOSE q \in p .. Len(s) + 1 : /\ CharAt(s, q) \notin ToSet(digits)
                                 /\ \A k \in p .. q - 1 : s[k] \in ToSet(digits)
DigitsValue(s, p, q, digits) ==
  FoldLeft(LAMBDA n, ch : n * Len(digits) + ValueIn(digits, ch), 0, SubSeq(s, p, q - 1))

\* The double nearest to num / den, as a fraction: a significand of DBL_BITS bits,
\* of two as near the even one, times a power of two.  (The exponents of a double
\* do not run out.)
Pow2(i) == IF i < 0 THEN 1 ELSE 2 ^ i
Double(num, den) ==
  LET n(e) == num * Pow2(0 - e)
      d(e) == den * Pow2(e)
      exp == CHOOSE e \in (0 - 20) .. 20 :
               n(e) \div d(e) \in 2 ^ (DBL_BITS - 1) .. 2 ^ DBL_BITS - 1
      q == n(exp) \div d(exp)
      twice == 2 * (n(exp) % d(exp))
      up == twice > d(exp) \/ (twice = d(exp) /\ q % 2 = 1)
  IN IF num = 0 THEN [num |-> 0, den |-> 1]
     ELSE [num |-> (IF up THEN q + 1 ELSE q) * Pow2(exp), den |-> Pow2(0 - exp)]

\* strtoul() and strtod(): where they stop, and what they read.  (Signs, blanks and
\* a second 0x, which strtoul() would also take after 0x, are left out.)
Whole(s, p, digits) ==
  LET q == DigitsEnd(s, p, digits)
      v == DigitsValue(s, p, q, digits)
  IN [ptr |-> q, v |-> IF v > SIZE_MAX THEN SIZE_MAX ELSE v, erange |-> v > SIZE_MAX]
strtod(s) ==
  LET q == DigitsEnd(s, 1, DecimalDigits)
      r == IF CharAt(s, q) = "." THEN DigitsEnd(s, q + 1, DecimalDigits) ELSE q
      none == r = q + 1 /\ q = 1
      places == IF r = q THEN 0 ELSE r - q - 1
      digits == SelectSeq(SubSeq(s, 1, r - 1), LAMBDA ch : ch # ".")
  IN [ptr |-> IF none THEN 1 ELSE r,
      fv |-> Double(DigitsValue(digits, 1, Len(digits) + 1, DecimalDigits), 10 ^ places)]

\* The factor of a suffix; 0 if it is none.
Suffix(ch) == CASE ch = "k" -> KILO [] ch = "m" -> KILO * KILO
                [] ch = "g" -> KILO * KILO * KILO [] OTHER -> 0

\* round(fv) == fv and fv < double(SIZE_MAX), which is 2^64.
\* Mutant of IsSize: the number may be rounded.
IsSizeRounded(num, den) == num < Double(SIZE_MAX, 1).num * den
IsSize(num, den) == num % den = 0 /\ num < Double(SIZE_MAX, 1).num * den

\* What is after the number: a suffix, or nothing.  Its factor is a power of two, by
\* which doubles are multiplied exactly.
Scaled(s, ptr, fv) ==
  LET factor == IF ptr > Len(s) THEN 1 ELSE Suffix(s[ptr])
  IN IF factor = 0 \/ ptr < Len(s) \/ ~IsSize(fv.num * factor, fv.den) THEN nullopt
     ELSE (fv.num * factor) \div fv.den

parse_size(s) ==
  LET hex == CharAt(s, 1) = "0" /\ CharAt(s, 2) = "x"
      whole == IF hex THEN Whole(s, 3, HexDigits)
               ELSE Whole(s, 1, DecimalDigits)
      f == strtod(s)
  IN IF whole.ptr = 1 /\ CharAt(s, 1) # "." THEN nullopt
     ELSE IF whole.ptr # 1 /\ whole.erange THEN nullopt
     ELSE IF whole.ptr # 1 /\ whole.ptr > Len(s) THEN whole.v
     ELSE IF hex THEN Scaled(s, whole.ptr, Double(whole.v, 1))
     ELSE IF f.ptr = 1 \/ Contains(s, "e") THEN nullopt
     ELSE Scaled(s, f.ptr, f.fv)

-----------------------------------------------------------------------------
(* io61_args::parse().                                                     *)

VARIABLES
  argv,     \* the command line
  optind,   \* the first argument getopt() has not looked at
  opt,      \* the members of io61_args
  bs, max_bs,
  strace,   \* the environment variable STRACE
  traced,   \* number of straces that run
  apc       \* "exec", "options", "files", "ready", "usage", "failed"

argsVars == <<argv, optind, opt, bs, max_bs, strace, traced, apc>>

NoFile == "nullptr"
ArgsInit ==
  /\ argv \in CommandLines /\ optind = 1
  /\ opt = [file_size |-> SIZE_MAX, block_size |-> DefaultBlock,
            max_block_size |-> DefaultBlock, stride |-> KILO, yield |-> 0,
            input_files |-> <<>>, output_files |-> <<>>,
            input_file |-> NoFile, output_file |-> NoFile]
  /\ bs = DefaultBlock /\ max_bs = DefaultBlock
  /\ strace \in {"", "0", "1", "2", "other"} /\ traced = 0
  /\ apc = "exec"

\* maybe_strace(): the program is run again under strace, which may not be there,
\* with STRACE cleared.
MaybeStrace ==
  /\ apc = "exec"
  /\ \/ /\ strace \in {"", "0"}
        /\ apc' = "options" /\ UNCHANGED <<strace, traced>>
     \/ /\ strace \in {"1", "2"} /\ traced < 2
        /\ strace' = "" /\ traced' = traced + 1 /\ apc' = "exec"
     \/ /\ strace \notin {"", "0"}
        /\ apc' = "failed" /\ UNCHANGED <<strace, traced>>
  /\ UNCHANGED <<argv, optind, opt, bs, max_bs>>

\* getopt() takes options first and leaves the files.
Options == SelectSeq(argv, LAMBDA a : a[1] # "file")
Files == SelectSeq(argv, LAMBDA a : a[1] = "file")

\* One round of the loop over the options.  The model has the ones with a size
\* (-p, -r, -P and -A are like -s), a counter, a switch and a file.
Option ==
  /\ apc = "options" /\ optind <= Len(Options)
  /\ optind' = optind + 1
  /\ LET a == Options[optind]
         sz == parse_size(a[2])
         usage == /\ apc' = "usage" /\ UNCHANGED <<opt, bs, max_bs>>
     IN \/ /\ a[1] = "s" /\ sz # nullopt
           /\ opt' = [opt EXCEPT !.file_size = sz] /\ UNCHANGED <<bs, max_bs, apc>>
        \/ /\ a[1] = "b" /\ sz \notin {nullopt, 0}
           /\ bs' = sz /\ UNCHANGED <<opt, max_bs, apc>>
        \/ /\ a[1] = "B" /\ sz \notin {nullopt, 0}
           /\ max_bs' = sz /\ UNCHANGED <<opt, bs, apc>>
        \/ /\ a[1] = "t" /\ sz \notin {nullopt, 0}
           /\ opt' = [opt EXCEPT !.stride = sz] /\ UNCHANGED <<bs, max_bs, apc>>
        \/ /\ a[1] = "y"
           /\ opt' = [opt EXCEPT !.yield = @ + 1] /\ UNCHANGED <<bs, max_bs, apc>>
        \/ /\ a[1] = "i"
           /\ opt' = [opt EXCEPT !.input_files = Append(@, a[2])]
           /\ UNCHANGED <<bs, max_bs, apc>>
        \/ /\ a[1] = "o"
           /\ opt' = [opt EXCEPT !.output_files = Append(@, a[2])]
           /\ UNCHANGED <<bs, max_bs, apc>>
        \/ a[1] = "s" /\ sz = nullopt /\ usage
        \/ a[1] \in {"b", "B", "t"} /\ sz \in {nullopt, 0} /\ usage
        \/ a[1] \notin {"s", "b", "B", "t", "y", "i", "o"} /\ usage
  /\ UNCHANGED <<argv, strace, traced>>

\* The files a program gets: nullptr, for the standard input or output, if none is
\* named.
OrNone(files) == IF files = <<>> THEN <<NoFile>> ELSE files
OnlyOne(files) == IF Len(files) = 1 THEN files[1] ELSE NoFile

\* Mutant of MaxBlock: -B is taken as it is.
MaxBlockGiven == max_bs
MaxBlock == IF bs > max_bs THEN bs ELSE max_bs

\* The rest of parse().  (-a sets a timer, -A a limit on memory.)
TakeFiles ==
  /\ apc = "options" /\ optind > Len(Options)
  /\ LET in == opt.input_files \o [i \in DOMAIN Files |-> Files[i][2]]
         out == opt.output_files
     IN \/ /\ (Len(in) > 1 /\ ~ManyInputs) \/ (Len(out) > 1 /\ ~ManyOutputs)
           /\ apc' = "usage" /\ UNCHANGED opt
        \/ /\ Len(in) > 1 => ManyInputs
           /\ Len(out) > 1 => ManyOutputs
           /\ apc' = "ready"
           /\ opt' = [opt EXCEPT !.input_files = OrNone(in), !.input_file = OnlyOne(in),
                                 !.output_files = OrNone(out), !.output_file = OnlyOne(out),
                                 !.block_size = bs, !.max_block_size = MaxBlock]
  /\ UNCHANGED <<argv, optind, bs, max_bs, strace, traced>>

ArgsNext == MaybeStrace \/ Option \/ TakeFiles

-----------------------------------------------------------------------------
(* Properties.                                                             *)

\* The number a text stands for, a fraction, told from all ways to divide the text
\* into a decimal and a suffix.  There is at most one way.
Numerals(n) ==
  {<<w, f, dot>> \in (0 .. n) \X (0 .. n) \X BOOLEAN : w + f > 0 /\ (f > 0 => dot)}
IsDecimal(s, w, f, dot) ==
  /\ Len(s) = w + f + (IF dot THEN 1 ELSE 0)
  /\ dot => s[w + 1] = "."
  /\ \A i \in DOMAIN s : (dot /\ i = w + 1) \/ s[i] \in ToSet(DecimalDigits)
DecimalValue(s, w, f) ==
  LET place(i) == IF i <= w THEN w + f - i ELSE w + f + 1 - i
      d(i) == IF s[i] = "." THEN 0 ELSE ValueIn(DecimalDigits, s[i]) * 10 ^ place(i)
  IN FoldLeft(LAMBDA n, i : n + d(i), 0, [i \in DOMAIN s |-> i])
NumbersOf(s) ==
  LET Cut(cut) == SubSeq(s, 1, cut)
      Unit(cut) == IF cut = Len(s) THEN 1 ELSE Suffix(s[Len(s)])
      Ways == {<<cut, x>> \in ({Len(s), Len(s) - 1} \cap Nat) \X Numerals(Len(s)) :
                 IsDecimal(Cut(cut), x[1], x[2], x[3]) /\ Unit(cut) # 0}
  IN {[num |-> DecimalValue(Cut(way[1]), way[2][1], way[2][2]) * Unit(way[1]),
       den |-> 10 ^ way[2][2],
       plain |-> way[1] = Len(s) /\ ~way[2][3]] : way \in Ways}

\* parse_size() refuses what is not a number with a suffix.  Digits alone are read
\* exactly, up to SIZE_MAX.  A number with a point or a suffix is read exactly if it
\* is whole and no larger than 2^53; it is refused only if it is not whole or, within
\* the error of a double, not below SIZE_MAX; and what is taken for it, even if it is
\* larger or not quite whole, is off by no more than that error.
SizeRight(s) ==
  LET n == parse_size(s)
      off(x) == IF n * x.den > x.num THEN n * x.den - x.num ELSE x.num - n * x.den
      WithDouble(x) ==
        /\ x.num % x.den = 0 /\ x.num <= 2 ^ DBL_BITS * x.den => n = x.num \div x.den
        /\ n = nullopt => \/ x.num % x.den # 0
                          \/ x.num * (2 ^ DBL_BITS + 1) >= SIZE_MAX * x.den * 2 ^ DBL_BITS
        /\ n # nullopt => n <= SIZE_MAX /\ off(x) * 2 ^ DBL_BITS <= x.num
  IN CharAt(s, 2) # "x" =>
       /\ NumbersOf(s) = {} => n = nullopt
       /\ \A x \in NumbersOf(s) :
            IF x.plain THEN n = IF x.num <= SIZE_MAX THEN x.num ELSE nullopt
            ELSE WithDouble(x)

\* The size the last option of this kind asks for.
LastSize(o, default) ==
  LET given == SelectSeq(Options, LAMBDA a : a[1] = o)
  IN IF given = <<>> THEN default ELSE parse_size(Last(given)[2])

\* What a program works with is what its command line says, in whatever order: the
\* last of repeated options, a block size that is not 0 and no larger than the
\* largest, every file once, and one traced run at most.
ArgsRight ==
  /\ traced <= 1
  /\ apc = "ready" =>
       /\ opt.block_size = LastSize("b", DefaultBlock)
       /\ opt.block_size > 0 \/ DefaultBlock = 0
       /\ opt.max_block_size >= opt.block_size
       /\ opt.max_block_size \in {opt.block_size, LastSize("B", DefaultBlock)}
       /\ opt.stride > 0 /\ opt.file_size # nullopt
       /\ opt.input_file # NoFile <=>
            Cardinality({i \in DOMAIN argv : argv[i][1] \in {"i", "file"}}) = 1
       /\ Len(opt.input_files) > 1 => ManyInputs
       /\ \A i \in DOMAIN argv : argv[i][1] \in {"i", "file"} =>
            Contains(opt.input_files, argv[i][2])
=============================================================================
