----------------------------- MODULE Generator ------------------------------
(***************************************************************************)
(* The contents of the files that the I/O tests read (iotest.cc): lines of *)
(* words, or binary data, from a random number generator, in buffers of at *)
(* least BUFFER characters.  A generator's draws are a sequence that       *)
(* repeats; a draw of binary data is one character here.                   *)
(***************************************************************************)
EXTENDS Integers, Sequences, SequencesExt

CONSTANTS
  words,       \* a sequence of words, which are sequences of characters
  MAX_WORDS,   \* words in a line, at most
  BUFFER       \* 65536

ASSUME GeneratorAssumption == {MAX_WORDS, BUFFER} \subseteq Nat \ {0} /\ Len(words) > 0

\* splitmix64: the i-th number a seed gives.
Draw(seed, i) == seed[(i % Len(seed)) + 1]

\* A line from the i-th number on, and the numbers used for it.
Line(seed, i) ==
  LET nwords == (Draw(seed, i) % MAX_WORDS) + 1
      word(k) == words[(Draw(seed, i + k) % Len(words)) + 1]
  IN [text |-> Append(FlattenSeq([k \in 1 .. nwords |->
                                    IF k = 1 THEN word(k) ELSE <<" ">> \o word(k)]), "n"),
      next |-> i + nwords + 1]
Piece(type, seed, i) ==
  IF type = "t" THEN Line(seed, i) ELSE [text |-> <<Draw(seed, i)>>, next |-> i + 1]

\* Pieces are added until the buffer is full.
RECURSIVE Fill(_, _, _, _)
Fill(type, seed, i, buf) ==
  IF Len(buf) >= BUFFER THEN [text |-> buf, next |-> i]
  ELSE LET piece == Piece(type, seed, i)
       IN Fill(type, seed, piece.next, buf \o piece.text)

\* The part of a buffer that is written.
\* Mutant of Written: of the last buffer, its end.
WrittenEnd(buf, n) == SubSeq(buf, Len(buf) - n + 1, Len(buf))
Written(buf, n) == SubSeq(buf, 1, n)

\* Buffer after buffer is written, the last one as far as it is needed.
RECURSIVE GenerateFrom(_, _, _, _)
GenerateFrom(type, size, seed, i) ==
  IF size = 0 THEN <<>>
  ELSE LET buf == Fill(type, seed, i, <<>>)
           n == IF Len(buf.text) < size THEN Len(buf.text) ELSE size
       IN Written(buf.text, n) \o GenerateFrom(type, size - n, seed, buf.next)
generate(type, size, seed) == GenerateFrom(type, size, seed, 0)

\* "a smaller file is a prefix of a larger file with the same seed", and a file is
\* as long as it should be.
FilesNest(type, size, seed) ==
  /\ Len(generate(type, size, seed)) = size
  /\ size > 0 => IsPrefix(generate(type, size - 1, seed), generate(type, size, seed))
=============================================================================
