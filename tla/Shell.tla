------------------------------- MODULE Shell --------------------------------
(***************************************************************************)
(* The shell of pset4 as handed out: the loop of sh61.cc that reads lines  *)
(* and runs them, and the tokenizer and parsers of helpers.cc.  A          *)
(* character is a string of length one, a newline is "n"; positions in a   *)
(* buffer start at 0 and its terminating NUL is at Len(s).                 *)
(***************************************************************************)
EXTENDS Integers, Sequences, FiniteSets, SequencesExt

CONSTANTS
  Scripts,   \* what the shell may be given to read
  BUFSIZ,    \* size of main()'s buffer
  MAX_EINTR  \* bound on interrupted reads

NUL == "0"

\* Scripts are text.
ASSUME ShellAssumption ==
  /\ Scripts \subseteq Seq(STRING)
  /\ \A s \in Scripts : \A i \in 1 .. Len(s) : s[i] # NUL
  /\ BUFSIZ \in Nat /\ BUFSIZ > 1 /\ MAX_EINTR \in Nat

At(s, p) == IF p < Len(s) THEN s[p + 1] ELSE NUL
isspace(ch) == ch \in {" ", "n"}
isdigit(ch) == ch = "1"
isshellspecial(ch) == ch \in {"<", ">", "&", "|", ";", "(", ")", "#"}
Quotes == {"'", "\""}

\* The first position from p on, up to end, whose character is not in the class.
SkipWhile(s, p, end, Class(_)) ==
  CHOOSE q \in p .. end : /\ q = end \/ ~Class(At(s, q))
                          /\ \A k \in p .. q - 1 : Class(At(s, k))

\* Blanks, and then a comment, are skipped.
\* Mutant of skip_shell_space: blanks only.
SkipBlanks(s, p, end) == SkipWhile(s, p, end, isspace)
skip_shell_space(s, p, end) ==
  LET q == SkipWhile(s, p, end, isspace)
  IN IF q # end /\ At(s, q) = "#" THEN end ELSE q

-----------------------------------------------------------------------------
(* shell_tokenizer: a record of the members of the class; the buffer it    *)
(* points into is a parameter.                                             *)

TokenTypes == {"NORMAL", "REDIRECT_OP", "SEQUENCE", "BACKGROUND", "PIPE", "AND", "OR",
               "LPAREN", "RPAREN", "OTHER", "EOL"}

\* The loop over an ordinary word that starts at `from`: where it is, the quote it
\* is in, and whether the word has quotes or escapes in it.
WordOver(s, end, w) ==
  \/ w.at = end
  \/ w.curquote = NUL /\ (isspace(At(s, w.at)) \/ isshellspecial(At(s, w.at)))
WordStep(s, end, w) ==
  LET ch == At(s, w.at) IN
  IF ch \in Quotes /\ w.curquote = NUL
  THEN [at |-> w.at + 1, curquote |-> ch, quoted |-> TRUE]
  ELSE IF ch = w.curquote
  THEN [at |-> w.at + 1, curquote |-> NUL, quoted |-> w.quoted]
  ELSE IF ch = "\\" /\ w.at + 1 # end /\ w.curquote # "'"
  THEN [at |-> w.at + 2, curquote |-> w.curquote, quoted |-> TRUE]
  ELSE [at |-> w.at + 1, curquote |-> w.curquote, quoted |-> w.quoted]
WordEnd(s, from, end) ==
  LET scan[w \in [at : from .. end, curquote : Quotes \cup {NUL}, quoted : BOOLEAN]] ==
        IF WordOver(s, end, w) THEN w ELSE scan[WordStep(s, end, w)]
  IN scan[[at |-> from, curquote |-> NUL, quoted |-> FALSE]]

\* A redirection: digits, < or >, and digits or a second >.  NotRedirect if
\* there is none.
NotRedirect == 0 - 1
RedirectEnd(s, from, end) ==
  LET p == SkipWhile(s, from, end, isdigit) IN
  IF p = end \/ At(s, p) \notin {"<", ">"} THEN NotRedirect
  ELSE IF p + 1 # end /\ At(s, p + 1) = ">" THEN p + 2
  ELSE SkipWhile(s, p + 1, end, isdigit)

OneCharType(ch) ==
  CASE ch = ";" -> "SEQUENCE" [] ch = "&" -> "BACKGROUND" [] ch = "|" -> "PIPE"
    [] ch = "(" -> "LPAREN" [] ch = ")" -> "RPAREN" [] OTHER -> "OTHER"

IsDouble(s, p, end) ==
  At(s, p) \in {"&", "|"} /\ p + 1 # end /\ At(s, p + 1) = At(s, p)

\* operator++: the token at position `at`, which is not blank.
TokenAt(s, at, end) ==
  LET tok(type, q, quoted) ==
        [s |-> at, len |-> q - at, end |-> end, type |-> type, quoted |-> quoted]
      word(w) == tok("NORMAL", w.at, w.quoted)
  IN IF at = end THEN tok("EOL", at, FALSE)
     ELSE IF RedirectEnd(s, at, end) # NotRedirect
     THEN tok("REDIRECT_OP", RedirectEnd(s, at, end), FALSE)
     ELSE IF IsDouble(s, at, end)
     THEN tok(IF At(s, at) = "&" THEN "AND" ELSE "OR", at + 2, FALSE)
     ELSE IF isshellspecial(At(s, at)) THEN tok(OneCharType(At(s, at)), at + 1, FALSE)
     ELSE word(WordEnd(s, at, end))
TokenFrom(s, p, end) == TokenAt(s, skip_shell_space(s, p, end), end)

Tokenizer(s, first, last) == TokenFrom(s, first, last)
Advance(s, t) == TokenFrom(s, t.s + t.len, t.end)

\* str() of a token that is not marked as quoted is its characters; otherwise
\* quotes and the backslashes of escapes are left out.  Past the end of the token
\* the loop does not stop: Overrun.
Overrun == "overrun"
\* Mutant of str: always its characters.
Verbatim(s, t) == SubSeq(s, t.s + 1, t.s + t.len)
str(s, t) ==
  LET build[w \in [pos : 0 .. t.len + 1, curquote : Quotes \cup {NUL}]] ==
        LET ch == At(s, t.s + w.pos)
            after == At(s, t.s + w.pos + 1)
            rest(n, curquote) == build[[pos |-> w.pos + n, curquote |-> curquote]]
        IN IF w.pos = t.len THEN <<>>
           ELSE IF w.pos > t.len THEN <<Overrun>>
           ELSE IF ch \in Quotes /\ w.curquote = NUL THEN rest(1, ch)
           ELSE IF ch = w.curquote THEN rest(1, NUL)
           ELSE IF ch = "\\" /\ after # NUL /\ w.curquote # "'"
           THEN <<after>> \o rest(2, w.curquote)
           ELSE <<ch>> \o rest(1, w.curquote)
  IN IF t.quoted THEN build[[pos |-> 0, curquote |-> NUL]]
     ELSE SubSeq(s, t.s + 1, t.s + t.len)

\* The tokens of a region, as `for (tok = token_begin(); tok != end(); ++tok)`
\* sees them.
TokensIn(first, last) ==
  {t \in [s : first .. last, len : 0 .. last, end : {last}, type : TokenTypes,
          quoted : BOOLEAN] : t.s + t.len <= last}
Tokens(s, first, last) ==
  LET from[t \in TokensIn(first, last)] ==
        IF t.s = last THEN <<>> ELSE <<t>> \o from[Advance(s, t)]
  IN from[Tokenizer(s, first, last)]

-----------------------------------------------------------------------------
(* shell_parser: a record of the members of the class.                     *)

Parser(s, first, stop, last) ==
  [s |-> skip_shell_space(s, first, stop), stop |-> stop, end |-> last]
CommandLine(s) == Parser(s, 0, Len(s), Len(s))
EndOf(s, p) == Parser(s, p.stop, p.stop, p.end)
SameRegion(p, q) == p.s = q.s /\ p.stop = q.stop
next_op(s, p) == Tokenizer(s, p.stop, p.end).type

TYPEMASK_CONDITIONAL == {"SEQUENCE", "EOL", "BACKGROUND"}
TYPEMASK_PIPELINE == TYPEMASK_CONDITIONAL \cup {"AND", "OR"}
\* Mutant of TYPEMASK_COMMAND: the pipe is missing.
TYPEMASK_NOPIPE == TYPEMASK_PIPELINE
TYPEMASK_COMMAND == TYPEMASK_PIPELINE \cup {"PIPE"}

\* From token t on, the first one in the mask.  (No token is of TYPE_OTHER: see
\* TokensCover.)
Delimiter(s, t, mask) ==
  LET find[u \in TokensIn(0, t.end)] ==
        IF u.type = "OTHER" \/ u.type \in mask THEN u ELSE find[Advance(s, u)]
  IN find[t]

\* Blanks before position p are taken off, down to `from`.
TrimTo(s, from, p) ==
  CHOOSE q \in from .. p : /\ q = from \/ ~isspace(At(s, q - 1))
                           /\ \A k \in q .. p - 1 : isspace(At(s, k))

first_delimited(s, p, mask) ==
  Parser(s, p.s, TrimTo(s, p.s, Delimiter(s, Tokenizer(s, p.s, p.stop), mask).s), p.stop)

\* Mutant of AfterDelimiter: the delimiter is not stepped over if it is EOL's kin.
NotStepped(s, t, mask) == IF t.type \in mask \ {"BACKGROUND"} THEN Advance(s, t) ELSE t
AfterDelimiter(s, t, mask) == IF t.type \in mask THEN Advance(s, t) ELSE t

next_delimited(s, p, mask) ==
  LET Region(t) == [s |-> t.s, stop |-> TrimTo(s, t.s, Delimiter(s, t, mask).s), end |-> p.end]
  IN Region(AfterDelimiter(s, Tokenizer(s, p.stop, p.end), mask))

\* The regions `for (it = p.X_begin(); it != p.end(); ++it)` visits.  Stuck stands
\* for a loop that does not end: no loop makes more rounds than there are
\* characters.
Stuck == [s |-> 0 - 1, stop |-> 0 - 1, end |-> 0 - 1]
Regions(s, p, mask) ==
  LET regions == {it \in [s : 0 .. Len(s), stop : 0 .. Len(s), end : {p.stop}] :
                    it.stop <= it.end}
      from[x \in [it : regions, n : 0 .. Len(s) + 1]] ==
        IF SameRegion(x.it, EndOf(s, p)) THEN <<>>
        ELSE IF x.n > Len(s) THEN <<Stuck>>
        ELSE <<x.it>> \o from[[it |-> next_delimited(s, x.it, mask), n |-> x.n + 1]]
  IN from[[it |-> first_delimited(s, p, mask), n |-> 0]]

-----------------------------------------------------------------------------
(* main() of sh61.cc.                                                      *)

VARIABLES
  script,    \* all the input
  given,     \* the input without what interrupted reads have lost (history)
  rest,      \* input that has not been read
  buf,       \* the string in buf; bufpos is its length
  eof,       \* feof(command_file)
  quiet,     \* option -q
  needprompt,
  prompts,   \* prompts printed
  ran,       \* lines given to run_line()
  eintr,     \* interrupted reads
  pc

vars == <<script, given, rest, buf, eof, quiet, needprompt, prompts, ran, eintr, pc>>

Init ==
  /\ script \in Scripts /\ given = script /\ rest = script
  /\ buf = <<>> /\ eof = FALSE
  /\ quiet \in BOOLEAN /\ needprompt = TRUE /\ prompts = 0
  /\ ran = <<>>
  /\ eintr = 0
  /\ pc = "start"

\* main() may not be able to open its file, and claim_foreground(0) asserts that
\* there is a terminal.  (The shell's own group is in the foreground before and
\* after that call, or the terminal is left alone.)
Start ==
  /\ pc = "start"
  /\ pc' \in {"top", "failed", "aborted"}
  /\ UNCHANGED <<script, given, rest, buf, eof, quiet, needprompt, prompts, ran, eintr>>

\* The shell prints a prompt at the beginning of a line.
\* Mutant of Prompt: whenever it reads.
PromptAlways == /\ prompts' = IF quiet THEN prompts ELSE prompts + 1
                /\ needprompt' = needprompt
Prompt == IF needprompt /\ ~quiet
          THEN prompts' = prompts + 1 /\ needprompt' = FALSE
          ELSE UNCHANGED <<prompts, needprompt>>

\* The top of the loop; feof() ends it.
Top ==
  /\ pc = "top"
  /\ IF eof THEN pc' = "done" /\ UNCHANGED <<prompts, needprompt>>
     ELSE pc' = "read" /\ Prompt
  /\ UNCHANGED <<script, given, rest, buf, eof, quiet, ran, eintr>>

\* The characters fgets(..., n, ...) takes: to the end of the line, but no more
\* than n - 1.
Fgets(n) ==
  LET k == CHOOSE k \in 0 .. Len(rest) :
             /\ k = Len(rest) \/ k = n - 1 \/ (k > 0 /\ rest[k] = "n")
             /\ \A j \in 1 .. k - 1 : rest[j] # "n" /\ j < n - 1
  IN SubSeq(rest, 1, k)

\* The room main() tells fgets() of.
\* Mutant of Room: one more.
RoomForOneMore == BUFSIZ - Len(buf) + 1
Room == BUFSIZ - Len(buf)

\* The buffer after a line has been run.
\* Mutant of Emptied: bufpos is not reset.
NotReset(b) == b
Emptied(b) == <<>>

\* Whether main() has a line to run.
\* Mutant of Complete: a line that fills the buffer is read on.
CompleteLine(b) == b # <<>> /\ Last(b) = "n"
Complete(b) == Len(b) = BUFSIZ - 1 \/ (b # <<>> /\ Last(b) = "n")

\* run_line(): the command's arguments are all tokens of the line.
Args(line) == LET Strings(t) == [i \in DOMAIN t |-> str(line, t[i])]
              IN Strings(Tokens(line, CommandLine(line).s, Len(line)))

\* command::run() asserts that there is an argument.
NoArgs(line) == SameRegion(CommandLine(line), EndOf(line, CommandLine(line)))

\* fgets() returns something, and the line is run if it is complete.
Read ==
  /\ pc = "read"
  /\ \E got \in {Fgets(Room)}, b \in {buf \o Fgets(Room)} :
        /\ got # <<>> \/ Room = 1
        /\ rest' = SubSeq(rest, Len(got) + 1, Len(rest))
        /\ eof' = (Len(got) < Room - 1 /\ (got = <<>> \/ Last(got) # "n"))
        /\ IF Complete(b)
           THEN /\ ran' = Append(ran, b)
                /\ buf' = Emptied(b) /\ needprompt' = TRUE
                /\ pc' = IF NoArgs(b) THEN "aborted" ELSE "top"
           ELSE /\ buf' = b /\ pc' = "top"
                /\ UNCHANGED <<ran, needprompt>>
  /\ UNCHANGED <<script, given, quiet, prompts, eintr>>

\* fgets() returns nullptr at the end of the input.
ReadEnd ==
  /\ pc = "read" /\ rest = <<>> /\ Room > 1
  /\ eof' = TRUE /\ pc' = "done"
  /\ UNCHANGED <<script, given, rest, buf, quiet, needprompt, prompts, ran, eintr>>

\* fgets() fails after it has taken some characters of a line, or none.  They are
\* in the buffer, but main() goes back to the string it had.
FgetsFails ==
  \E k \in 0 .. Len(rest) :
    /\ k < Room - 1 /\ \A j \in 1 .. k : rest[j] # "n"
    /\ rest' = SubSeq(rest, k + 1, Len(rest))
    /\ given' = SubSeq(given, 1, Len(given) - Len(rest)) \o rest'

\* ... because it is interrupted, and main() goes on.
ReadInterrupted ==
  /\ pc = "read" /\ eintr < MAX_EINTR
  /\ FgetsFails
  /\ eintr' = eintr + 1
  /\ pc' = "top"
  /\ UNCHANGED <<script, buf, eof, quiet, needprompt, prompts, ran>>

\* ... or in another way.
ReadFails ==
  /\ pc = "read" /\ pc' = "failed"
  /\ FgetsFails
  /\ UNCHANGED <<script, buf, eof, quiet, needprompt, prompts, ran, eintr>>

Ended == {"done", "failed", "aborted"}
Over == pc \in Ended /\ UNCHANGED vars

Next == Start \/ Top \/ Read \/ ReadEnd \/ ReadInterrupted \/ ReadFails \/ Over

Spec == Init /\ [][Next]_vars /\ WF_vars(Start \/ Top \/ Read \/ ReadEnd)

-----------------------------------------------------------------------------
(* Properties.                                                             *)

\* main()'s variables have their types, and the buffer has room for its NUL.
TypeOK ==
  /\ given \in Seq(STRING) /\ rest \in Seq(STRING) /\ buf \in Seq(STRING) /\ Len(buf) < BUFSIZ
  /\ eof \in BOOLEAN /\ quiet \in BOOLEAN /\ needprompt \in BOOLEAN
  /\ prompts \in Nat /\ eintr \in 0 .. MAX_EINTR
  /\ pc \in {"start", "top", "read"} \cup Ended

\* Every character that is given is run once and in order, however lines, the end of
\* the file, interruptions and the end of the buffer fall together; at the end only a
\* last line without a newline is left.  All the input is given but for what a read
\* that was interrupted within a line had taken of it: main() drops that, although
\* it means to "ignore EINTR errors".
NothingLost ==
  /\ FlattenSeq(ran) \o buf \o rest = given
  /\ eintr = 0 /\ pc # "failed" => given = script
  /\ pc = "done" => rest = <<>> /\ ~Contains(buf, "n")

\* "Print the prompt at the beginning of the line": one for each line.
PromptPerLine == pc = "read" => prompts = IF quiet THEN 0 ELSE Len(ran) + 1

\* The loop ends: a line that fills the buffer does not stop it.
ShellEnds == <>(pc \in Ended)

\* The line that has just been run, for the properties of the parsers.  Prompts and
\* interruptions play no part in these: it is looked at in the states without.
Lines == IF pc = "top" /\ ran # <<>> /\ quiet /\ eintr = 0 THEN {Last(ran)} ELSE {}

\* The tokens t of a line are in order and not empty, nothing but blanks and a
\* comment is between them, none is of TYPE_OTHER, and a word is marked as quoted
\* iff it "contains quotes or escapes".
Cover(line, t) ==
  LET startOf(i) == IF i > Len(t) THEN Len(line) ELSE t[i].s
      endOf(i) == IF i = 0 THEN 0 ELSE t[i].s + t[i].len
  IN /\ \A i \in 1 .. Len(t) :
          /\ t[i].len > 0 /\ t[i].type # "OTHER"
          /\ t[i].type = "NORMAL" =>
               (t[i].quoted <=>
                  \E p \in t[i].s .. endOf(i) - 1 :
                    At(line, p) \in Quotes \/ (At(line, p) = "\\" /\ p + 1 < Len(line)))
     /\ \A i \in 0 .. Len(t) :
          LET gap == SubSeq(line, endOf(i) + 1, startOf(i + 1)) IN
          /\ endOf(i) <= startOf(i + 1)
          /\ \A k \in DOMAIN gap : isspace(gap[k])
                                   \/ (i = Len(t) /\ \E j \in 1 .. k : gap[j] = "#")
TokensCover == \A line \in Lines : Cover(line, Tokens(line, 0, Len(line)))

\* A command's trimmed end is in the middle of a word: a blank there is escaped, or
\* in an open quote.  first_delimited() cuts it off all the same.  The token may then
\* end in the backslash of the escape, and str(), which steps over the character
\* after it, misses the token's end and goes on.
CutsWord(line) ==
  \E t \in ToSet(Tokens(line, 0, Len(line))) : isspace(At(line, t.s + t.len - 1))

\* What the loops over the conditionals of a line, the pipelines in them and the
\* commands in these see, with the operator next_op() finds after each region.
SeenIn(s, p) == LET Seen(t) == [i \in DOMAIN t |-> <<t[i].type, str(s, t[i])>>]
                IN Seen(Tokens(s, p.s, p.stop))
OpAfter(s, p) == LET Op(t) == IF t.type = "EOL" THEN <<>> ELSE <<<<t.type, str(s, t)>>>>
                 IN Op(Tokenizer(s, p.stop, p.end))
Masks == {TYPEMASK_CONDITIONAL, TYPEMASK_PIPELINE, TYPEMASK_COMMAND}
Visit(s, r, See(_)) == FlattenSeq([i \in DOMAIN r |-> See(r[i]) \o OpAfter(s, r[i])])
SeenByLoops(s) ==
  LET Command(p) == SeenIn(s, p)
      Pipeline(p) == Visit(s, Regions(s, p, TYPEMASK_COMMAND), Command)
      Conditional(p) == Visit(s, Regions(s, p, TYPEMASK_PIPELINE), Pipeline)
  IN Visit(s, Regions(s, CommandLine(s), TYPEMASK_CONDITIONAL), Conditional)

\* Commands in pipelines in conditionals: together with the operators between
\* them they are exactly the tokens of the line, each once and in order, and no
\* loop goes on for ever.  Lines that end a command in the middle of a word, which
\* the code reads wrong, are left out.
ParsersSeeAll ==
  \A line \in Lines :
    ~CutsWord(line) =>
      /\ \A mask \in Masks :
           \A r \in ToSet(Regions(line, CommandLine(line), mask)) :
             /\ r # Stuck
             /\ next_op(line, r) \in mask
             /\ \A t \in ToSet(Tokens(line, r.s, r.stop)) : t.type \notin mask
      /\ SeenByLoops(line) = SeenIn(line, CommandLine(line))

\* The words of a line of words, by an automaton that reads one character at a
\* time: what quotes and escapes mean to a reader.
Reader(words, word, in, quote, esc) ==
  [words |-> words, word |-> word, in |-> in, quote |-> quote, esc |-> esc]
NoWords == Reader(<<>>, <<>>, FALSE, NUL, FALSE)
AddChar(w, ch) == Reader(w.words, Append(w.word, ch), TRUE, w.quote, FALSE)
ReadChar(w, ch) ==
  CASE w.esc -> AddChar(w, ch)
    [] ~w.esc /\ ch = "\\" /\ w.quote # "'" -> Reader(w.words, w.word, TRUE, w.quote, TRUE)
    [] ~w.esc /\ ch \in Quotes /\ w.quote = NUL -> Reader(w.words, w.word, TRUE, ch, FALSE)
    [] ~w.esc /\ ch = w.quote -> Reader(w.words, w.word, w.in, NUL, FALSE)
    [] ~w.esc /\ isspace(ch) /\ w.quote = NUL ->
         IF w.in THEN Reader(Append(w.words, w.word), <<>>, FALSE, NUL, FALSE) ELSE w
    [] OTHER -> AddChar(w, ch)
WordsOf(line) ==
  LET read[i \in 0 .. Len(line)] ==
        IF i = 0 THEN NoWords ELSE ReadChar(read[i - 1], line[i])
      all == read[Len(line)]
      last == IF all.esc THEN AddChar(all, "\\") ELSE all
  IN IF last.in THEN Append(last.words, last.word) ELSE last.words

\* A command has an argument if it is run; its arguments are the words of its line
\* with quoting undone.
ArgsRight ==
  \A line \in Lines :
    /\ Args(line) # <<>>
    /\ (\A i \in DOMAIN line : ~isshellspecial(line[i])) => Args(line) = WordsOf(line)

\* The shell reads every character once, unless a read within a line is interrupted,
\* and prompts once per line.
LoopRight == TypeOK /\ NothingLost /\ PromptPerLine

\* Tokenizer, parsers and unquoting give every line its tokens, commands and words.
LinesParsed == TokensCover /\ ParsersSeeAll /\ ArgsRight
=============================================================================
