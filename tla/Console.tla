------------------------------ MODULE Console -------------------------------
(***************************************************************************)
(* Printing on the console of WeensyOS: console_printer and its escape     *)
(* sequences (lib.cc), and the kernel's error printer, which also writes   *)
(* to the log (k-hardware.cc).  Processes print on the console's memory    *)
(* themselves and may be preempted between two characters; the kernel's    *)
(* error messages are not interrupted.                                     *)
(*                                                                         *)
(* A cell is a pair of a character and a colour.  Characters are strings:  *)
(* "n" is newline, "E" is ESC.  A colour is a record of two CGA colours.   *)
(***************************************************************************)
EXTENDS Integers, Sequences, FiniteSets, SequencesExt

CONSTANTS
  Printers,      \* processes that print
  CONSOLE_ROWS, CONSOLE_COLUMNS,
  EBUFSIZ,       \* size of an ansi_escape_buffer
  Texts,         \* what may be printed by a process
  Messages,      \* what may be an error message
  MAX_CALLS      \* bound on calls that print

ASSUME ConsoleAssumption ==
  /\ {CONSOLE_ROWS, CONSOLE_COLUMNS} \subseteq Nat \ {0, 1}
  /\ EBUFSIZ \in Nat /\ EBUFSIZ > 2 /\ MAX_CALLS \in Nat

END_CPOS == CONSOLE_ROWS * CONSOLE_COLUMNS
COLOR_GRAY == [fg |-> 7, bg |-> 0]
COLOR_ERROR == [fg |-> 15, bg |-> 12]
Blank == <<" ", COLOR_GRAY>>
ZeroCell == <<"0C", [fg |-> 0, bg |-> 0]>>

Row(con, r) == [c \in 0 .. CONSOLE_COLUMNS - 1 |-> con[r * CONSOLE_COLUMNS + c]]
console_line_is_blank(con, r) ==
  \A c \in 0 .. CONSOLE_COLUMNS - 1 :
    Row(con, r)[c][1] \in {" ", "0C"} /\ Row(con, r)[c][2].bg = 0

-----------------------------------------------------------------------------
(* A printer is a record of the members of console_printer (and, for an    *)
(* error printer, of its log_printer), together with the console it writes *)
(* to.                                                                     *)

\* console_printer::console_printer()
NewPrinter(con, mode, cpos, cursorpos, color) ==
  [con |-> con, scroll_mode |-> mode, scroll_blank |-> 0 - 1, ebuf |-> <<>>,
   color |-> color, logbuf |-> <<>>, log |-> <<>>,
   cell |-> IF cpos < 0 THEN cursorpos ELSE IF cpos <= END_CPOS THEN cpos ELSE 0]

\* error_printer::error_printer(): it starts below the last row, or goes on in it.
NewErrorPrinter(con, cursorpos) ==
  LET pr == NewPrinter(con, "scroll_blank", 0 - 1, cursorpos, COLOR_ERROR)
  IN IF pr.cell < END_CPOS - CONSOLE_COLUMNS THEN [pr EXCEPT !.cell = END_CPOS] ELSE pr

\* The top of the lowest block of blank rows above the last row; 0 if there is no
\* blank row.
\* Mutant of BlankBlock: only the lowest blank row, and not above it.
FirstRow(con) == 0
BlankBlock(con) ==
  LET up[r \in 0 .. CONSOLE_ROWS, blank \in BOOLEAN] ==
        IF r > 0 /\ console_line_is_blank(con, r - 1) = blank THEN up[r - 1, blank] ELSE r
  IN up[up[CONSOLE_ROWS - 1, FALSE], TRUE]

\* The rows from `first` on move up by one.
ScrollFrom(con, first) ==
  [p \in 0 .. END_CPOS - 1 |->
     IF p < first * CONSOLE_COLUMNS THEN con[p]
     ELSE IF p < END_CPOS - CONSOLE_COLUMNS THEN con[p + CONSOLE_COLUMNS]
     ELSE ZeroCell]

scroll(pr) ==
  LET blank == IF pr.scroll_mode = "scroll_blank" /\ pr.scroll_blank < 0
               THEN BlankBlock(pr.con)
               ELSE IF pr.scroll_blank > 0 /\ ~console_line_is_blank(pr.con, pr.scroll_blank)
               THEN 0
               ELSE pr.scroll_blank
  IN IF pr.scroll_mode = "scroll_off" THEN [pr EXCEPT !.cell = 0]
     ELSE [pr EXCEPT !.scroll_blank = blank, !.cell = @ - CONSOLE_COLUMNS,
                     !.con = ScrollFrom(@, IF blank > 0 THEN blank ELSE 0)]

\* console_printer::putc() of a character that is not part of an escape sequence.
\* A newline fills the row with blanks.
\* Mutant of MustScroll: a newline at the end of the last row does not scroll.
MustScrollFor(pr, ch) == pr.cell >= END_CPOS /\ ch # "n"
MustScroll(pr, ch) == pr.cell >= END_CPOS
Store(pr, ch) ==
  LET q == IF MustScroll(pr, ch) THEN scroll(pr) ELSE pr
      next == IF ch = "n" THEN (q.cell \div CONSOLE_COLUMNS + 1) * CONSOLE_COLUMNS
              ELSE q.cell + 1
      shown == IF ch = "n" THEN " " ELSE ch
  IN [q EXCEPT !.cell = next,
               !.con = [p \in 0 .. END_CPOS - 1 |->
                          IF p \in q.cell .. next - 1 THEN <<shown, q.color>> ELSE @[p]]]

\* ansi_escape_buffer::putc(): what an escape buffer becomes with ch, and whether
\* the sequence is not over ("more"), is a colour ("color"), or none ("flush").
EscapeStep(buf, ch) ==
  IF \/ buf = <<>>
     \/ Len(buf) = 1 /\ ch = "["
     \/ Len(buf) > 1 /\ Len(buf) + 1 < EBUFSIZ /\ ch \in {"1", "3", ";"}
  THEN "more"
  ELSE IF ch = "m" THEN "color" ELSE "flush"

\* The colour that the numbers of a sequence set, from the left.  (colormap: CGA
\* numbers red 4 and blue 1, ANSI the other way round.)
colormap == <<0, 4, 2, 6, 1, 5, 3, 7>>
SetColor(color, x) ==
  CASE x = 0 -> COLOR_GRAY
    [] x = 1 -> [color EXCEPT !.fg = (@ % 8) + 8]
    [] x = 2 -> [color EXCEPT !.fg = @ % 8]
    [] x = 7 -> [fg |-> color.bg, bg |-> color.fg]
    [] x \in 30 .. 37 -> [color EXCEPT !.fg = colormap[x - 29]]
    [] x \in 40 .. 47 -> [color EXCEPT !.bg = colormap[x - 39]]
    [] x \in 90 .. 97 -> [color EXCEPT !.fg = colormap[x - 89] + 8]
    [] x \in 100 .. 107 -> [color EXCEPT !.bg = colormap[x - 99] + 8]
    [] OTHER -> color
ColorDigit(ch) == CASE ch = "1" -> 1 [] ch = "3" -> 3
ColorOf(buf) ==
  LET step(st, ch) == IF ch \in {"1", "3"} THEN [st EXCEPT !.x = @ * 10 + ColorDigit(ch)]
                      ELSE [color |-> SetColor(st.color, st.x), x |-> 0]
  IN FoldLeft(step, [color |-> COLOR_GRAY, x |-> 0], SubSeq(buf, 3, Len(buf))).color

\* Mutant of LogPutc: colours are logged.
LogPutcAll(pr, ch) == [pr EXCEPT !.log = Append(@, ch)]
\* log_printer::putc(): the log has no colours.
LogPutc(pr, ch) ==
  LET buf == Append(pr.logbuf, ch) IN
  IF pr.logbuf = <<>> /\ ch # "E" THEN [pr EXCEPT !.log = Append(@, ch)]
  ELSE CASE EscapeStep(pr.logbuf, ch) = "more" -> [pr EXCEPT !.logbuf = buf]
         [] EscapeStep(pr.logbuf, ch) = "color" -> [pr EXCEPT !.logbuf = <<>>]
         [] OTHER -> [pr EXCEPT !.logbuf = <<>>, !.log = @ \o buf]

\* putc() while the buffer is flushed: it is a virtual function, and that of an
\* error printer logs the character.
FlushPutc(pr, ch) ==
  Store(IF pr.scroll_mode = "scroll_blank" THEN LogPutc(pr, ch) ELSE pr, ch)
flush(pr) == [FoldLeft(FlushPutc, pr, pr.ebuf) EXCEPT !.ebuf = <<>>]

\* putc()
putc(pr0, ch) ==
  LET pr == IF pr0.scroll_mode = "scroll_blank" THEN LogPutc(pr0, ch) ELSE pr0
      buf == Append(pr.ebuf, ch)
  IN IF pr.ebuf = <<>> /\ ch # "E" THEN Store(pr, ch)
     ELSE CASE EscapeStep(pr.ebuf, ch) = "more" -> [pr EXCEPT !.ebuf = buf]
            [] EscapeStep(pr.ebuf, ch) = "color" ->
                 [pr EXCEPT !.ebuf = <<>>, !.color = ColorOf(buf)]
            [] OTHER -> flush([pr EXCEPT !.ebuf = buf])

-----------------------------------------------------------------------------
VARIABLES
  console,    \* the cells of the screen
  cursorpos,  \* where the next text starts
  printing,   \* for each process, its printer and the text it has not put yet
  halted,     \* the kernel has panicked
  calls,      \* calls so far
  transcript, \* what was printed at the cursor, as if the screen had no end
  mixed,      \* ... or that means nothing: something else was printed
  last        \* an error message just printed: its log, and the screen before it

consoleVars == <<console, cursorpos, printing, halted, calls, transcript, mixed, last>>

NotPrinting == [on |-> FALSE]
NoMessage == [text |-> <<>>, con |-> <<>>, cursor |-> 0, log |-> <<>>]

\* console_clear()
ConsoleInit ==
  /\ console = [p \in 0 .. END_CPOS - 1 |-> Blank]
  /\ cursorpos = 0
  /\ printing = [p \in Printers |-> NotPrinting]
  /\ halted = FALSE /\ calls = 0
  /\ transcript = <<>> /\ mixed = FALSE /\ last = NoMessage

\* What a text shows, told from the whole text: a sequence of escapes sets the
\* colour, everything else is shown.
Params == {"1", "3", ";"}
IsSequence(t, i, j) ==
  \/ j = i + 1 /\ t[j] = "m"
  \/ /\ j > i + 1 /\ j - i < EBUFSIZ
     /\ t[i + 1] = "[" /\ t[j] = "m" /\ \A k \in i + 2 .. j - 1 : t[k] \in Params
BrokenAt(t, i) ==
  CHOOSE j \in i + 1 .. Len(t) + 1 :
    /\ j > Len(t) \/ (j = i + 1 /\ t[j] # "[") \/ (j > i + 1 /\ t[j] \notin Params)
       \/ j - i = EBUFSIZ - 1
    /\ \A k \in i + 2 .. j - 1 : t[k] \in Params
    /\ j > i + 1 => t[i + 1] = "["
    /\ j - i < EBUFSIZ
Cells(t, color) ==
  LET plain(i, j, c) == [k \in 1 .. j - i + 1 |-> <<t[i + k - 1], c>>]
      from[i \in 1 .. Len(t) + 2, c \in [fg : 0 .. 15, bg : 0 .. 15]] ==
        IF i > Len(t) THEN <<>>
        ELSE IF t[i] # "E" THEN <<<<t[i], c>>>> \o from[i + 1, c]
        ELSE IF \E j \in i + 1 .. Len(t) : IsSequence(t, i, j)
        THEN LET j == CHOOSE j \in i + 1 .. Len(t) : IsSequence(t, i, j)
             IN from[j + 1, ColorOf(SubSeq(t, i, j))]
        ELSE LET j == IF BrokenAt(t, i) > Len(t) THEN Len(t) ELSE BrokenAt(t, i)
             IN plain(i, j, c) \o from[j + 1, c]
  IN from[1, color]
\* The cells so far, and then these; a newline fills its row.
OnPaper(cells, more) ==
  LET put(all, cell) ==
        all \o IF cell[1] # "n" THEN <<cell>>
               ELSE [k \in 1 .. CONSOLE_COLUMNS - (Len(all) % CONSOLE_COLUMNS) |->
                       <<" ", cell[2]>>]
  IN FoldLeft(put, cells, more)

-----------------------------------------------------------------------------
(* console_puts() and console_printf() of a process, one character a step. *)

Begin(p, text, cpos) ==
  LET mode == IF cpos < 0 THEN "scroll_on" ELSE "scroll_off" IN
  /\ ~halted /\ ~printing[p].on /\ calls < MAX_CALLS
  /\ calls' = calls + 1
  /\ printing' = [printing EXCEPT ![p] =
                    [on |-> TRUE, all |-> text, text |-> text, cpos |-> cpos,
                     pr |-> [NewPrinter(<<>>, mode, cpos, cursorpos, COLOR_GRAY)
                               EXCEPT !.log = <<>>]]]
  /\ mixed' = (mixed \/ cpos >= 0 \/ \E q \in Printers : printing[q].on)
  /\ last' = NoMessage
  /\ UNCHANGED <<console, cursorpos, halted, transcript>>

Put(p) ==
  /\ ~halted /\ printing[p].on /\ printing[p].text # <<>>
  /\ LET pr == putc([printing[p].pr EXCEPT !.con = console], Head(printing[p].text))
     IN /\ console' = pr.con
        /\ printing' = [printing EXCEPT ![p].pr = [pr EXCEPT !.con = <<>>],
                                        ![p].text = Tail(@)]
  /\ last' = NoMessage
  /\ UNCHANGED <<cursorpos, halted, calls, transcript, mixed>>

\* Mutant of move_cursor: the escape buffer is not flushed.
MoveUnflushed(pr) == pr
\* move_cursor(), which flushes the escape buffer first.
move_cursor(pr) == flush(pr)
\* Text put elsewhere than at the cursor does not move it, and what is in the escape
\* buffer is lost.
Finish(p) ==
  /\ ~halted /\ printing[p].on /\ printing[p].text = <<>>
  /\ LET pr == move_cursor([printing[p].pr EXCEPT !.con = console])
     IN IF printing[p].cpos < 0
        THEN /\ console' = pr.con /\ cursorpos' = pr.cell
             /\ transcript' = IF mixed THEN <<>>
                              ELSE OnPaper(transcript, Cells(printing[p].all, COLOR_GRAY))
        ELSE UNCHANGED <<console, cursorpos, transcript>>
  /\ printing' = [printing EXCEPT ![p] = NotPrinting]
  /\ last' = NoMessage
  /\ UNCHANGED <<halted, calls, mixed>>

\* error_vprintf() in the kernel, whoever is printing.
EndLine(pr) == IF pr.cell % CONSOLE_COLUMNS # 0 THEN putc(pr, "n") ELSE pr
Say(pr, text) ==
  LET done == move_cursor(pr) IN
  /\ console' = done.con /\ cursorpos' = done.cell
  /\ last' = [text |-> text, con |-> console, cursor |-> cursorpos, log |-> done.log]
  /\ mixed' = TRUE /\ transcript' = <<>>

Error(text) ==
  /\ ~halted /\ calls < MAX_CALLS
  /\ calls' = calls + 1
  /\ Say(FoldLeft(putc, NewErrorPrinter(console, cursorpos), text), text)
  /\ UNCHANGED <<printing, halted>>

\* panic(): the message on lines of its own, and then no process runs.  (The
\* backtrace is left out.)
Panic(text) ==
  LET pr == FoldLeft(putc, NewErrorPrinter(console, cursorpos), text) IN
  /\ ~halted /\ calls < MAX_CALLS
  /\ calls' = calls + 1
  /\ Say(EndLine(pr), IF pr.cell % CONSOLE_COLUMNS # 0 THEN Append(text, "n") ELSE text)
  /\ halted' = TRUE
  /\ UNCHANGED printing

ConsoleNext ==
  \/ \E p \in Printers, text \in Texts, cpos \in {0 - 1, END_CPOS - 1, END_CPOS} :
       Begin(p, text, cpos)
  \/ \E p \in Printers : Put(p) \/ Finish(p)
  \/ \E text \in Messages : Error(text) \/ Panic(text)

-----------------------------------------------------------------------------
(* Properties.                                                             *)

\* No printer leaves the screen or its escape buffer.
ConsoleTypeOK ==
  /\ DOMAIN console = 0 .. END_CPOS - 1
  /\ cursorpos \in 0 .. END_CPOS
  /\ \A p \in Printers :
       printing[p].on => /\ printing[p].pr.cell \in 0 .. END_CPOS
                         /\ Len(printing[p].pr.ebuf) < EBUFSIZ
  /\ halted \in BOOLEAN /\ calls \in 0 .. MAX_CALLS /\ mixed \in BOOLEAN

\* The rows that have scrolled away when the paper is `len` cells long.
RowsAway(len) ==
  IF len <= END_CPOS THEN 0
  ELSE (len - END_CPOS + CONSOLE_COLUMNS - 1) \div CONSOLE_COLUMNS

\* Processes that print one after the other write on an endless paper, and the
\* screen shows its end.
TranscriptShown ==
  (~mixed /\ \A p \in Printers : ~printing[p].on) =>
    LET away == RowsAway(Len(transcript)) * CONSOLE_COLUMNS IN
    /\ cursorpos = Len(transcript) - away
    /\ \A p \in 0 .. END_CPOS - 1 :
         console[p] = IF p < cursorpos THEN transcript[away + p + 1]
                      ELSE IF away = 0 THEN Blank ELSE ZeroCell

\* An error message starts on the last row, or below it.
ErrorStart == IF last.cursor < END_CPOS - CONSOLE_COLUMNS THEN END_CPOS ELSE last.cursor
ErrorPaper == OnPaper([k \in 1 .. ErrorStart |-> ZeroCell], Cells(last.text, COLOR_ERROR))

NonBlankRows(con, rows) ==
  SelectSeq([r \in 1 .. rows |-> Row(con, r - 1)],
            LAMBDA row : \E c \in DOMAIN row : row[c][1] \notin {" ", "0C"} \/ row[c][2].bg # 0)
\* The number of blank rows in the lowest block of them above the last row.
BlankRowsBefore ==
  LET B == {r \in 0 .. CONSOLE_ROWS - 2 : console_line_is_blank(last.con, r)}
  IN Cardinality({r \in B : \A q \in B : q > r => r .. q \subseteq B})

\* The message is at the end of the screen as far as it fits, and no line above is
\* lost as long as the lowest block of blank rows makes room for it.
ErrorShown ==
  last # NoMessage =>
    LET n == Len(ErrorPaper)
        away == RowsAway(n)
    IN /\ cursorpos = n - away * CONSOLE_COLUMNS
       /\ \A p \in 0 .. cursorpos - 1 :
            p + away * CONSOLE_COLUMNS >= ErrorStart =>
              console[p] = ErrorPaper[p + away * CONSOLE_COLUMNS + 1]
       /\ away <= BlankRowsBefore =>
            IsPrefix(NonBlankRows(last.con, CONSOLE_ROWS - 1),
                     NonBlankRows(console, CONSOLE_ROWS))

\* The log has the message without its colours, if its escape sequences are all
\* whole.  (The others are logged twice: the flush of the screen's buffer goes
\* through error_printer::putc().)
ErrorLogged ==
  LET cells == Cells(last.text, COLOR_ERROR)
  IN (last # NoMessage /\ \A i \in DOMAIN cells : cells[i][1] # "E") =>
       last.log = [i \in DOMAIN cells |-> cells[i][1]]
=============================================================================
