----------------------------- MODULE MCLibrary ------------------------------
(***************************************************************************)
(* One run for the code that works alone: console, keyboard, backtrace and *)
(* C library of WeensyOS, the arguments of the copy programs and the files *)
(* of the I/O tests.  A behaviour is one of these parts; the rest stays at *)
(* its first state.  Pure functions are called with the arguments in       *)
(* `call`.                                                                 *)
(***************************************************************************)
EXTENDS Console, Keyboard, Args, CLib, Printf, Backtrace, Generator, Guard, Image

VARIABLES part, call
vars == <<consoleVars, keyVars, argsVars, btVars, guardVars, part, call>>

-----------------------------------------------------------------------------
(* Constants.                                                              *)

MCTexts == {<<"a", "b", "a", "n">>, <<"n", "b">>, <<"E", "[", "3", "1", "m", "a", "b">>,
            <<"E", "[", "1", "1", "1", "1", "a">>, <<"E", "E", "m", "E">>}
MCMessages == {<<"a">>, <<"E", "[", "m", "a", "n", "b">>, <<"E", "[", "1", "n", "n", "a">>}

MCOptions == {<<"b", <<"5">>>>, <<"b", <<"0">>>>, <<"B", <<"1">>>>, <<"B", <<"5", "k">>>>,
              <<"s", <<"x">>>>, <<"s", <<"1">>>>, <<"t", <<"5">>>>, <<"y", <<>>>>,
              <<"i", <<"1">>>>, <<"o", <<"1">>>>, <<"file", <<"5">>>>, <<"#", <<>>>>}
MCCommandLines == BoundedSeq(MCOptions, 2) \cup [1 .. 3 -> {o \in MCOptions : o[1] \in {"b", "B", "i", "file"}}]

MCAddresses == {0, 8, 12, 24, 28, 32, 33, 40, 44, 48, 56, 60, 128, 192, 200, 208, 216, 224, 232, 252, 255}
MCPresentPages == {{}, {32, 192}, {0, 32, 192, 224}, {32, 224}}
MCCallBefore == {<<100, 96>>, <<110, 20>>, <<240, 60>>}

MCwords == << <<"a">>, <<"b", "c">> >>

-----------------------------------------------------------------------------
(* Calls of pure functions.                                                *)

Memories == [0 .. 4 -> {0, 65, 97, 98}]
\* The base a call names, the prefix and the base it stands for.
Bases == {<<0, <<48, 120>>, 16>>, <<0, <<48, 98>>, 2>>, <<0, <<48, 111>>, 8>>, <<0, <<48>>, 8>>,
          <<0, <<>>, 10>>, <<16, <<48, 88>>, 16>>, <<16, <<>>, 16>>, <<10, <<>>, 10>>, <<2, <<>>, 2>>}
Digits(base) == CASE base = 16 -> BoundedSeq({48, 57, 102, 70}, 3) \ {<<>>}
                  [] base = 10 -> BoundedSeq({48, 50, 53, 57}, 4) \ {<<>>}
                  [] base = 8 -> BoundedSeq({48, 51, 55}, 4) \ {<<>>}
                  [] base = 2 -> UNION {[1 .. n -> {48, 49}] : n \in {1, 7, 8, 9}}
Numerals256 ==
  UNION {[blanks : {<<>>, <<32, 10>>}, sign : {<<>>, <<43>>, <<45>>}, given : {b[1]},
          prefix : {b[2]}, base : {b[3]}, rest : {<<>>, <<103>>, <<45>>},
          digits : IF b[1] = 0 /\ b[3] = 10 THEN {d \in Digits(10) : d[1] # 48} ELSE Digits(b[3])]
         : b \in Bases}
Directives ==
  LET d(convs, values) ==
        [flags : SUBSET {"-", "0", "+", " ", "#", "'"}, width : {None, 1, 7},
         precision : {None, 0, 6}, star : BOOLEAN, length : {<<>>, <<"l">>},
         conv : convs, value : values]
  IN d({"d"}, {0, 5, 0 - 128}) \cup d({"x", "p"}, {0, 90}) \cup d({"s"}, {<<>>, <<"a", "b">>})
SizeTexts == BoundedSeq({"0", "1", "5", "x", ".", "k", "e"}, 4)

SymbolTables ==
  {[i \in 1 .. Cardinality(values) |->
      LET v == SetToSortSeq(values, LAMBDA a, b : a < b)[i]
      IN [st_value |-> v, st_size |-> IF v \in sized THEN 2 ELSE 0]]
   : values \in SUBSET {0, 3, 5, 9, 10, 14}, sized \in SUBSET {3, 5, 9, 14}}

\* Program headers, in the order of their addresses, of up to two segments to load
\* and one that is not: an empty one, or one of bytes that others load.
ProgramHeaders ==
  LET load(va, off, sizes) ==
        [p_type |-> "ELF_PTYPE_LOAD", p_va |-> va, p_offset |-> off,
         p_filesz |-> sizes[1], p_memsz |-> sizes[2]]
      loads == {load(va, off, sizes) : va \in {0, 1, 4, 6, 9, 12}, off \in {1, 4, 5, 9},
                                       sizes \in {<<0, 0>>, <<0, 3>>, <<2, 2>>, <<3, 6>>, <<5, 5>>}}
      note(va, size) == [p_type |-> "ELF_PTYPE_NOTE", p_va |-> va, p_offset |-> va,
                         p_filesz |-> size, p_memsz |-> size]
      notes == {note(0, 0), note(1, 2)}
      pairs == {<<a, b>> : a \in loads, b \in loads}
  IN {<<>>} \cup {<<n>> : n \in notes} \cup {<<n, a>> : n \in notes, a \in loads}
     \cup {<<a, n>> : n \in notes, a \in loads}
     \cup {p \in pairs : p[1].p_va + p[1].p_memsz <= p[2].p_va}

NoCall == [fn |-> "none"]
Calls ==
  [fn : {"strings"}, mem : Memories]
  \cup [fn : {"read"}, text : Numerals256]
  \cup [fn : {"write"}, x : 0 .. ULONG_MAX, base : {2, 3, 10, 16}]
  \cup [fn : {"round"}, x : 0 .. ULONG_MAX, n : {1, 2, 7, 16}]
  \cup [fn : {"uniform"}, min : {0 - 3, 0}, n : 1 .. RAND_MAX + 1]
  \cup [fn : {"printf"}, d : Directives]
  \cup [fn : {"lookup"}, symtab : SymbolTables, addr : 0 .. 48]
  \cup [fn : {"size"}, text : SizeTexts]
  \cup [fn : {"generate"}, type : {"t", "b"}, size : 0 .. 12, seed : BoundedSeq(0 .. 5, 3) \ {<<>>}]
  \cup [fn : {"load"}, programs : ProgramHeaders]

-----------------------------------------------------------------------------
Parts == {"console", "keyboard", "args", "backtrace", "guard", "calls"}

Init ==
  /\ part \in Parts
  /\ part # "args" => argv = <<>> /\ strace = ""
  /\ part # "backtrace" =>
       /\ bt = [rbp |-> 0, rsp |-> 0, stack_top |-> 0, leaf |-> FALSE]
       /\ rip = 0 /\ hasTable = FALSE /\ present = {}
  /\ ConsoleInit /\ KeyInit /\ ArgsInit /\ BtInit /\ GuardInit /\ call = NoCall

Next ==
  /\ UNCHANGED part
  /\ \/ part = "console" /\ ConsoleNext /\ UNCHANGED <<keyVars, argsVars, btVars, guardVars, call>>
     \/ part = "keyboard" /\ KeyNext /\ UNCHANGED <<consoleVars, argsVars, btVars, guardVars, call>>
     \/ part = "args" /\ ArgsNext /\ UNCHANGED <<consoleVars, keyVars, btVars, guardVars, call>>
     \/ part = "backtrace" /\ BtNext /\ UNCHANGED <<consoleVars, keyVars, argsVars, guardVars, call>>
     \/ part = "guard" /\ GuardNext /\ UNCHANGED <<consoleVars, keyVars, argsVars, btVars, call>>
     \/ /\ part = "calls" /\ call = NoCall /\ call' \in Calls
        /\ UNCHANGED <<consoleVars, keyVars, argsVars, btVars, guardVars>>

Spec == Init /\ [][Next]_vars

\* CopiesRight and SearchesRight for every memory.
StringCopies == call.fn = "strings" => CopiesRight(call.mem)
StringSearches == call.fn = "strings" => SearchesRight(call.mem)
\* ReadRight for every numeral, and WrittenRight for every number.
NumbersRead == call.fn = "read" => ReadRight(call.text)
NumbersWritten == call.fn = "write" => WrittenRight(call.x, call.base)
\* RoundingRight for every number.
Rounded == call.fn = "round" => RoundingRight(call.x, call.n)
\* UniformRight for every range.
RandomUniform == call.fn = "uniform" => UniformRight(call.min, call.min + call.n - 1)
\* PrintfRight and SnprintfRight for every directive.
Formatted == call.fn = "printf" => PrintfRight(call.d)
BuffersEnd == call.fn = "printf" => \A size \in {0, 1, 3, 9} : SnprintfRight(size, call.d)
\* LookupRight for every table of symbols.
SymbolsFound == call.fn = "lookup" => LookupRight(call.symtab, call.addr)
\* SizeRight for every text.
SizesRead == call.fn = "size" => SizeRight(call.text)
\* FilesNest for every size.
SmallerIsPrefix == call.fn = "generate" => FilesNest(call.type, call.size, call.seed)
\* BootRight and ProcessRight for every list of program headers.
BootLoads == call.fn = "load" => BootRight(call.programs)
ProcessLoads == call.fn = "load" => ProcessRight(call.programs)

\* Printers stay on the screen; text printed in turn is shown in order, and an error
\* message is shown and logged.
ConsoleRight == ConsoleTypeOK /\ TranscriptShown /\ ErrorShown /\ ErrorLogged
\* The copy programs work with what their command lines say, on files that their
\* tests generate the same for every size.
ProgramsRight == ArgsRight /\ SizesRead /\ SmallerIsPrefix
\* The C library of the kernel computes what it is documented to, up to the edges of
\* the types; where it does not (round_up() near the top, rand() of the largest range,
\* strtoul() of a negative number out of range) its properties say what it does or
\* leave the case out.  The addresses of a backtrace get their symbols.
LibraryRight ==
  /\ StringCopies /\ StringSearches
  /\ NumbersRead /\ NumbersWritten /\ Rounded /\ RandomUniform
  /\ Formatted /\ BuffersEnd /\ SymbolsFound
\* The boot loader and the kernel load programs whole.
ImagesRight == BootLoads /\ ProcessLoads
=============================================================================
