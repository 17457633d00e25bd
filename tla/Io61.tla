-------------------------------- MODULE Io61 --------------------------------
(***************************************************************************)
(* The copy programs of src/pset5 over the versions of the io61 library,   *)
(* on files and in pipelines such as `cat in | blockcat61 | cat > out`.    *)
(*                                                                         *)
(* A library is "slow" (io61.cc and its copy slow-io61.cc: one system call *)
(* per byte), "syscall" (one per call) or "stdio". A byte of the input is  *)
(* represented by its offset there. One step is one system call, or one    *)
(* piece of a call that blocks on a pipe, or a call answered from a        *)
(* buffer.                                                                 *)
(***************************************************************************)
EXTENDS Integers, Sequences, FiniteSets, FiniteSetsExt

CONSTANTS
  FileSizes, \* sizes of the input
  Limits,    \* arguments of -s, next to none
  Blocks,    \* arguments of -b
  Strides,   \* arguments of -t
  Disks,     \* sizes at which the output file's disk is full, next to none
  PIPE_SIZE, \* capacity of a pipe
  BUFSIZ,    \* size of a stdio buffer
  SIZE_MAX   \* stands for no limit

ASSUME SizeAssumption ==
  /\ FileSizes \subseteq Nat /\ Limits \subseteq Nat /\ Disks \subseteq Nat
  /\ Blocks \subseteq Nat \ {0} /\ Strides \subseteq Nat \ {0}
  /\ PIPE_SIZE \in Nat \ {0} /\ BUFSIZ \in Nat \ {0}
  /\ SIZE_MAX \in Nat
  /\ \A n \in FileSizes \cup Limits \cup Disks : n < SIZE_MAX

VARIABLES
  run,     \* the command line, and what surrounds the program
  pc,      \* where the program is
  ret,     \* where it goes on after a flush
  left,    \* args.file_size
  pos,     \* stridecat61's pos
  written, \* stridecat61's written
  buf,     \* the block that was read
  want,    \* how many bytes of it were asked for
  nw,      \* how many bytes of it were written
  ioff,    \* how far the input file has been read, here or before the pipe
  ipipe,   \* the bytes in the input pipe
  wopen,   \* whether the input pipe's write end is open
  rbuf,    \* stdio's input buffer
  wbuf,    \* stdio's output buffer
  ooff,    \* the output descriptor's offset
  opipe,   \* the bytes in the output pipe
  ropen,   \* whether the output pipe's read end is open
  out      \* the output file, here or behind the pipe: offset -> byte

program == <<pc, ret, left, pos, written, buf, want, nw>>
input == <<ioff, ipipe, wopen, rbuf>>
output == <<wbuf, ooff, opipe, ropen, out>>
vars == <<run, program, input, output>>

Libraries == {"slow", "syscall", "stdio"}

\* Programs that seek are asked for no more bytes than the file has.
Asked(r) == r.limit <= r.size \/ r.limit = SIZE_MAX

(***************************************************************************)
(* The programs: which libraries and options they have, and which of their *)
(* files must be seekable or have a size.  A program whose files are not   *)
(* like that exits with 1 before it copies anything, and is left out.      *)
(***************************************************************************)
Lines(prog, limits, blocks, strides, bytewise, flushes, alarms) ==
  [prog : {prog}, size : FileSizes, ilib : Libraries, olib : Libraries,
   limit : limits, block : blocks, stride : strides, read_bytewise : bytewise,
   write_bytewise : bytewise, flush : flushes, alarm : alarms,
   src : {"file", "pipe"}, dst : {"file", "pipe"}, disk : Disks \cup {SIZE_MAX}]
AnyLimit == Limits \cup {SIZE_MAX}
NoAlarm == {FALSE}
BytesOnly(prog, alarms) == Lines(prog, AnyLimit, {1}, {1}, {FALSE}, BOOLEAN, alarms)
SameLibrary(r) == r.ilib = r.olib

Cat61 == {r \in BytesOnly("cat", BOOLEAN) : SameLibrary(r)}
Read61 == {r \in BytesOnly("cat", NoAlarm) : r.olib = "stdio"}
Write61 == {r \in BytesOnly("cat", NoAlarm) : r.ilib = "stdio"}
Blockcat61 ==
  {r \in Lines("block", {SIZE_MAX}, Blocks, {1}, BOOLEAN, BOOLEAN, NoAlarm) : SameLibrary(r)}
Varblockcat61 ==
  {r \in Lines("varblock", {SIZE_MAX}, Blocks, {1}, BOOLEAN, {FALSE}, NoAlarm) : SameLibrary(r)}
Reverse61 ==
  {r \in BytesOnly("reverse", NoAlarm) : SameLibrary(r) /\ r.src = "file" /\ Asked(r)}
Reverseread61 ==
  {r \in BytesOnly("reverse", NoAlarm) : r.olib = "stdio" /\ r.src = "file" /\ Asked(r)}
Reversewrite61 ==
  {r \in BytesOnly("reversewrite", NoAlarm) :
     r.ilib = "stdio" /\ r.dst = "file" /\ Asked(r) /\ (r.src = "file" \/ r.limit # SIZE_MAX)}
Stridecat61 ==
  {r \in Lines("stride", AnyLimit, Blocks, Strides, BOOLEAN, {FALSE}, NoAlarm) :
     SameLibrary(r) /\ r.src = "file" /\ r.stride % r.block = 0 /\ Asked(r)}

\* A disk only matters to a file.
CommandLines ==
  {r \in Cat61 \cup Read61 \cup Write61 \cup Blockcat61 \cup Varblockcat61 \cup Reverse61
           \cup Reverseread61 \cup Reversewrite61 \cup Stridecat61 :
     r.disk = SIZE_MAX \/ r.dst = "file"}

Input == [i \in 1 .. run.size |-> i - 1]

\* args.file_size after the program has measured its file, which is a regular one
\* where it has to.
FileSize(r) ==
  IF r.prog \in {"reverse", "reversewrite", "stride"} /\ r.limit = SIZE_MAX
  THEN r.size ELSE r.limit

Init ==
  /\ run \in CommandLines
  /\ pc = "top" /\ ret = "top"
  /\ left = FileSize(run)
  /\ pos = 0 /\ written = 0
  /\ buf = <<>> /\ want = 0 /\ nw = 0
  /\ ioff = 0 /\ ipipe = <<>> /\ wopen = (run.src = "pipe") /\ rbuf = <<>>
  /\ wbuf = <<>> /\ ooff = 0 /\ opipe = <<>> /\ ropen = (run.dst = "pipe")
  /\ out = <<>>

(***************************************************************************)
(* The system calls, external: read() returns what there is, up to n       *)
(* bytes, and waits on an empty pipe whose write end is open; write() puts *)
(* what there is room for, waits on a full pipe, and fails on a full disk. *)
(***************************************************************************)
Readable == run.src = "file" \/ ipipe # <<>> \/ ~wopen
Data(n) ==
  IF run.src = "file" THEN SubSeq(Input, ioff + 1, Min({ioff + n, run.size}))
                      ELSE SubSeq(ipipe, 1, Min({n, Len(ipipe)}))
Consume(n) ==
  IF run.src = "file"
  THEN ioff' = ioff + Len(Data(n)) /\ UNCHANGED ipipe
  ELSE ipipe' = SubSeq(ipipe, Len(Data(n)) + 1, Len(ipipe)) /\ UNCHANGED ioff

Broken == run.dst = "pipe" /\ ~ropen
Blocked == run.dst = "pipe" /\ Len(opipe) = PIPE_SIZE
Room(n) ==
  IF run.dst = "file" THEN Min({n, Max({run.disk - ooff, 0})})
                      ELSE Min({n, PIPE_SIZE - Len(opipe)})

Put(s) ==
  LET k == Room(Len(s))
      at == ooff .. ooff + k - 1
  IN  /\ ~Broken /\ ~Blocked
      /\ IF run.dst = "file"
         THEN /\ out' = [o \in DOMAIN out \cup at |->
                           IF o \in at THEN s[o - ooff + 1] ELSE out[o]]
              /\ ooff' = ooff + k
              /\ UNCHANGED opipe
         ELSE /\ opipe' = opipe \o SubSeq(s, 1, k)
              /\ UNCHANGED <<out, ooff>>
      /\ UNCHANGED ropen

(***************************************************************************)
(* Reading a block of `want` bytes.                                        *)
(***************************************************************************)
StartRead(sz) ==
  /\ pc' = "read" /\ want' = sz /\ buf' = <<>> /\ nw' = 0

\* Mutant of Returned: only an error ends the copy.
ReturnedNegative(n) ==
  pc' = IF n > 0 THEN (IF run.prog = "reversewrite" THEN "seek" ELSE "write")
        ELSE IF run.prog \in {"reverse", "reversewrite"} THEN "abort" ELSE "top"

\* The read has returned n bytes, fewer than `want` if the input is at its
\* end: 0 ends a copy, and fails an assertion of the programs that know the
\* size.
Returned(n) ==
  pc' = IF n > 0 THEN (IF run.prog = "reversewrite" THEN "seek" ELSE "write")
        ELSE IF run.prog \in {"reverse", "reversewrite"} THEN "abort" ELSE "close"


\* io61_readc(), alone or in the loop of io61_read() or io61_read_bytewise().
Bytewise(lib, option) == lib = "slow" \/ (lib = "syscall" /\ option)
\* Mutant of LastByte: the loop ends when the pipe is empty.
LastByteHere == Data(1) = <<>> \/ Len(buf) + 1 = want \/ (Len(ipipe) = 1 /\ wopen)

LastByte == Data(1) = <<>> \/ Len(buf) + 1 = want

ReadByte ==
  /\ pc = "read" /\ Bytewise(run.ilib, run.read_bytewise)
  /\ Readable /\ Consume(1)
  /\ buf' = buf \o Data(1)
  /\ IF LastByte THEN Returned(Len(buf')) ELSE UNCHANGED pc
  /\ UNCHANGED <<run, ret, left, pos, written, want, nw, wopen, rbuf, output>>

\* io61_read() of syscall-io61.cc.
ReadCall ==
  /\ pc = "read" /\ run.ilib = "syscall" /\ ~run.read_bytewise
  /\ Readable /\ Consume(want)
  /\ buf' = Data(want)
  /\ Returned(Len(buf'))
  /\ UNCHANGED <<run, ret, left, pos, written, want, nw, wopen, rbuf, output>>

\* fgetc() and fread(), external, as stdio-io61.cc calls them: from the
\* buffer, which is filled when it is empty.
ReadBuffer ==
  LET k == Min({want - Len(buf), Len(rbuf)})
  IN  /\ pc = "read" /\ run.ilib = "stdio" /\ rbuf # <<>>
      /\ buf' = buf \o SubSeq(rbuf, 1, k)
      /\ rbuf' = SubSeq(rbuf, k + 1, Len(rbuf))
      /\ IF Len(buf') = want THEN Returned(want) ELSE UNCHANGED pc
      /\ UNCHANGED <<run, ret, left, pos, written, want, nw, ioff, ipipe, wopen, output>>

FillBuffer ==
  /\ pc = "read" /\ run.ilib = "stdio" /\ rbuf = <<>>
  /\ Readable /\ Consume(BUFSIZ)
  /\ rbuf' = Data(BUFSIZ)
  /\ IF rbuf' = <<>> THEN Returned(Len(buf)) ELSE UNCHANGED pc
  /\ UNCHANGED <<run, ret, left, pos, written, buf, want, nw, wopen, output>>

\* SIGALRM (-a) while a read waits for the pipe: it fails with EINTR, and
\* io61_readc() returns EOF for that too.
ReadInterrupted ==
  /\ pc = "read" /\ run.alarm
  /\ run.src = "pipe" /\ ipipe = <<>> /\ wopen /\ rbuf = <<>>
  /\ Returned(0)
  /\ UNCHANGED <<run, ret, left, pos, written, buf, want, nw, input, output>>

(***************************************************************************)
(* Writing the block.                                                      *)
(***************************************************************************)
Rest == SubSeq(buf, nw + 1, Len(buf))

\* Mutant of Wrote: a short count is taken for the whole block.
WroteAll(n, more) == nw' = Len(buf) /\ pc' = "after"

\* n more bytes of the block are out, and the call goes on if there is more
\* it can do; less than the block fails the program's assertion.
Wrote(n, more) ==
  /\ nw' = nw + n
  /\ pc' = IF nw + n = Len(buf) THEN "after" ELSE IF more THEN "write" ELSE "abort"

\* io61_writec(), alone or in the loop of io61_write() or
\* io61_write_bytewise(), which ends at the first byte that fails.
WriteByte ==
  /\ pc = "write" /\ Bytewise(run.olib, run.write_bytewise)
  /\ Put(<<Head(Rest)>>)
  /\ Wrote(Room(1), Room(1) = 1)
  /\ UNCHANGED <<run, ret, left, pos, written, buf, want, input, wbuf>>

\* Mutant of Continues: a write() to a pipe takes what there is room for.
NeverContinues == FALSE

\* io61_write() of syscall-io61.cc: one write(), which on a pipe lasts until
\* all of the block is in it.
Continues == run.dst = "pipe"

WriteCall ==
  /\ pc = "write" /\ run.olib = "syscall" /\ ~run.write_bytewise
  /\ Put(Rest)
  /\ Wrote(Room(Len(Rest)), Continues)
  /\ UNCHANGED <<run, ret, left, pos, written, buf, want, input, wbuf>>

\* fputc() and fwrite(), external, as stdio-io61.cc calls them: into the
\* buffer, which is flushed when it is full.
FlushThen(next) == pc' = "flush" /\ ret' = next

WriteBuffer ==
  LET k == Min({Len(Rest), BUFSIZ - Len(wbuf)})
  IN  /\ pc = "write" /\ run.olib = "stdio"
      /\ IF k = 0 THEN FlushThen("write") /\ UNCHANGED <<nw, wbuf>>
                  ELSE /\ wbuf' = wbuf \o SubSeq(Rest, 1, k)
                       /\ Wrote(k, TRUE)
                       /\ UNCHANGED ret
      /\ UNCHANGED <<run, left, pos, written, buf, want, input, ooff, opipe, ropen, out>>

\* The write of a flush failed: fputc(), fflush() and fseek() report it, and
\* an assertion fails; io61_close()'s result is looked at by no program.
FlushFailed == pc' = IF ret = "close" THEN "exit" ELSE "abort"

Flush ==
  LET k == Room(Len(wbuf))
  IN  /\ pc = "flush"
      /\ Put(wbuf)
      /\ wbuf' = SubSeq(wbuf, k + 1, Len(wbuf))
      /\ IF wbuf' = <<>> THEN pc' = ret
         ELSE IF run.dst = "pipe" THEN UNCHANGED pc ELSE FlushFailed
      /\ UNCHANGED <<run, ret, left, pos, written, buf, want, nw, input>>

\* SIGALRM while a write waits for the pipe, of which only cat61 knows.
Writing == pc = "flush" \/ (pc = "write" /\ run.olib # "stdio")
WriteInterrupted ==
  /\ Writing /\ run.alarm /\ Blocked /\ ropen
  /\ IF pc = "flush" THEN FlushFailed ELSE pc' = "abort"
  /\ UNCHANGED <<run, ret, left, pos, written, buf, want, nw, input, output>>

\* SIGPIPE.
WriteBroken ==
  /\ Writing /\ Broken
  /\ pc' = "killed"
  /\ UNCHANGED <<run, ret, left, pos, written, buf, want, nw, input, output>>

(***************************************************************************)
(* The programs' loops.                                                    *)
(***************************************************************************)
CatLoop ==
  /\ pc = "top" /\ run.prog = "cat"
  /\ IF left = 0 THEN pc' = "close" /\ UNCHANGED <<buf, want, nw>> ELSE StartRead(1)
  /\ UNCHANGED <<run, ret, left, pos, written, input, output>>

BlockLoop ==
  /\ pc = "top" /\ run.prog = "block"
  /\ StartRead(run.block)
  /\ UNCHANGED <<run, ret, left, pos, written, input, output>>

\* A random size; the powers of two of -X are among the sizes without it.
VarblockLoop ==
  /\ pc = "top" /\ run.prog = "varblock"
  /\ \E sz \in 1 .. run.block : StartRead(sz)
  /\ UNCHANGED <<run, ret, left, pos, written, input, output>>

\* io61_seek() of the input: a stdio buffer is dropped.
SeekInput(o) == ioff' = o /\ rbuf' = <<>> /\ UNCHANGED <<ipipe, wopen>>

ReverseLoop ==
  /\ pc = "top" /\ run.prog = "reverse"
  /\ IF left = 0 THEN pc' = "close" /\ UNCHANGED <<left, buf, want, nw, input>>
     ELSE left' = left - 1 /\ SeekInput(left - 1) /\ StartRead(1)
  /\ UNCHANGED <<run, ret, pos, written, output>>

ReversewriteLoop ==
  /\ pc = "top" /\ run.prog = "reversewrite"
  /\ IF left = 0 THEN pc' = "close" /\ UNCHANGED <<left, buf, want, nw>>
     ELSE left' = left - 1 /\ StartRead(1)
  /\ UNCHANGED <<run, ret, pos, written, input, output>>

\* io61_seek() of the output: a stdio buffer is written out first.
ReversewriteSeek ==
  /\ pc = "seek"
  /\ IF wbuf # <<>> THEN FlushThen("seek") /\ UNCHANGED ooff
     ELSE pc' = "write" /\ ooff' = left /\ UNCHANGED ret
  /\ UNCHANGED <<run, left, pos, written, buf, want, nw, input, wbuf, opipe, ropen, out>>

StrideLoop ==
  /\ pc = "top" /\ run.prog = "stride"
  /\ IF written >= left THEN pc' = "close" /\ UNCHANGED <<buf, want, nw, input>>
     ELSE /\ SeekInput(pos)
          /\ StartRead(IF pos + run.block > left THEN left - pos ELSE run.block)
  /\ UNCHANGED <<run, ret, left, pos, written, output>>

\* Mutants of NextPos: one byte on, and not back to the start.
NextPosByte(p) == IF p >= left THEN (p % run.stride) + 1 ELSE p
NextPosNoWrap(p) == p

NextPos(p) == IF p >= left THEN (p % run.stride) + run.block ELSE p

\* What the loop does after a write, and after_write().
After ==
  /\ pc = "after"
  /\ left' = IF run.prog = "cat" THEN left - 1 ELSE left
  /\ IF run.prog = "stride"
     THEN written' = written + nw /\ pos' = NextPos(pos + run.stride)
     ELSE UNCHANGED <<written, pos>>
  /\ IF run.flush /\ wbuf # <<>> THEN FlushThen("top") ELSE pc' = "top" /\ UNCHANGED ret
  /\ UNCHANGED <<run, buf, want, nw, input, output>>

\* io61_close() of both files.
Close ==
  /\ pc = "close"
  /\ IF wbuf # <<>> THEN FlushThen("close") ELSE pc' = "exit" /\ UNCHANGED ret
  /\ UNCHANGED <<run, left, pos, written, buf, want, nw, input, output>>

(***************************************************************************)
(* The other programs of the pipeline, external: the one before it sends   *)
(* the input and ends, the one behind it takes the output, or quits.       *)
(***************************************************************************)
Upstream ==
  /\ wopen
  /\ \/ /\ ioff < run.size /\ Len(ipipe) < PIPE_SIZE
        /\ ipipe' = Append(ipipe, Input[ioff + 1])
        /\ ioff' = ioff + 1
        /\ UNCHANGED wopen
     \/ /\ ioff = run.size
        /\ wopen' = FALSE
        /\ UNCHANGED <<ipipe, ioff>>
  /\ UNCHANGED <<run, program, rbuf, output>>

Downstream ==
  /\ ropen /\ opipe # <<>>
  /\ out' = [o \in 0 .. Cardinality(DOMAIN out) |->
               IF o \in DOMAIN out THEN out[o] ELSE Head(opipe)]
  /\ opipe' = Tail(opipe)
  /\ UNCHANGED <<run, program, input, wbuf, ooff, ropen>>

DownstreamQuits ==
  /\ ropen
  /\ ropen' = FALSE
  /\ UNCHANGED <<run, program, input, wbuf, ooff, opipe, out>>

Program ==
  \/ ReadByte \/ ReadCall \/ ReadBuffer \/ FillBuffer \/ ReadInterrupted
  \/ WriteByte \/ WriteCall \/ WriteBuffer \/ Flush \/ WriteInterrupted \/ WriteBroken
  \/ CatLoop \/ BlockLoop \/ VarblockLoop \/ ReverseLoop \/ StrideLoop
  \/ ReversewriteLoop \/ ReversewriteSeek \/ After \/ Close

Ended == pc \in {"exit", "abort", "killed"}
Done == Ended /\ UNCHANGED vars

Next == Program \/ Upstream \/ Downstream \/ DownstreamQuits \/ Done

\* The system schedules every program; nobody has to quit.
Spec ==
  Init /\ [][Next]_vars /\ WF_vars(Program) /\ WF_vars(Upstream) /\ WF_vars(Downstream)

-----------------------------------------------------------------------------

\* Indices, counts and buffers have their types, and no buffer overflows.
TypeOK ==
  /\ run \in CommandLines
  /\ pc \in {"top", "read", "seek", "write", "flush", "after", "close",
             "exit", "abort", "killed"}
  /\ ret \in {"top", "write", "seek", "close"}
  /\ left \in 0 .. SIZE_MAX /\ pos \in Nat /\ written \in 0 .. run.size
  /\ Len(buf) <= want /\ want \in 0 .. run.block /\ nw \in 0 .. Len(buf)
  /\ ioff \in 0 .. run.size
  /\ Len(ipipe) <= PIPE_SIZE /\ Len(opipe) <= PIPE_SIZE
  /\ Len(rbuf) <= BUFSIZ /\ Len(wbuf) <= BUFSIZ
  /\ wopen \in BOOLEAN /\ ropen \in BOOLEAN

\* Where the bytes of a file copied in order are, from the output's end to
\* the input's: no system call, short read, partial write or flush loses,
\* repeats or reorders one, even in a program that is about to fail.
NothingLostInFlight ==
  run.prog \in {"cat", "block", "varblock"} =>
    [i \in 1 .. Cardinality(DOMAIN out) |-> out[i - 1]]
      \o opipe \o wbuf \o SubSeq(buf, nw + 1, Len(buf))
      \o rbuf \o ipipe \o SubSeq(Input, ioff + 1, run.size) = Input

\* The output each program is to produce. stridecat61 takes the bytes by
\* column, then by row, then in order.
Total == Min({FileSize(run), run.size})
Before(b, c) ==
  LET Column(x) == (x % run.stride) \div run.block
      Row(x) == x \div run.stride
  IN  \/ Column(b) < Column(c)
      \/ Column(b) = Column(c) /\ (Row(b) < Row(c) \/ (Row(b) = Row(c) /\ b < c))
Wanted ==
  [o \in 0 .. Total - 1 |->
     CASE run.prog \in {"cat", "block", "varblock"} -> o
       [] run.prog \in {"reverse", "reversewrite"} -> Total - 1 - o
       [] run.prog = "stride" ->
            CHOOSE b \in 0 .. Total - 1 :
              Cardinality({c \in 0 .. Total - 1 : Before(c, b)}) = o]

\* A program that exits has succeeded once its reader has everything, unless
\* an alarm came in between or closing a stdio file failed.
Status ==
  CASE pc = "exit" /\ opipe = <<>> /\ wbuf = <<>> /\ ~run.alarm -> "ok"
    [] pc \in {"abort", "killed"} \/ (pc = "exit" /\ (wbuf # <<>> \/ run.alarm)) -> "failed"
    [] OTHER -> "running"

Copied == INSTANCE Copier WITH wanted <- Wanted, status <- Status

\* Each program puts every byte where it belongs, overwrites none, and exits
\* normally only when the output is complete: "Copies the input FILE to
\* OUTFILE", "reversing the order of characters", "the input file's bytes are
\* read in the sequence 0, 1024, 2048, ..., 1, 1025, 2049".
ImplementsCopier == Copied!Spec

\* No assertion of a program fails unless the disk is full or an alarm
\* interrupted a write: pipes, short reads and seeks are handled.
AssertionsHold ==
  pc = "abort" => run.alarm \/ run.disk < Total

\* "the return value might be positive, but less than `sz`, if end-of-file or
\* error is encountered": io61_read() of io61.cc and stdio-io61.cc returns
\* less than it was asked for only at the end, however slow the pipe.
ShortReadIsEnd ==
  [][pc = "read" /\ pc' \in {"write", "seek"} /\ Len(buf') < want
       /\ (run.ilib # "syscall" \/ run.read_bytewise)
     => ioff = run.size /\ ipipe = <<>> /\ rbuf = <<>> /\ ~wopen]_vars

\* A program in a pipeline ends, with every combination of libraries and
\* buffers, although pipes fill up and its reader may quit.
ProgramEnds == <>Ended

\* No byte is lost, repeated or reordered on its way through calls and buffers, and
\* no assertion of a program fails.
BytesRight == TypeOK /\ NothingLostInFlight /\ AssertionsHold
=============================================================================
