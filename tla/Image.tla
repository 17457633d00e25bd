------------------------------- MODULE Image --------------------------------
(***************************************************************************)
(* How program files get into memory: the boot loader's boot_readseg()     *)
(* (boot.cc), which reads whole sectors, and program_image (k-hardware.cc) *)
(* with the loops of process_setup() over its segments.                    *)
(*                                                                         *)
(* A byte of a file is its offset; 0 - 1 is the byte zero, 0 - 2 one that  *)
(* was there before.                                                       *)
(***************************************************************************)
EXTENDS Integers, Sequences, SequencesExt

CONSTANTS
  SECTORSIZE, \* bytes of a sector
  IMAGE_PAGE, \* bytes of a page of a process
  MEMORY      \* bytes of memory

ASSUME SectorAssumption == SECTORSIZE \in Nat \ {0} /\ IMAGE_PAGE \in Nat \ {0} /\ MEMORY \in Nat

ZeroByte == 0 - 1
OldByte == 0 - 2
OldMemory == [a \in 0 .. MEMORY - 1 |-> OldByte]

\* The start of the unit of `size` bytes that holds x.
UnitOf(x, size) == x - (x % size)

-----------------------------------------------------------------------------
(* The boot loader.                                                        *)

\* Mutant of ReadFrom: the address is not rounded down to a sector.
ReadFromAddress(ptr) == ptr
\* Where the first sector of a segment at ptr goes.
ReadFrom(ptr) == UnitOf(ptr, SECTORSIZE)

\* boot_readseg(): the sectors from src_sect on, one after the other, until all of
\* the segment is read, and then zeros.
boot_readseg(mem, ptr, src_sect, filesz, memsz) ==
  LET first == ReadFrom(ptr)
      end_ptr == ptr + filesz
      sectors == IF first < end_ptr THEN (end_ptr - first + SECTORSIZE - 1) \div SECTORSIZE ELSE 0
      read == first .. first + sectors * SECTORSIZE - 1
  IN [a \in 0 .. MEMORY - 1 |->
        IF a \in end_ptr .. ptr + memsz - 1 THEN ZeroByte
        ELSE IF a \in read THEN src_sect * SECTORSIZE + (a - first)
        ELSE mem[a]]

\* boot(): every program header, whatever its type.  (Sectors are counted from
\* KERNEL_START_SECTOR.)
boot(programs) ==
  FoldLeft(LAMBDA mem, ph : boot_readseg(mem, ph.p_va, ph.p_offset \div SECTORSIZE,
                                         ph.p_filesz, ph.p_memsz),
           OldMemory, programs)

-----------------------------------------------------------------------------
(* program_image, and process_setup().                                     *)

\* program_image_segment::fix(): on to a segment to load, or the end.
fix(programs, ph) ==
  CHOOSE q \in ph .. Len(programs) + 1 :
    /\ q > Len(programs) \/ programs[q].p_type = "ELF_PTYPE_LOAD"
    /\ \A r \in ph .. q - 1 : programs[r].p_type # "ELF_PTYPE_LOAD"

\* Mutant of begin: the first segment is the first one of the file.
BeginFirst(programs) == 1
begin(programs) == fix(programs, 1)
end(programs) == fix(programs, Len(programs) + 1)

\* The segments that a loop from begin() to end() meets.
Segments(programs) ==
  LET from[ph \in 1 .. Len(programs) + 1] ==
        IF ph = end(programs) THEN <<>>
        ELSE <<programs[ph]>> \o from[fix(programs, ph + 1)]
  IN from[begin(programs)]

\* The pages of a segment.
SegmentPages(seg) ==
  {a \in UnitOf(seg.p_va, IMAGE_PAGE) .. seg.p_va + seg.p_memsz - 1 : a % IMAGE_PAGE = 0}

\* process_setup() up to the entry point: whether an assertion that a page is free
\* fails, and the memory with the program in it.
ClaimPages(programs) ==
  FoldLeft(LAMBDA st, seg : [free |-> st.free /\ SegmentPages(seg) \cap st.claimed = {},
                             claimed |-> st.claimed \cup SegmentPages(seg)],
           [free |-> TRUE, claimed |-> {}], Segments(programs))
CopySegment(mem, seg) ==
  [a \in 0 .. MEMORY - 1 |->
     IF a \in seg.p_va .. seg.p_va + seg.p_filesz - 1 THEN seg.p_offset + (a - seg.p_va)
     ELSE IF a \in seg.p_va .. seg.p_va + seg.p_memsz - 1 THEN ZeroByte
     ELSE mem[a]]
LoadProcess(programs) ==
  [free |-> ClaimPages(programs).free, claimed |-> ClaimPages(programs).claimed,
   mem |-> FoldLeft(CopySegment, OldMemory, Segments(programs))]

-----------------------------------------------------------------------------
(* Properties.                                                             *)

InSegment(a, ph) == a \in ph.p_va .. ph.p_va + ph.p_memsz - 1
ByteOf(a, ph) == IF a < ph.p_va + ph.p_filesz THEN ph.p_offset + (a - ph.p_va) ELSE ZeroByte
\* (Even a segment of no bytes takes the unit it starts in, unless at its start.)
Touched(ph, size) == UnitOf(ph.p_va, size) .. ph.p_va + ph.p_memsz - 1
Apart(programs, size) ==
  \A i, j \in DOMAIN programs :
    i # j => \A a \in Touched(programs[i], size), b \in Touched(programs[j], size) :
               UnitOf(a, size) # UnitOf(b, size)
\* An address and its offset in the file are alike within a sector.
Congruent(programs) ==
  \A i \in DOMAIN programs :
    (programs[i].p_va - programs[i].p_offset) % SECTORSIZE = 0

\* The boot loader reads and clears more than it is asked for, but if the linker
\* kept addresses and offsets alike and no two segments share a sector, then every
\* segment is there, whole, with its zeros, and other sectors are as before.
BootRight(programs) ==
  Congruent(programs) /\ Apart(programs, SECTORSIZE) =>
    \A a \in 0 .. MEMORY - 1 :
      /\ \A i \in DOMAIN programs :
           InSegment(a, programs[i]) => boot(programs)[a] = ByteOf(a, programs[i])
      /\ (\A i \in DOMAIN programs :
            \A b \in Touched(programs[i], SECTORSIZE) :
              UnitOf(a, SECTORSIZE) # UnitOf(b, SECTORSIZE)) =>
           boot(programs)[a] = OldByte

\* A process gets the segments to load of its file and nothing else; the assertion
\* that the pages are free fails exactly if two of them share a page.
ProcessRight(programs) ==
  LET loads == SelectSeq(programs, LAMBDA ph : ph.p_type = "ELF_PTYPE_LOAD")
      result == LoadProcess(programs)
  IN /\ result.free <=> Apart(loads, IMAGE_PAGE)
     /\ result.free =>
          \A a \in 0 .. MEMORY - 1 :
            /\ \A i \in DOMAIN loads :
                 InSegment(a, loads[i]) => /\ result.mem[a] = ByteOf(a, loads[i])
                                           /\ UnitOf(a, IMAGE_PAGE) \in result.claimed
            /\ (\A i \in DOMAIN loads : ~InSegment(a, loads[i])) => result.mem[a] = OldByte
=============================================================================
