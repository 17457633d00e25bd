--------------------------- MODULE MCWeensyKernel ---------------------------
(***************************************************************************)
(* Small instances of WeensyKernel: two allocator processes of four pages  *)
(* each above a low memory of five pages.                                  *)
(***************************************************************************)
EXTENDS MemViewer

MCUnallocatable == {0, 3, 4}
MCReserved == {0, 4}

\* With a periodic timer every runnable process gets the processor again and again,
\* and the memory viewer comes to every process.
EveryoneServed == EveryoneRuns /\ EveryoneShown
=============================================================================
