----------------------------- MODULE HeldBytes ------------------------------
(***************************************************************************)
(* The bytes a program holds, for the statistics of the allocators: its    *)
(* allocations are kept by slot, and an empty slot has size 0.             *)
(***************************************************************************)
EXTENDS Integers

\* The k-th byte of the allocation in slot i, for every i and k.
Held(allocs) == UNION {{i} \X (1 .. allocs[i].sz) : i \in DOMAIN allocs}
=============================================================================
