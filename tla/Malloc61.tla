------------------------------ MODULE Malloc61 ------------------------------
(***************************************************************************)
(* What m61_malloc() and m61_free() promise a program that uses them as    *)
(* m61.hh says: an allocation is a range of the buffer that meets no other *)
(* live allocation, and stays where it is until it is freed.  How free     *)
(* space is found, and when an allocation fails, is left open.             *)
(***************************************************************************)
EXTENDS Integers

CONSTANTS
  Slots,     \* the places where the program keeps its pointers
  Sizes,     \* sizes it asks for
  SIZE       \* bytes in the buffer

VARIABLE live   \* live[i]: the allocation in slot i; ptr = -1 if there is none

Empty == [ptr |-> -1, sz |-> 0]

\* The bytes of an allocation.
Bytes(a) == {x \in 0 .. SIZE - 1 : a.ptr <= x /\ x < a.ptr + a.sz}

Init == live = [i \in Slots |-> Empty]

Malloc(i) ==
  /\ live[i] = Empty
  /\ \E p \in 0 .. SIZE, sz \in Sizes :
       /\ p + sz <= SIZE
       /\ live' = [live EXCEPT ![i] = [ptr |-> p, sz |-> sz]]
       /\ \A j \in Slots \ {i} :
            Bytes(live[j]) \cap Bytes([ptr |-> p, sz |-> sz]) = {}

Free(i) ==
  /\ live[i] # Empty
  /\ live' = [live EXCEPT ![i] = Empty]

Next == \E i \in Slots : Malloc(i) \/ Free(i)

Spec == Init /\ [][Next]_live
=============================================================================
