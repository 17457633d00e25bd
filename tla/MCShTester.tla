----------------------------- MODULE MCShTester -----------------------------
(***************************************************************************)
(* Small instances of ShTester: two jobs, a clock of four instants, a time *)
(* limit of 2, one function called at 1 and one at 3, after the limit.     *)
(***************************************************************************)
EXTENDS ShTester

MCAfterCount == [t \in 0 .. MAX_TIME |-> IF t \in {1, 3} THEN 1 ELSE 0]
=============================================================================
