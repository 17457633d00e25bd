------------------------------- MODULE Copier -------------------------------
(***************************************************************************)
(* What a copy program of pset5 promises, whatever library it is built on  *)
(* and whatever its files are: bytes appear in the output only where they  *)
(* belong, none is ever overwritten, and the program reports success only  *)
(* when all of them are there.                                             *)
(***************************************************************************)
EXTENDS Naturals

VARIABLES
  wanted, \* the output the program is to produce: offset -> byte
  out,    \* the output there is
  status  \* "running", "ok" or "failed"

vars == <<wanted, out, status>>

\* There is no output at the start.
Init == DOMAIN out = {} /\ status = "running"

\* Some bytes, or none, reach the output, where they belong; a reader may
\* still take from a pipe what a program left in it before it failed.
Grow(S) ==
  out' = [o \in DOMAIN out \cup S |-> IF o \in S THEN wanted[o] ELSE out[o]]

\* The program goes on, gives up, or ends with everything in its place.
Report ==
  \/ status' = status
  \/ status = "running" /\ status' = "failed"
  \/ status = "running" /\ status' = "ok" /\ DOMAIN out' = DOMAIN wanted

Next ==
  /\ status # "ok"
  /\ \E S \in SUBSET (DOMAIN wanted \ DOMAIN out) : Grow(S)
  /\ Report
  /\ UNCHANGED wanted

Spec == Init /\ [][Next]_vars

=============================================================================
