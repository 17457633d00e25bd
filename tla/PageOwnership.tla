--------------------------- MODULE PageOwnership ----------------------------
(***************************************************************************)
(* What physical page management promises its users, with no scheduler, no *)
(* reference counts and no program counters: every page is free or belongs *)
(* to one owner; a step hands out free pages only and takes none back; and *)
(* only a restart of the machine frees pages, all of them together.        *)
(***************************************************************************)
CONSTANTS
  Page,     \* the pages managed
  Owner,    \* who may own one
  Nobody    \* the owner of a free page; not a member of Owner

VARIABLE owner

TypeOK == owner \in [Page -> Owner \cup {Nobody}]

Init == owner = [pn \in Page |-> Nobody]

\* Pages that were free get owners; nothing else changes.
Claim ==
  /\ owner' \in [Page -> Owner \cup {Nobody}]
  /\ \A pn \in Page : owner[pn] # Nobody => owner'[pn] = owner[pn]

Restart == owner' = [pn \in Page |-> Nobody]

Next == Claim \/ Restart

Spec == Init /\ [][Next]_owner
=============================================================================
