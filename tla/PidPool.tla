------------------------------ MODULE PidPool ------------------------------
(***************************************************************************)
(* What the process table promises about process ids: a process gets the   *)
(* next id, at most Capacity ids are held at a time, the first one is held *)
(* for ever, and an id that has been given back never comes back.          *)
(***************************************************************************)
EXTENDS Integers, FiniteSets

CONSTANTS Capacity, First

VARIABLES live, next

TypeOK ==
  /\ live \subseteq 1..(next - 1)
  /\ First \in live

Init ==
  /\ live = {First}
  /\ next = First + 1

Alloc ==
  /\ live' = live \cup {next}
  /\ Cardinality(live') <= Capacity
  /\ next' = next + 1

Free ==
  /\ \E p \in live \ {First} : live' = live \ {p}
  /\ next' = next

Spec == Init /\ [][Alloc \/ Free]_<<live, next>>
=============================================================================
