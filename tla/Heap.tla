-------------------------------- MODULE Heap --------------------------------
(***************************************************************************)
(* What a memory allocator promises: the blocks in use lie in the memory   *)
(* obtained so far, no two of them overlap, a block stays where it is and  *)
(* keeps its size until it is given back, and memory is never returned to  *)
(* the system.  A block is <<first unit, number of units>>.                *)
(***************************************************************************)
EXTENDS Integers

VARIABLES owned, used

Units(b) == b[1]..(b[1] + b[2] - 1)

Init == owned = {} /\ used = {}

Grow == owned \subseteq owned' /\ UNCHANGED used

Alloc ==
  /\ \E b \in used' \ used :
       /\ used' = used \cup {b}
       /\ Units(b) # {}
       /\ Units(b) \subseteq owned
       /\ \A c \in used : Units(b) \cap Units(c) = {}
  /\ UNCHANGED owned

Release ==
  /\ \E b \in used : used' = used \ {b}
  /\ UNCHANGED owned

Spec == Init /\ [][Grow \/ Alloc \/ Release]_<<owned, used>>
=============================================================================
