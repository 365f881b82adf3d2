------------------------------ MODULE MCPaging ------------------------------
(***************************************************************************)
(* Paging in two kinds of sessions: with one page, where the TLB is filled *)
(* and names a frame, whatever is in it; and with two pages, so that a     *)
(* page in the place of another is seen, where no translation is made: the *)
(* TLB has no part in what the pages hold.                                 *)
(***************************************************************************)
EXTENDS Paging, TLC

VARIABLE loads  \* the pages of the session

mcvars == <<vars, loads>>

(* The code compares names, never orders them, and moves pages without     *)
(* looking at what is in them.                                             *)
Symmetric == Permutations(Names) \cup Permutations(Pages)

MCInit == Init /\ loads \in {{x} : x \in Pages} \cup {Pages}

MCNext ==
  /\ Next
  /\ \A f \in Frame : mem'[f] \in Pages => mem'[f] \in loads
  /\ loads = Pages => tlb' = tlb
  /\ UNCHANGED loads

MCSpec == MCInit /\ [][MCNext]_mcvars
=============================================================================
