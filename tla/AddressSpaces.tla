--------------------------- MODULE AddressSpaces ---------------------------
(***************************************************************************)
(* What paging promises to processes: each has an address space of its     *)
(* own, and only its own loads change what is in it.                       *)
(***************************************************************************)
CONSTANTS Proc, VPN, Pages, Absent

VARIABLES
  exists,  \* the processes that have been allocated
  space    \* the page each process has at each VPN, or Absent

Init ==
  /\ exists = {}
  /\ space  = [i \in Proc |-> [v \in VPN |-> Absent]]

(* A new process starts with an empty address space.                       *)
Allocate(i) ==
  /\ i \notin exists
  /\ exists' = exists \cup {i}
  /\ space' = space

Load(i, v, page) ==
  /\ i \in exists
  /\ exists' = exists
  /\ space' = [space EXCEPT ![i][v] = page]

Next ==
  \/ \E i \in Proc : Allocate(i)
  \/ \E i \in exists, v \in VPN, page \in Pages : Load(i, v, page)

Spec == Init /\ [][Next]_<<exists, space>>
=============================================================================
