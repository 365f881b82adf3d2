------------------------------ MODULE KrMalloc ------------------------------
(***************************************************************************)
(* memorylab/kr_malloc.c: the allocator of FreeList with memory from sbrk. *)
(***************************************************************************)
EXTENDS FreeList

CONSTANTS
  FirstBrk,  \* where the heap starts
  LastBrk,   \* bound: sbrk fails beyond this address
  Gaps       \* units others may have taken with sbrk in between

ASSUME KrMallocAssumption ==
  /\ FirstBrk \in Nat /\ LastBrk \in Nat
  /\ Gaps \subseteq Nat
  /\ Base + 1 < FirstBrk    \* base is a static variable, below the heap

VARIABLE brk  \* the program break

allvars == <<vars, brk>>

KrInit == Init /\ brk = FirstBrk

(* sbrk may fail at any time.                                              *)
morecore ==
  \/ NoMemory /\ UNCHANGED brk
  \/ \E g \in Gaps :
       /\ brk + g + Chunk <= LastBrk
       /\ AddChunk(brk + g, Chunk)
       /\ brk' = brk + g + Chunk

Next ==
  \/ Call /\ UNCHANGED brk
  \/ Iterate /\ UNCHANGED brk
  \/ morecore

(* The program runs on once it is in a call.                               *)
Spec ==
  /\ KrInit
  /\ [][Next]_allvars
  /\ WF_allvars((Iterate /\ UNCHANGED brk) \/ morecore)
=============================================================================
