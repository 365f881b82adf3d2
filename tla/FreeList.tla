------------------------------ MODULE FreeList ------------------------------
(***************************************************************************)
(* The storage allocator of K&R, as memorylab/kr_malloc.c and              *)
(* memorylab/umalloc.c both have it: a ring of free blocks in address      *)
(* order, walked one block at a time, one action per iteration.  How more  *)
(* memory is obtained differs and is in KrMalloc and UMalloc.              *)
(*                                                                         *)
(* An address counts units of sizeof(Header).  A block is known by the     *)
(* address of its header; size is defined for the blocks there are, next   *)
(* for those in the ring.  What users store in their blocks is not         *)
(* modelled.  Local variables are NULL when their function does not run.   *)
(* A definition marked "fault" is a wrong variant of the one after it.     *)
(***************************************************************************)
EXTENDS Integers

CONSTANTS
  HeaderSize,  \* sizeof(Header), 16
  NALLOC,      \* units asked for at least (1024; 4096 in umalloc.c)
  Base,        \* where the linker has put base
  Requests     \* the numbers of bytes users ask for

NULL == -1

ASSUME FreeListAssumption ==
  /\ HeaderSize \in Nat \ {0}
  /\ NALLOC \in Nat \ {0}
  /\ Base \in Nat
  /\ Requests \subseteq Nat

VARIABLES
  next, size,   \* the fields of the headers
  freep,        \* where the next search starts
  pc,           \* "idle", or the loop that runs: kr_malloc's or kr_free's
  request,      \* kr_malloc's nbytes
  prevp, currp, \* kr_malloc's two pointers
  insertp, pos, \* kr_free's block, and its currp
  resume,       \* where kr_free returns to: its user or morecore
  live,         \* history: what users hold, with the bytes they asked for
  heap,         \* history: the units obtained from the system
  grown         \* history: this kr_malloc has called morecore

locals == <<request, prevp, currp, insertp, pos, resume>>
vars == <<next, size, freep, pc, locals, live, heap, grown>>

Init ==
  /\ next = <<>> /\ size = <<>> /\ freep = NULL
  /\ pc = "idle"
  /\ request = NULL /\ prevp = NULL /\ currp = NULL
  /\ insertp = NULL /\ pos = NULL /\ resume = "idle"
  /\ live = {} /\ heap = {} /\ grown = FALSE

Units(nbytes) == (nbytes + HeaderSize - 1) \div HeaderSize + 1

nunits == Units(request)

-----------------------------------------------------------------------------
(* kr_malloc.  The first call makes a ring of base alone.                  *)
Malloc(nbytes) ==
  /\ pc = "idle"
  /\ pc' = "scan"
  /\ request' = nbytes
  /\ IF freep = NULL
     THEN /\ next' = [a \in {Base} |-> Base]
          /\ size' = [a \in {Base} |-> 0]
          /\ freep' = Base
     ELSE UNCHANGED <<next, size, freep>>
  /\ prevp' = freep'
  /\ currp' = next'[freep']
  /\ grown' = FALSE
  /\ UNCHANGED <<insertp, pos, resume, live, heap>>

Return ==
  /\ pc' = "idle"
  /\ request' = NULL /\ prevp' = NULL /\ currp' = NULL
  /\ UNCHANGED <<insertp, pos, resume, heap, grown>>

Give(at) ==
  /\ live' = live \cup {[at |-> at, bytes |-> request]}
  /\ freep' = prevp
  /\ Return

(* fault: the block is not taken off the ring                              *)
TakeLeavesBlock ==
  /\ pc = "scan" /\ size[currp] = nunits
  /\ UNCHANGED <<next, size>>
  /\ Give(currp)

(* An exact fit leaves the ring.                                           *)
Take ==
  /\ pc = "scan" /\ size[currp] = nunits
  /\ next' = [a \in DOMAIN next \ ({currp} \ {prevp}) |->
                IF a = prevp THEN next[currp] ELSE next[a]]
  /\ UNCHANGED size
  /\ Give(currp)

(* fault: the size of the block that remains is not reduced                *)
SplitSizes(at) ==
  [a \in DOMAIN size \cup {at} |-> IF a = at THEN nunits ELSE size[a]]

NewSizes(at) ==
  [a \in DOMAIN size \cup {at} |->
     IF a = at THEN nunits ELSE IF a = currp THEN size[a] - nunits ELSE size[a]]

(* The tail of a larger block is given away.                               *)
Split ==
  /\ pc = "scan" /\ size[currp] > nunits
  /\ LET at == currp + (size[currp] - nunits)
     IN  size' = NewSizes(at) /\ Give(at)
  /\ UNCHANGED next

(* The whole ring has been searched: morecore is called.                   *)
Exhausted == pc = "scan" /\ size[currp] < nunits /\ currp = freep

Advance ==
  /\ pc = "scan" /\ size[currp] < nunits /\ ~Exhausted
  /\ prevp' = currp
  /\ currp' = next[currp]
  /\ UNCHANGED <<next, size, freep, pc, request, insertp, pos, resume, live,
                 heap, grown>>

(* fault: as if a request never exceeded NALLOC                            *)
ChunkFixed == NALLOC

(* The units morecore asks the system for.                                 *)
Chunk == IF nunits < NALLOC THEN NALLOC ELSE nunits

NoMemory == Exhausted /\ Return /\ UNCHANGED <<next, size, freep, live>>

(* morecore has got n units at c and calls kr_free for them.               *)
AddChunk(c, n) ==
  /\ Exhausted
  /\ size' = [a \in DOMAIN size \cup {c} |-> IF a = c THEN n ELSE size[a]]
  /\ heap' = heap \cup c..(c + n - 1)
  /\ grown' = TRUE
  /\ insertp' = c /\ pos' = freep /\ resume' = "scan"
  /\ pc' = "seek"
  /\ UNCHANGED <<next, freep, request, prevp, currp, live>>

-----------------------------------------------------------------------------
(* kr_free, called for a block that is held.                               *)
Free(b) ==
  /\ pc = "idle" /\ b \in live
  /\ live' = live \ {b}
  /\ insertp' = b.at /\ pos' = freep /\ resume' = "idle"
  /\ pc' = "seek"
  /\ UNCHANGED <<next, size, freep, request, prevp, currp, heap, grown>>

(* fault: the ends of the ring are not looked at                           *)
FoundNoEnds == pos < insertp /\ insertp < next[pos]

(* fault: the first block of the ring is taken for the last                *)
FoundAnyEnd ==
  \/ pos < insertp /\ insertp < next[pos]
  \/ pos < insertp \/ insertp < next[pos]

(* The block belongs after pos: between pos and its successor, or at one   *)
(* of the ends when pos is the last block.                                 *)
Found ==
  \/ pos < insertp /\ insertp < next[pos]
  \/ pos >= next[pos] /\ (pos < insertp \/ insertp < next[pos])

Seek ==
  /\ pc = "seek" /\ ~Found
  /\ pos' = next[pos]
  /\ UNCHANGED <<next, size, freep, pc, request, prevp, currp, insertp, resume,
                 live, heap, grown>>

(* fault: the header of the block is counted once more                     *)
JoinsNextHeader == insertp + size[insertp] + 1 = next[pos]

JoinsNext == insertp + size[insertp] = next[pos]

(* fault: a block is never joined to the one before it                     *)
JoinsPrevNever == FALSE

JoinsPrev == pos + size[pos] = insertp

(* The headers that are inside another block once the joins are made; pos  *)
(* is written last and stays a header in any case.                         *)
Absorbed ==
  ((IF JoinsNext THEN {next[pos]} ELSE {})
     \cup (IF JoinsPrev THEN {insertp} ELSE {})) \ {pos}

Link ==
  /\ pc = "seek" /\ Found
  /\ LET isize == size[insertp] + IF JoinsNext THEN size[next[pos]] ELSE 0
         inext == IF JoinsNext THEN next[next[pos]] ELSE next[pos]
     IN  /\ size' = [a \in DOMAIN size \ Absorbed |->
                       IF a = insertp THEN isize
                       ELSE IF a = pos /\ JoinsPrev THEN size[pos] + isize
                       ELSE size[a]]
         /\ next' = [a \in (DOMAIN next \cup {insertp}) \ Absorbed |->
                       IF a = insertp THEN inext
                       ELSE IF a = pos THEN IF JoinsPrev THEN inext ELSE insertp
                       ELSE next[a]]
  /\ freep' = pos
  /\ pc' = resume
  /\ IF resume = "scan"      \* morecore returns freep, and the loop steps on
     THEN prevp' = pos /\ currp' = next'[pos]
     ELSE UNCHANGED <<prevp, currp>>
  /\ insertp' = NULL /\ pos' = NULL /\ resume' = "idle"
  /\ UNCHANGED <<request, live, heap, grown>>

(* An iteration of a loop, but for the call of morecore.                   *)
Iterate == Take \/ Split \/ Advance \/ Seek \/ Link

Call == (\E n \in Requests : Malloc(n)) \/ (\E b \in live : Free(b))

-----------------------------------------------------------------------------
Extent(a) == a..(a + size[a] - 1)
Blocks == DOMAIN size \ {Base}
Ring == DOMAIN next

(* Type invariant.                                                         *)
TypeOK ==
  /\ Ring \subseteq DOMAIN size
  /\ \A a \in Ring : next[a] \in Ring
  /\ \A a \in DOMAIN size : size[a] \in Nat
  /\ freep \in Ring \cup {NULL}
  /\ pc \in {"idle", "scan", "seek"}
  /\ request \in Requests \cup {NULL}
  /\ prevp \in Ring \cup {NULL} /\ currp \in Ring \cup {NULL}
  /\ insertp \in Blocks \cup {NULL} /\ pos \in Ring \cup {NULL}
  /\ resume \in {"idle", "scan"}
  /\ \A b \in live : b.at \in Blocks /\ b.bytes \in Requests
  /\ grown \in BOOLEAN

(* Every unit obtained belongs to exactly one block, and a block is in the *)
(* ring, with a user, or on its way back: nothing overlaps, nothing leaks, *)
(* through every split and join, and users get what they asked for beyond  *)
(* the header.                                                             *)
Tiled ==
  /\ TypeOK
  /\ \A a \in Blocks : size[a] > 0 /\ Extent(a) \subseteq heap
  /\ \A u \in heap : \E a \in Blocks : u \in Extent(a)
  /\ \A a, b \in Blocks : a # b => Extent(a) \cap Extent(b) = {}
  /\ Blocks = (Ring \ {Base}) \cup {b.at : b \in live} \cup ({insertp} \ {NULL})
  /\ \A b \in live :
       b.at \notin Ring /\ (size[b.at] - 1) * HeaderSize >= b.bytes

(* The ring goes through its blocks in address order, once round, so that  *)
(* the walks of kr_malloc and kr_free meet all of them.                    *)
RingSorted ==
  /\ \A a \in Ring : \/ next[a] > a /\ \A b \in Ring : ~(a < b /\ b < next[a])
                     \/ \A b \in Ring : next[a] <= b /\ b <= a

(* Neighbours in the ring do not touch: free memory is never in two pieces *)
(* where one would do.                                                     *)
Coalesced == \A a, b \in Ring \ {Base} : a + size[a] # b

(* Memory is asked for only if no free block is large enough, the search   *)
(* from freep misses none, and at most once a call: what morecore puts in  *)
(* the ring satisfies the request.                                         *)
GrowsInNeed == Exhausted => ~grown /\ \A a \in Ring : size[a] < nunits

(* What users see is an allocator.                                         *)
Allocator == INSTANCE Heap WITH
               owned <- heap, used <- {<<b.at, size[b.at]>> : b \in live}

HeapSpec == Allocator!Spec

(* Every call returns: no walk round the ring goes on for ever.            *)
CallsReturn == pc # "idle" ~> pc = "idle"
=============================================================================
