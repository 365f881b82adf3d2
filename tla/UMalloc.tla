------------------------------ MODULE UMalloc -------------------------------
(***************************************************************************)
(* memorylab/umalloc.c: the allocator of FreeList whose morecore, instead  *)
(* of asking the system, adds the static array mem, every time anew.       *)
(* Nothing says where the linker puts mem and base: base may lie right     *)
(* behind mem, and then my_free joins it to the last block of mem as if it *)
(* were one.                                                               *)
(* A definition marked "fault" is a wrong variant of the one after it.     *)
(***************************************************************************)
EXTENDS FreeList

CONSTANT Mems  \* the addresses mem[0] may have; mem has NALLOC units

ASSUME UMallocAssumption ==
  /\ Mems \subseteq Nat
  /\ \A m \in Mems : Base < m \/ Base >= m + NALLOC

VARIABLES
  mem,    \* the address of mem[0]
  chunks  \* history: how often morecore was called

uvars == <<vars, mem, chunks>>

UInit == Init /\ mem \in Mems /\ chunks = 0

(* Does not fail, whatever was added before.                               *)
umorecore == AddChunk(mem, Chunk)

my_malloc ==
  /\ \/ ((\E n \in Requests : Malloc(n)) \/ Take \/ Split \/ Advance) /\ UNCHANGED chunks
     \/ umorecore /\ chunks' = chunks + 1
  /\ UNCHANGED mem

my_free == ((\E b \in live : Free(b)) \/ Seek \/ Link) /\ UNCHANGED <<mem, chunks>>

(* From the first call on the ring has base in it: the block of no units   *)
(* that is never given away and that keeps the ring from becoming one      *)
(* block, as umalloc.c's picture of the list has it.                       *)
BaseRemains == freep # NULL => Base \in Ring

(* morecore has been called once at most, and for no more than mem has.    *)
MemLasts == chunks <= 1 /\ heap \subseteq mem..(mem + NALLOC - 1)

Sound == MemLasts /\ BaseRemains

(* Bound: no call is made once that is not so.  Headers and user data may  *)
(* have overwritten each other, or the ring may be one block: it stays in  *)
(* the ring when it is given away whole (and my_free of it never returns), *)
(* and is left in the ring when a block that ends where it begins is       *)
(* joined to it.                                                           *)
UNext == (pc = "idle" => Sound) /\ (my_malloc \/ my_free)

USpec == UInit /\ [][UNext]_uvars /\ WF_uvars(pc # "idle" /\ UNext)

-----------------------------------------------------------------------------
(* As long as mem lasts and base is in the ring the allocator does what it *)
(* should, wherever mem is: nothing overlaps, nothing leaks, and free      *)
(* neighbours are joined.                                                  *)
SoundlyTiled == Sound => Tiled /\ RingSorted /\ Coalesced

(* Base leaves the ring only where the linker has put it right behind mem: *)
(* by my_free of the last block of mem, the only one that it can be taken  *)
(* for the neighbour of.                                                   *)
BaseStaysApart == MemLasts => BaseRemains \/ Base = mem + NALLOC

(* A call returns, unless it needs morecore once more or takes base out of *)
(* the ring.                                                               *)
SoundCallsReturn == pc # "idle" /\ Sound ~> pc = "idle" \/ ~Sound
=============================================================================
