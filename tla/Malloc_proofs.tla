---------------------------- MODULE Malloc_proofs ----------------------------
(***************************************************************************)
(* Proofs about the two allocators of memorylab, for any header size, any  *)
(* NALLOC, any requests and any place of base.  First FreeList: every      *)
(* action that the two share keeps memory tiled by blocks and the ring     *)
(* sorted and coalesced, unless kr_free joins base to the block before it; *)
(* where memory comes from is left open, a new chunk has to be new.  Then  *)
(* KrMalloc, whatever sbrk does, where base is away from the heap, and     *)
(* UMalloc, until base leaves the ring or morecore is called for the       *)
(* second time or for more than mem has.                                   *)
(***************************************************************************)
EXTENDS KrMalloc, UMalloc, TLAPS


(* n units are enough for a request of so many bytes.                      *)
Enough(n, bytes) == (n - 1) * HeaderSize >= bytes

(* base is a block of no units in the ring; it is not in the memory that   *)
(* is managed, but may be right behind it.                                 *)
Shape ==
  /\ heap \subseteq Nat
  /\ Base \notin heap
  /\ \A a \in Blocks : a \in Nat /\ size[a] \in Nat /\ size[a] > 0
  /\ Ring \subseteq DOMAIN size
  /\ \A a \in Ring : next[a] \in Ring
  /\ IF freep = NULL
     THEN DOMAIN size = {} /\ pc = "idle"
     ELSE Base \in Ring /\ size[Base] = 0 /\ freep \in Ring

(* Tiled in terms of first and last units.                                 *)
Laid ==
  /\ \A a \in Blocks : \A u \in Nat : a <= u /\ u < a + size[a] => u \in heap
  /\ \A u \in heap : \E a \in Blocks : a <= u /\ u < a + size[a]
  /\ \A a, b \in Blocks : a # b => a + size[a] <= b \/ b + size[b] <= a

(* Who has which block.                                                    *)
Owned ==
  /\ Blocks = (Ring \ {Base}) \cup {b.at : b \in live} \cup ({insertp} \ {NULL})
  /\ insertp \notin Ring
  /\ \A b \in live :
       /\ b.at \notin Ring /\ b.at # insertp
       /\ b.bytes \in Requests /\ Enough(size[b.at], b.bytes)
  /\ \A b, c \in live : b.at = c.at => b = c

(* What the local variables are in each loop.                              *)
Control ==
  /\ pc \in {"idle", "scan", "seek"}
  /\ resume \in {"idle", "scan"}
  /\ grown \in BOOLEAN
  /\ pc \in {"idle", "scan"} => insertp = NULL /\ pos = NULL /\ resume = "idle"
  /\ pc = "idle" => request = NULL
  /\ pc = "scan" => request \in Requests /\ prevp \in Ring /\ currp = next[prevp]
  /\ pc = "seek" => insertp # NULL /\ pos \in Ring
  /\ pc = "seek" /\ resume = "scan" => request \in Requests
  /\ pc = "idle" \/ (pc = "seek" /\ resume = "idle") =>
       request = NULL /\ prevp = NULL /\ currp = NULL
  /\ pc = "seek" /\ resume = "scan" => prevp \in Ring /\ currp \in Ring

IInv == Shape /\ Laid /\ Owned /\ Control /\ RingSorted /\ Coalesced

LEMMA InitIInv == Init => IInv
<1> SUFFICES ASSUME Init  PROVE IInv
  OBVIOUS
<1>1. DOMAIN size = {} /\ Ring = {} /\ Blocks = {}
  <2>1. DOMAIN <<>> = {}
    OBVIOUS
  <2>2. QED
    BY <2>1 DEF Init, Ring, Blocks
<1>2. freep = NULL /\ pc = "idle" /\ live = {} /\ heap = {} /\ grown = FALSE
  BY DEF Init
<1>3. /\ request = NULL /\ prevp = NULL /\ currp = NULL
      /\ insertp = NULL /\ pos = NULL /\ resume = "idle"
  BY DEF Init
<1>4. Shape /\ Laid
  BY <1>1, <1>2 DEF Shape, Laid
<1>5. Owned /\ Control
  BY <1>1, <1>2, <1>3 DEF Owned, Control
<1>6. RingSorted /\ Coalesced
  BY <1>1 DEF RingSorted, Coalesced
<1>7. QED
  BY <1>4, <1>5, <1>6 DEF IInv

(* Addresses are natural numbers; NULL is none.                            *)
LEMMA Addresses ==
  ASSUME IInv
  PROVE  /\ \A a \in DOMAIN size : a \in Nat /\ size[a] \in Nat
         /\ \A a \in Ring : a \in Nat
         /\ NULL \notin DOMAIN size
  BY FreeListAssumption DEF IInv, Shape, Blocks, NULL

(* Requests are rounded up to units.                                       *)
LEMMA UnitsEnough ==
  ASSUME NEW n \in Requests
  PROVE  Units(n) \in Nat /\ Units(n) > 0 /\ Enough(Units(n), n)
<1> DEFINE q == (n + HeaderSize - 1) \div HeaderSize
<1>1. n \in Nat /\ HeaderSize \in Nat /\ HeaderSize > 0
  BY FreeListAssumption
<1>2. q \in Nat /\ q * HeaderSize >= n
  BY <1>1
<1>3. QED
  BY <1>2 DEF Units, Enough
-----------------------------------------------------------------------------
(* Steps that leave memory as it is.                                       *)
LEMMA StutterIInv == IInv /\ UNCHANGED vars => IInv'
  BY DEF vars, locals, IInv, Shape, Laid, Owned, Control, RingSorted, Coalesced,
     Blocks, Ring

LEMMA SameMemoryIInv ==
  ASSUME IInv, UNCHANGED <<next, size, freep, live, heap, insertp>>,
         freep = NULL => pc' = "idle", Control'
  PROVE  IInv'
<1>1. UNCHANGED <<Blocks, Ring>>
  BY DEF Blocks, Ring
<1>2. Shape' /\ Laid'
  BY <1>1 DEF IInv, Shape, Laid
<1>3. Owned' /\ RingSorted' /\ Coalesced'
  BY <1>1 DEF IInv, Owned, RingSorted, Coalesced
<1>4. QED
  BY <1>2, <1>3 DEF IInv

LEMMA SeekIInv ==
  ASSUME IInv, Seek
  PROVE  IInv'
<1>1. Control'
  BY DEF Seek, IInv, Shape, Control, Ring
<1>2. QED
  BY <1>1, SameMemoryIInv DEF Seek, IInv, Shape

LEMMA AdvanceIInv ==
  ASSUME IInv, Advance
  PROVE  IInv'
<1>1. Control'
  BY DEF Advance, IInv, Shape, Control, Ring
<1>2. QED
  BY <1>1, SameMemoryIInv DEF Advance, IInv, Shape

LEMMA NoMemoryIInv ==
  ASSUME IInv, NoMemory
  PROVE  IInv'
<1>1. Control'
  BY DEF NoMemory, Return, Exhausted, IInv, Control, Ring
<1>2. QED
  BY <1>1, SameMemoryIInv DEF NoMemory, Return, Exhausted, IInv, Shape

LEMMA FreeIInv ==
  ASSUME IInv, NEW b \in live, Free(b)
  PROVE  IInv'
<1>1. /\ live' = live \ {b} /\ insertp' = b.at /\ pos' = freep
      /\ pc' = "seek" /\ resume' = "idle"
      /\ UNCHANGED <<next, size, freep, request, prevp, currp, heap, grown>>
      /\ UNCHANGED <<Blocks, Ring>>
  BY DEF Free, Blocks, Ring
<1>2. b.at \in Blocks /\ b.at # NULL /\ insertp = NULL /\ b.at \notin Ring
  BY Addresses DEF Free, IInv, Owned, Control, Blocks
<1>3. freep # NULL
  BY <1>2 DEF IInv, Shape, Blocks
<1>4. Shape' /\ Laid'
  BY <1>1, <1>3 DEF IInv, Shape, Laid
<1>5. {c.at : c \in live'} = {c.at : c \in live} \ {b.at}
  BY <1>1 DEF IInv, Owned
<1>6. Owned'
  BY <1>1, <1>2, <1>5 DEF IInv, Owned
<1>7. Control'
  BY <1>1, <1>2, <1>3 DEF Free, IInv, Shape, Control
<1>8. RingSorted' /\ Coalesced'
  BY <1>1 DEF IInv, RingSorted, Coalesced
<1>9. QED
  BY <1>4, <1>6, <1>7, <1>8 DEF IInv

(* The first call of kr_malloc makes a ring of base alone.                 *)
LEMMA MallocIInv ==
  ASSUME IInv, NEW n \in Requests, Malloc(n)
  PROVE  IInv'
<1>0. /\ pc = "idle" /\ pc' = "scan" /\ request' = n
      /\ prevp' = freep' /\ currp' = next'[freep'] /\ grown' = FALSE
      /\ UNCHANGED <<insertp, pos, resume, live, heap>>
  BY DEF Malloc
<1>1. CASE freep = NULL
  <2>1. /\ next' = [a \in {Base} |-> Base] /\ size' = [a \in {Base} |-> 0]
        /\ freep' = Base
    BY <1>1 DEF Malloc
  <2>2. /\ Ring' = {Base} /\ DOMAIN size' = {Base} /\ Blocks' = {}
        /\ next'[Base] = Base /\ size'[Base] = 0
    BY <2>1 DEF Ring, Blocks
  <2>3. Blocks = {} /\ live = {} /\ heap = {}
    BY <1>1 DEF IInv, Shape, Blocks, Owned, Laid
  <2>4. Base \in Nat /\ Base # NULL
    BY FreeListAssumption DEF NULL
  <2>5. Shape' /\ Laid'
    BY <1>0, <2>1, <2>2, <2>3, <2>4 DEF Shape, Laid
  <2>6. Owned' /\ Control'
    BY <1>0, <2>1, <2>2, <2>3, <2>4 DEF IInv, Owned, Control
  <2>7. RingSorted' /\ Coalesced'
    BY <2>2, <2>4 DEF RingSorted, Coalesced
  <2>8. QED
    BY <2>5, <2>6, <2>7 DEF IInv
<1>2. CASE freep # NULL
  <2>1. UNCHANGED <<next, size, freep>>
    BY <1>2 DEF Malloc
  <2>2. Control'
    BY <1>0, <1>2, <2>1 DEF IInv, Shape, Control, Ring
  <2>3. QED
    BY <1>0, <1>2, <2>1, <2>2, SameMemoryIInv
<1>3. QED
  BY <1>1, <1>2
-----------------------------------------------------------------------------
(* The ring never consists of one block but for base.                      *)
LEMMA NextDiffers ==
  ASSUME IInv, NEW a \in Ring, a # Base
  PROVE  next[a] # a
<1>1. Base \in Ring
  BY DEF IInv, Shape, Blocks, Ring
<1>2. QED
  BY <1>1, Addresses, FreeListAssumption DEF IInv, RingSorted

(* Blocks that stay stay where they were, live ones as well.               *)
LEMMA TakeIInv ==
  ASSUME IInv, Take
  PROVE  IInv'
<1> DEFINE p == prevp
           c == currp
<1>1. /\ pc = "scan" /\ size[c] = nunits /\ pc' = "idle" /\ freep' = p
      /\ live' = live \cup {[at |-> c, bytes |-> request]}
      /\ request' = NULL /\ prevp' = NULL /\ currp' = NULL
      /\ UNCHANGED <<size, insertp, pos, resume, heap, grown>>
  BY DEF Take, Give, Return
<1>2. /\ freep # NULL /\ Base \in Ring /\ size[Base] = 0
      /\ p \in Ring /\ c = next[p] /\ c \in Ring /\ request \in Requests
      /\ insertp = NULL /\ pos = NULL
  BY <1>1 DEF IInv, Shape, Control
<1>3. nunits > 0 /\ Enough(nunits, request)
  BY <1>2, UnitsEnough DEF nunits
<1>4. c # Base /\ c # p
  BY <1>1, <1>2, <1>3, NextDiffers
<1>5. /\ Ring' = Ring \ {c} /\ Blocks' = Blocks
      /\ \A a \in Ring' : next'[a] = IF a = p THEN next[c] ELSE next[a]
  BY <1>1, <1>4 DEF Take, Ring, Blocks
<1>6. \A a, b \in Ring : next[a] = next[b] => a = b
  BY Addresses DEF IInv, Shape, RingSorted
<1>7. next[c] # c
  BY <1>2, <1>4, NextDiffers
<1>8. Shape' /\ Laid'
  <2>1. \A a \in Ring' : next'[a] \in Ring'
    BY <1>2, <1>4, <1>5, <1>6, <1>7 DEF IInv, Shape
  <2>2. Shape'
    BY <1>1, <1>2, <1>4, <1>5, <2>1, Addresses DEF IInv, Shape
  <2>3. Laid'
    BY <1>1, <1>5 DEF IInv, Laid
  <2>4. QED
    BY <2>2, <2>3
<1>9. Owned'
  <2> DEFINE new == [at |-> c, bytes |-> request]
  <2>1. {b.at : b \in live'} = {b.at : b \in live} \cup {c}
    <3>1. new.at = c /\ live' = live \cup {new}
      BY <1>1
    <3> HIDE DEF new
    <3>2. QED
      BY <3>1
  <2>2. c # NULL
    BY <1>2, Addresses DEF IInv, Shape
  <2>3. \A b \in live' : b \in live \/ (b.at = c /\ b.bytes = request)
    BY <1>1
  <2>4. \A b \in live : b.at # c
    BY <1>2 DEF IInv, Owned
  <2>5. Blocks' = (Ring' \ {Base}) \cup {b.at : b \in live'} \cup ({insertp'} \ {NULL})
    BY <1>1, <1>2, <1>4, <1>5, <2>1 DEF IInv, Owned
  <2>6. \A b \in live' :
          /\ b.at \notin Ring' /\ b.at # insertp'
          /\ b.bytes \in Requests /\ Enough(size'[b.at], b.bytes)
    BY <1>1, <1>2, <1>3, <1>5, <2>2, <2>3 DEF IInv, Owned
  <2>7. \A b, d \in live' : b.at = d.at => b = d
    BY <1>1, <2>4 DEF IInv, Owned
  <2>8. insertp' \notin Ring'
    BY <1>1, <1>5 DEF IInv, Owned
  <2>9. QED
    BY <2>5, <2>6, <2>7, <2>8 DEF Owned
<1>10. Control'
  BY <1>1, <1>2 DEF IInv, Control
<1>11. RingSorted'
  <2> SUFFICES ASSUME NEW a \in Ring'
               PROVE  \/ next'[a] > a /\ \A b \in Ring' : ~(a < b /\ b < next'[a])
                      \/ \A b \in Ring' : next'[a] <= b /\ b <= a
    BY DEF RingSorted
  <2>1. CASE a # p
    BY <1>5, <2>1 DEF IInv, RingSorted
  <2>2. CASE a = p
    <3>1. \/ c > p /\ \A b \in Ring : ~(p < b /\ b < c)
          \/ \A b \in Ring : c <= b /\ b <= p
      BY <1>2 DEF IInv, RingSorted
    <3>2. \/ next[c] > c /\ \A b \in Ring : ~(c < b /\ b < next[c])
          \/ \A b \in Ring : next[c] <= b /\ b <= c
      BY <1>2 DEF IInv, RingSorted
    <3>3. /\ p \in Nat /\ c \in Nat /\ next[c] \in Nat /\ next[c] \in Ring
          /\ \A b \in Ring : b \in Nat
      BY <1>2, Addresses DEF IInv, Shape
    <3>4. Ring' = Ring \ {c} /\ next'[a] = next[c]
      BY <1>5, <2>2
    <3>5. CASE c > p /\ \A b \in Ring : ~(p < b /\ b < c)
      BY <2>2, <3>2, <3>3, <3>4, <3>5
    <3>6. CASE \A b \in Ring : c <= b /\ b <= p
      <4>1. c < p
        BY <1>2, <1>4, <3>3, <3>6
      <4>2. next[c] > c /\ \A b \in Ring : ~(c < b /\ b < next[c])
        BY <1>2, <3>2, <3>3, <4>1
      <4>3. QED
        BY <2>2, <3>3, <3>4, <3>6, <4>2
    <3>7. QED
      BY <3>1, <3>5, <3>6
  <2>3. QED
    BY <2>1, <2>2
<1>12. Coalesced'
  BY <1>1, <1>5 DEF IInv, Coalesced
<1>13. QED
  BY <1>8, <1>9, <1>10, <1>11, <1>12 DEF IInv

(* The block cut off lies inside the one it is cut from.                   *)
LEMMA SplitIInv ==
  ASSUME IInv, Split
  PROVE  IInv'
<1> DEFINE c == currp
           n == nunits
           at == c + (size[c] - n)
<1>1. /\ pc = "scan" /\ size[c] > n /\ pc' = "idle" /\ freep' = prevp
      /\ live' = live \cup {[at |-> at, bytes |-> request]}
      /\ size' = NewSizes(at)
      /\ request' = NULL /\ prevp' = NULL /\ currp' = NULL
      /\ UNCHANGED <<next, insertp, pos, resume, heap, grown>>
  BY DEF Split, Give, Return
<1>2. /\ freep # NULL /\ Base \in Ring /\ size[Base] = 0
      /\ prevp \in Ring /\ c = next[prevp] /\ c \in Ring /\ request \in Requests
      /\ insertp = NULL /\ pos = NULL /\ prevp # NULL
  BY <1>1, Addresses DEF IInv, Shape, Control
<1>3. n \in Nat /\ n > 0 /\ Enough(n, request)
  BY <1>2, UnitsEnough DEF nunits
<1>4. /\ c # Base /\ c \in Blocks /\ c \in Nat /\ size[c] \in Nat
      /\ at \in Nat /\ c < at /\ at < c + size[c] /\ at + n = c + size[c]
  <2>1. c # Base /\ c \in Nat /\ size[c] \in Nat
    BY <1>1, <1>2, <1>3, Addresses DEF IInv, Shape
  <2>2. QED
    BY <1>1, <1>2, <1>3, <2>1 DEF IInv, Shape, Blocks
<1>5. at \in heap /\ at # Base /\ at \notin Blocks /\ at \notin DOMAIN size
  <2>1. at \in heap /\ at # Base
    BY <1>4 DEF IInv, Shape, Laid
  <2>2. at \notin Blocks
    <3> SUFFICES ASSUME at \in Blocks
                 PROVE  FALSE
      OBVIOUS
    <3>1. at \in Nat /\ size[at] \in Nat /\ size[at] > 0
      BY DEF IInv, Shape
    <3>2. c + size[c] <= at \/ at + size[at] <= c
      BY <1>4 DEF IInv, Laid
    <3>3. QED
      BY <1>4, <3>1, <3>2
  <2>3. QED
    BY <2>1, <2>2 DEF Blocks
<1> HIDE DEF at
<1>6. /\ Ring' = Ring /\ Blocks' = Blocks \cup {at} /\ DOMAIN size' = DOMAIN size \cup {at}
      /\ size'[at] = n /\ size'[c] = size[c] - n
      /\ \A a \in DOMAIN size : a # c => size'[a] = size[a]
  BY <1>1, <1>2, <1>4, <1>5 DEF NewSizes, Ring, Blocks
<1>7. Shape'
  <2>1. \A a \in Blocks' : a \in Nat /\ size'[a] \in Nat /\ size'[a] > 0
    BY <1>1, <1>3, <1>4, <1>6 DEF IInv, Shape, Blocks
  <2>2. size'[Base] = 0
    BY <1>2, <1>4, <1>6 DEF IInv, Shape
  <2>3. QED
    BY <1>1, <1>2, <1>6, <2>1, <2>2 DEF IInv, Shape
<1>8. Laid'
  <2>1. \A a \in Blocks' : \A u \in Nat : a <= u /\ u < a + size'[a] => u \in heap'
    BY <1>1, <1>3, <1>4, <1>6 DEF IInv, Shape, Laid, Blocks
  <2>2. \A u \in heap' : \E a \in Blocks' : a <= u /\ u < a + size'[a]
    <3> SUFFICES ASSUME NEW u \in heap
                 PROVE  \E a \in Blocks' : a <= u /\ u < a + size'[a]
      BY <1>1
    <3>1. PICK a \in Blocks : a <= u /\ u < a + size[a]
      BY DEF IInv, Laid
    <3>2. CASE a # c
      BY <1>6, <3>1, <3>2 DEF Blocks
    <3>3. CASE a = c
      BY <1>3, <1>4, <1>6, <3>1, <3>3 DEF IInv, Shape
    <3>4. QED
      BY <3>2, <3>3
  <2>3. \A a, b \in Blocks' : a # b => a + size'[a] <= b \/ b + size'[b] <= a
    <3>1. \A a \in Blocks : a # c => a + size[a] <= c \/ c + size[c] <= a
      BY <1>4 DEF IInv, Laid
    <3>2. \A a \in Blocks : a # c => size'[a] = size[a] /\ a \in Nat /\ size[a] \in Nat
      BY <1>6 DEF IInv, Shape, Blocks
    <3>3. ASSUME NEW a \in Blocks, NEW b \in Blocks, a # b
          PROVE  a + size'[a] <= b \/ b + size'[b] <= a
      BY <1>1, <1>3, <1>4, <1>6, <3>1, <3>2, <3>3 DEF IInv, Laid
    <3>4. ASSUME NEW a \in Blocks
          PROVE  a + size'[a] <= at \/ at + size'[at] <= a
      BY <1>1, <1>3, <1>4, <1>6, <3>1, <3>2
    <3>5. QED
      BY <1>6, <3>3, <3>4
  <2>4. QED
    BY <2>1, <2>2, <2>3 DEF Laid
<1>9. Owned'
  <2> DEFINE new == [at |-> at, bytes |-> request]
  <2>1. new.at = at /\ new.bytes = request /\ live' = live \cup {new}
    BY <1>1
  <2> HIDE DEF new
  <2>2. {b.at : b \in live'} = {b.at : b \in live} \cup {at}
    BY <2>1
  <2>3. \A b \in live : b.at # at /\ b.at # c /\ b.at \in DOMAIN size
    BY <1>2, <1>5 DEF IInv, Owned, Blocks
  <2>4. at \notin Ring /\ at # NULL
    BY <1>4, <1>5 DEF IInv, Shape, NULL
  <2>5. Blocks' = (Ring' \ {Base}) \cup {b.at : b \in live'} \cup ({insertp'} \ {NULL})
    BY <1>1, <1>6, <2>2 DEF IInv, Owned
  <2>6. \A b \in live' :
          /\ b.at \notin Ring' /\ b.at # insertp'
          /\ b.bytes \in Requests /\ Enough(size'[b.at], b.bytes)
    <3>1. \A b \in live : size'[b.at] = size[b.at]
      BY <1>6, <2>3
    <3>2. QED
      BY <1>1, <1>2, <1>3, <1>6, <2>1, <2>4, <3>1 DEF IInv, Owned
  <2>7. \A b, d \in live' : b.at = d.at => b = d
    BY <2>1, <2>3 DEF IInv, Owned
  <2>8. insertp' \notin Ring'
    BY <1>1, <1>6 DEF IInv, Owned
  <2>9. QED
    BY <2>5, <2>6, <2>7, <2>8 DEF Owned
<1>10. Control'
  BY <1>1, <1>2 DEF IInv, Control
<1>11. RingSorted'
  BY <1>1, <1>6 DEF IInv, RingSorted
<1>12. Coalesced'
  <2>1. \A a \in Ring \ {Base} : a # c => size'[a] = size[a]
    BY <1>6 DEF IInv, Shape
  <2>2. c + size'[c] = at /\ at \notin Ring
    BY <1>3, <1>4, <1>5, <1>6 DEF IInv, Shape
  <2>3. QED
    BY <1>6, <2>1, <2>2 DEF IInv, Coalesced
<1>13. QED
  BY <1>7, <1>8, <1>9, <1>10, <1>11, <1>12 DEF IInv

(* n units from c on that were not managed before, apart from base.        *)
NewMemory(c, n) ==
  /\ c \in Nat /\ n \in Nat /\ n > 0
  /\ \A u \in c..(c + n - 1) : u \notin heap /\ u # Base

LEMMA AddChunkIInv ==
  ASSUME IInv, NEW c, NEW n, NewMemory(c, n), AddChunk(c, n)
  PROVE  IInv'
<1>1. /\ pc = "scan" /\ pc' = "seek" /\ resume' = "scan" /\ grown' = TRUE
      /\ insertp' = c /\ pos' = freep
      /\ heap' = heap \cup c..(c + n - 1)
      /\ size' = [a \in DOMAIN size \cup {c} |-> IF a = c THEN n ELSE size[a]]
      /\ UNCHANGED <<next, freep, request, prevp, currp, live>>
  BY DEF AddChunk, Exhausted
<1>2. /\ freep # NULL /\ freep \in Ring /\ Base \in Ring /\ size[Base] = 0
      /\ prevp \in Ring /\ currp \in Ring /\ request \in Requests
      /\ insertp = NULL
  BY <1>1 DEF IInv, Shape, Control
<1>3. c \in Nat /\ n \in Nat /\ n > 0 /\ c # NULL
  BY DEF NewMemory, NULL
<1>4. c \notin heap /\ c # Base /\ c \notin DOMAIN size
  <2>1. c \notin heap /\ c # Base
    BY <1>3 DEF NewMemory
  <2>2. Blocks \subseteq heap
    BY DEF IInv, Shape, Laid
  <2>3. QED
    BY <2>1, <2>2 DEF Blocks
<1>5. /\ Ring' = Ring /\ DOMAIN size' = DOMAIN size \cup {c} /\ Blocks' = Blocks \cup {c}
      /\ size'[c] = n /\ \A a \in DOMAIN size : size'[a] = size[a]
  BY <1>1, <1>4 DEF Ring, Blocks
<1>6. Shape'
  <2>1. heap' \subseteq Nat /\ Base \notin heap'
    BY <1>1, <1>3 DEF IInv, Shape, NewMemory
  <2>2. \A a \in Blocks' : a \in Nat /\ size'[a] \in Nat /\ size'[a] > 0
    BY <1>3, <1>5 DEF IInv, Shape, Blocks
  <2>3. QED
    BY <1>1, <1>2, <1>5, <2>1, <2>2 DEF IInv, Shape
<1>7. Laid'
  <2>1. \A a \in Blocks : size'[a] = size[a] /\ a \in Nat /\ size[a] \in Nat
    BY <1>5 DEF IInv, Shape, Blocks
  <2>2. \A a \in Blocks' : \A u \in Nat : a <= u /\ u < a + size'[a] => u \in heap'
    <3>1. \A a \in Blocks : \A u \in Nat : a <= u /\ u < a + size'[a] => u \in heap
      BY <2>1 DEF IInv, Laid
    <3>2. \A u \in Nat : c <= u /\ u < c + size'[c] => u \in c..(c + n - 1)
      BY <1>3, <1>5
    <3>3. QED
      BY <1>1, <1>5, <3>1, <3>2
  <2>3. \A u \in heap' : \E a \in Blocks' : a <= u /\ u < a + size'[a]
    <3>1. ASSUME NEW u \in heap
          PROVE  \E a \in Blocks' : a <= u /\ u < a + size'[a]
      BY <1>5, <2>1 DEF IInv, Laid
    <3>2. ASSUME NEW u \in c..(c + n - 1)
          PROVE  \E a \in Blocks' : a <= u /\ u < a + size'[a]
      BY <1>3, <1>5
    <3>3. QED
      BY <1>1, <3>1, <3>2
  <2>4. \A a \in Blocks : a + size[a] <= c \/ c + n <= a
    <3> SUFFICES ASSUME NEW a \in Blocks, ~(a + size[a] <= c), ~(c + n <= a)
                 PROVE  FALSE
      OBVIOUS
    <3>1. a \in Nat /\ size[a] \in Nat /\ size[a] > 0
      BY DEF IInv, Shape
    <3>2. CASE a <= c
      BY <1>3, <1>4, <3>1, <3>2 DEF IInv, Laid
    <3>3. CASE a > c
      <4>1. a \in heap
        BY <3>1 DEF IInv, Laid
      <4>2. a \in c..(c + n - 1)
        BY <1>3, <3>1, <3>3
      <4>3. QED
        BY <4>1, <4>2 DEF NewMemory
    <3>4. QED
      BY <1>3, <3>1, <3>2, <3>3
  <2>5. \A a, b \in Blocks' : a # b => a + size'[a] <= b \/ b + size'[b] <= a
    BY <1>5, <2>1, <2>4 DEF IInv, Laid
  <2>6. QED
    BY <2>2, <2>3, <2>5 DEF Laid
<1>8. Owned'
  <2>1. \A b \in live : b.at \in DOMAIN size /\ b.at # c
    BY <1>4 DEF IInv, Owned, Blocks
  <2>2. c \notin Ring
    BY <1>4 DEF IInv, Shape
  <2>3. Blocks' = (Ring' \ {Base}) \cup {b.at : b \in live'} \cup ({insertp'} \ {NULL})
    BY <1>1, <1>2, <1>3, <1>5 DEF IInv, Owned
  <2>4. QED
    BY <1>1, <1>5, <2>1, <2>2, <2>3 DEF IInv, Owned
<1>9. Control'
  BY <1>1, <1>2, <1>3, <1>5 DEF IInv, Control
<1>10. RingSorted'
  BY <1>1, <1>5 DEF IInv, RingSorted
<1>11. Coalesced'
  BY <1>1, <1>5 DEF IInv, Shape, Coalesced
<1>12. QED
  BY <1>6, <1>7, <1>8, <1>9, <1>10, <1>11 DEF IInv
-----------------------------------------------------------------------------
(* kr_free's changes of the headers, taken apart: the block is inserted,   *)
(* then the block after it and then it itself is joined to the one before. *)
(* nx and sz stand for next and size in between.                           *)
Sorted(nx) ==
  \A a \in DOMAIN nx :
    \/ nx[a] > a /\ \A b \in DOMAIN nx : ~(a < b /\ b < nx[a])
    \/ \A b \in DOMAIN nx : nx[a] <= b /\ b <= a

Blocked(sz) ==
  /\ heap \subseteq Nat
  /\ \A a \in DOMAIN sz \ {Base} : a \in Nat /\ sz[a] \in Nat /\ sz[a] > 0
  /\ \A a \in DOMAIN sz \ {Base} : \A u \in Nat : a <= u /\ u < a + sz[a] => u \in heap
  /\ \A u \in heap : \E a \in DOMAIN sz \ {Base} : a <= u /\ u < a + sz[a]
  /\ \A a, b \in DOMAIN sz \ {Base} : a # b => a + sz[a] <= b \/ b + sz[b] <= a

Ringed(nx, sz) ==
  /\ DOMAIN nx \subseteq DOMAIN sz
  /\ \A a \in DOMAIN nx : nx[a] \in DOMAIN nx
  /\ Base \in DOMAIN nx /\ sz[Base] = 0

Good(nx, sz) == Sorted(nx) /\ Blocked(sz) /\ Ringed(nx, sz)

Inserted(nx, i, p) ==
  [a \in DOMAIN nx \cup {i} |-> IF a = i THEN nx[p] ELSE IF a = p THEN i ELSE nx[a]]

JoinedNext(nx, a) ==
  [x \in DOMAIN nx \ {nx[a]} |-> IF x = a THEN nx[nx[a]] ELSE nx[x]]

JoinedSize(nx, sz, a) ==
  [x \in DOMAIN sz \ {nx[a]} |-> IF x = a THEN sz[a] + sz[nx[a]] ELSE sz[x]]

(* i belongs after p.                                                      *)
Place(nx, i, p) ==
  \/ p < i /\ i < nx[p]
  \/ p >= nx[p] /\ (p < i \/ i < nx[p])

LEMMA InsertKeeps ==
  ASSUME NEW nx, NEW sz, NEW i \in DOMAIN sz, NEW p \in DOMAIN nx,
         Good(nx, sz), i \notin DOMAIN nx, Place(nx, i, p)
  PROVE  Good(Inserted(nx, i, p), sz)
<1> DEFINE n == nx[p]
           new == Inserted(nx, i, p)
<1>1. /\ DOMAIN new = DOMAIN nx \cup {i} /\ new[i] = n /\ new[p] = i
      /\ \A a \in DOMAIN nx : a # p => new[a] = nx[a]
  BY DEF Inserted
<1>2. /\ i \in Nat /\ n \in DOMAIN nx /\ \A a \in DOMAIN nx : a \in Nat
  BY FreeListAssumption DEF Good, Blocked, Ringed
<1>3. p # i /\ n # i
  BY <1>2
<1> HIDE DEF new
<1>4. CASE p < i /\ i < n
  <2>1. \A b \in DOMAIN nx : ~(p < b /\ b < n)
    BY <1>2, <1>4 DEF Good, Sorted
  <2>2. Sorted(new)
    <3> SUFFICES ASSUME NEW a \in DOMAIN new
                 PROVE  \/ new[a] > a /\ \A b \in DOMAIN new : ~(a < b /\ b < new[a])
                        \/ \A b \in DOMAIN new : new[a] <= b /\ b <= a
      BY DEF Sorted
    <3>1. CASE a = i
      BY <1>1, <1>2, <1>4, <2>1, <3>1
    <3>2. CASE a = p
      BY <1>1, <1>2, <1>4, <2>1, <3>2
    <3>3. CASE a # i /\ a # p
      <4>1. a \in DOMAIN nx /\ new[a] = nx[a] /\ nx[a] \in DOMAIN nx
        BY <1>1, <3>3 DEF Good, Ringed
      <4>2. CASE nx[a] > a /\ \A b \in DOMAIN nx : ~(a < b /\ b < nx[a])
        BY <1>1, <1>2, <1>4, <2>1, <3>3, <4>1, <4>2
      <4>3. CASE \A b \in DOMAIN nx : nx[a] <= b /\ b <= a
        BY <1>1, <1>2, <1>4, <4>1, <4>3
      <4>4. QED
        BY <4>1, <4>2, <4>3 DEF Good, Sorted
    <3>4. QED
      BY <3>1, <3>2, <3>3
  <2>3. QED
    BY <1>1, <1>2, <2>2 DEF new, Good, Ringed
<1>5. CASE p >= n /\ (p < i \/ i < n)
  <2>1. \A b \in DOMAIN nx : n <= b /\ b <= p
    BY <1>2, <1>5 DEF Good, Sorted
  <2>2. Sorted(new)
    <3> SUFFICES ASSUME NEW a \in DOMAIN new
                 PROVE  \/ new[a] > a /\ \A b \in DOMAIN new : ~(a < b /\ b < new[a])
                        \/ \A b \in DOMAIN new : new[a] <= b /\ b <= a
      BY DEF Sorted
    <3>1. CASE a = i
      BY <1>1, <1>2, <1>5, <2>1, <3>1
    <3>2. CASE a = p
      BY <1>1, <1>2, <1>5, <2>1, <3>2
    <3>3. CASE a # i /\ a # p
      <4>1. a \in DOMAIN nx /\ new[a] = nx[a] /\ nx[a] \in DOMAIN nx
        BY <1>1, <3>3 DEF Good, Ringed
      <4>2. CASE nx[a] > a /\ \A b \in DOMAIN nx : ~(a < b /\ b < nx[a])
        BY <1>1, <1>2, <1>5, <2>1, <3>3, <4>1, <4>2
      <4>3. CASE \A b \in DOMAIN nx : nx[a] <= b /\ b <= a
        BY <1>1, <1>2, <1>5, <2>1, <3>3, <4>1, <4>3
      <4>4. QED
        BY <4>1, <4>2, <4>3 DEF Good, Sorted
    <3>4. QED
      BY <3>1, <3>2, <3>3
  <2>3. QED
    BY <1>1, <1>2, <2>2 DEF new, Good, Ringed
<1>6. QED
  BY <1>4, <1>5 DEF Place

LEMMA JoinKeeps ==
  ASSUME NEW nx, NEW sz, NEW a \in DOMAIN nx, Good(nx, sz),
         a # Base, nx[a] # Base, nx[a] # a, a + sz[a] = nx[a]
  PROVE  Good(JoinedNext(nx, a), JoinedSize(nx, sz, a))
<1> DEFINE b == nx[a]
           c == nx[b]
           nx2 == JoinedNext(nx, a)
           sz2 == JoinedSize(nx, sz, a)
<1>1. /\ DOMAIN nx2 = DOMAIN nx \ {b} /\ nx2[a] = c
      /\ \A x \in DOMAIN nx \ {a, b} : nx2[x] = nx[x]
  BY DEF JoinedNext
<1>2. b \in DOMAIN nx /\ a \in DOMAIN sz /\ b \in DOMAIN sz
  BY DEF Good, Ringed
<1>3. /\ DOMAIN sz2 = DOMAIN sz \ {b} /\ sz2[a] = sz[a] + sz[b]
      /\ \A x \in DOMAIN sz \ {a, b} : sz2[x] = sz[x]
  BY <1>2 DEF JoinedSize
<1>4. /\ a \in Nat /\ b \in Nat /\ sz[a] \in Nat /\ sz[a] > 0 /\ sz[b] \in Nat /\ sz[b] > 0
      /\ b = a + sz[a] /\ a < b
  BY <1>2 DEF Good, Blocked
<1>5. \A x \in DOMAIN nx : x \in Nat
  BY FreeListAssumption DEF Good, Blocked, Ringed
<1>6. \A x, y \in DOMAIN nx : nx[x] = nx[y] => x = y
  BY <1>5 DEF Good, Sorted, Ringed
<1>7. c \in DOMAIN nx /\ c # b
  BY <1>2, <1>4, <1>6 DEF Good, Ringed
<1> HIDE DEF nx2, sz2
<1>8. Ringed(nx2, sz2)
  <2>1. \A x \in DOMAIN nx2 : nx2[x] \in DOMAIN nx2
    BY <1>1, <1>6, <1>7 DEF Good, Ringed
  <2>2. Base \in DOMAIN nx2 /\ Base \in DOMAIN sz \ {a, b}
    BY <1>1, <1>2 DEF Good, Ringed
  <2>3. QED
    BY <1>1, <1>3, <2>1, <2>2 DEF Good, Ringed
<1>9. Sorted(nx2)
  <2>1. \A x \in DOMAIN nx : ~(a < x /\ x < b)
    BY <1>2, <1>4, <1>5 DEF Good, Sorted
  <2>2. \/ c > b /\ \A x \in DOMAIN nx : ~(b < x /\ x < c)
        \/ \A x \in DOMAIN nx : c <= x /\ x <= b
    BY <1>2 DEF Good, Sorted
  <2>3. \A x \in DOMAIN nx \ {a, b} :
          \/ nx[x] > x /\ \A y \in DOMAIN nx : ~(x < y /\ y < nx[x])
          \/ \A y \in DOMAIN nx : nx[x] <= y /\ y <= x
    BY DEF Good, Sorted
  <2>4. \A x \in DOMAIN nx2 \ {a} :
          \/ nx2[x] > x /\ \A y \in DOMAIN nx2 : ~(x < y /\ y < nx2[x])
          \/ \A y \in DOMAIN nx2 : nx2[x] <= y /\ y <= x
    BY <1>1, <2>3
  <2>5. CASE c > b /\ \A x \in DOMAIN nx : ~(b < x /\ x < c)
    <3>1. nx2[a] > a /\ \A y \in DOMAIN nx2 : ~(a < y /\ y < nx2[a])
      BY <1>1, <1>4, <1>5, <1>7, <2>1, <2>5
    <3>2. QED
      BY <1>1, <2>4, <3>1 DEF Sorted
  <2>6. CASE \A x \in DOMAIN nx : c <= x /\ x <= b
    <3>1. \A y \in DOMAIN nx2 : nx2[a] <= y /\ y <= a
      BY <1>1, <1>4, <1>5, <1>7, <2>1, <2>6
    <3>2. QED
      BY <1>1, <2>4, <3>1 DEF Sorted
  <2>7. QED
    BY <2>2, <2>5, <2>6
<1>10. Blocked(sz2)
  <2>1. \A x \in DOMAIN sz2 \ {Base} : x # a => x \in DOMAIN sz \ {Base} /\ sz2[x] = sz[x]
    BY <1>3
  <2>2. \A x \in DOMAIN sz2 \ {Base} : x \in Nat /\ sz2[x] \in Nat /\ sz2[x] > 0
    BY <1>3, <1>4, <2>1 DEF Good, Blocked
  <2>3. ASSUME NEW x \in DOMAIN sz2 \ {Base}, NEW u \in Nat, x <= u, u < x + sz2[x]
        PROVE  u \in heap
    <3>1. CASE x # a
      BY <2>1, <2>3, <3>1 DEF Good, Blocked
    <3>2. CASE x = a /\ u < a + sz[a]
      BY <1>2, <2>3, <3>2 DEF Good, Blocked
    <3>3. CASE x = a /\ ~(u < a + sz[a])
      <4>1. b <= u /\ u < b + sz[b]
        BY <1>3, <1>4, <2>3, <3>3
      <4>2. QED
        BY <1>2, <4>1 DEF Good, Blocked
    <3>4. QED
      BY <3>1, <3>2, <3>3
  <2>4. ASSUME NEW u \in heap
        PROVE  \E x \in DOMAIN sz2 \ {Base} : x <= u /\ u < x + sz2[x]
    <3>1. PICK x \in DOMAIN sz \ {Base} : x <= u /\ u < x + sz[x]
      BY DEF Good, Blocked
    <3>2. CASE x \notin {a, b}
      BY <1>3, <3>1, <3>2
    <3>3. CASE x \in {a, b}
      <4>1. u \in Nat
        BY DEF Good, Blocked
      <4>2. QED
        BY <1>2, <1>3, <1>4, <3>1, <3>3, <4>1
    <3>4. QED
      BY <3>2, <3>3
  <2>5. ASSUME NEW x \in DOMAIN sz2 \ {Base}, NEW y \in DOMAIN sz2 \ {Base}, x # y
        PROVE  x + sz2[x] <= y \/ y + sz2[y] <= x
    <3>1. \A z \in DOMAIN sz2 \ {Base} : z # a => z + sz2[z] <= a \/ b + sz[b] <= z
      <4> SUFFICES ASSUME NEW z \in DOMAIN sz2 \ {Base}, z # a
                   PROVE  z + sz2[z] <= a \/ b + sz[b] <= z
        OBVIOUS
      <4>1. /\ z \in Nat /\ sz2[z] = sz[z] /\ sz[z] \in Nat /\ sz[z] > 0
            /\ z \in DOMAIN sz \ {Base} /\ z # b
        BY <1>3, <2>1, <2>2
      <4>2. z + sz[z] <= a \/ a + sz[a] <= z
        BY <1>2, <4>1 DEF Good, Blocked
      <4>3. z + sz[z] <= b \/ b + sz[b] <= z
        BY <1>2, <4>1 DEF Good, Blocked
      <4>4. QED
        BY <1>4, <4>1, <4>2, <4>3
    <3>2. b + sz[b] = a + sz2[a]
      BY <1>3, <1>4
    <3>3. CASE x = a \/ y = a
      BY <2>2, <2>5, <3>1, <3>2, <3>3
    <3>4. CASE x # a /\ y # a
      BY <2>1, <2>5, <3>4 DEF Good, Blocked
    <3>5. QED
      BY <3>3, <3>4
  <2>6. QED
    BY <2>2, <2>3, <2>4, <2>5 DEF Good, Blocked
<1>11. QED
  BY <1>8, <1>9, <1>10 DEF Good, nx2, sz2

LEMMA FieldsAreGood ==
  ASSUME IInv, freep # NULL
  PROVE  Good(next, size)
  BY DEF IInv, Good, Shape, Laid, RingSorted, Sorted, Blocked, Ringed, Blocks, Ring

(* Where Seek stops: nothing else in the ring is nearer.                   *)
LEMMA NothingBetween ==
  ASSUME IInv, freep # NULL, pos \in Ring, insertp \in Nat, insertp \notin Ring, Found
  PROVE  \/ /\ next[pos] > insertp
            /\ \A b \in Ring : b < insertp \/ b >= next[pos]
         \/ \A b \in Ring : b < insertp
<1>1. /\ \A b \in Ring : b \in Nat /\ b # insertp
      /\ next[pos] \in Ring
  BY Addresses DEF IInv, Shape
<1>2. \/ next[pos] > pos /\ \A b \in Ring : ~(pos < b /\ b < next[pos])
      \/ \A b \in Ring : next[pos] <= b /\ b <= pos
  BY DEF IInv, RingSorted
<1>3. QED
  BY <1>1, <1>2 DEF Found

LEMMA NothingBefore ==
  ASSUME IInv, freep # NULL, pos \in Ring, insertp \in Nat, insertp \notin Ring, Found
  PROVE  \/ /\ pos < insertp
            /\ \A b \in Ring : b > insertp \/ b <= pos
         \/ \A b \in Ring : b > insertp
<1>1. /\ \A b \in Ring : b \in Nat /\ b # insertp
      /\ next[pos] \in Ring
  BY Addresses DEF IInv, Shape
<1>2. \/ next[pos] > pos /\ \A b \in Ring : ~(pos < b /\ b < next[pos])
      \/ \A b \in Ring : next[pos] <= b /\ b <= pos
  BY DEF IInv, RingSorted
<1>3. QED
  BY <1>1, <1>2 DEF Found

(* A join with the block after; base alone in the ring may be found right  *)
(* behind the block as well, which adds nothing to it.                     *)
JoinsBlock == JoinsNext /\ next[pos] # Base

(* What kr_free knows when it links its block in: the blocks on both sides *)
(* of it, neither of which is base if it touches it.                       *)
LEMMA LinkPlace ==
  ASSUME IInv, pc = "seek", Found
  PROVE  /\ insertp \in Blocks /\ insertp \in Nat /\ insertp \notin Ring /\ insertp # Base
         /\ size[insertp] \in Nat /\ size[insertp] > 0 /\ insertp # NULL
         /\ freep # NULL /\ Base \in Ring /\ pos \in Ring /\ next[pos] \in Ring
         /\ pos # insertp /\ next[pos] # insertp
         /\ JoinsBlock => next[pos] # Base /\ next[pos] # pos
         /\ JoinsPrev => pos # Base
<1>1. /\ insertp # NULL /\ pos \in Ring /\ insertp \in Blocks /\ insertp \notin Ring
      /\ freep # NULL /\ Base \in Ring /\ size[Base] = 0
  BY DEF IInv, Shape, Owned, Control
<1>2. /\ insertp \in Nat /\ size[insertp] \in Nat /\ size[insertp] > 0 /\ insertp # Base
      /\ next[pos] \in Ring
  BY <1>1 DEF IInv, Shape
<1>3. JoinsBlock => next[pos] # Base
  BY DEF JoinsBlock
<1>4. JoinsBlock => next[pos] # pos
  BY <1>1, <1>3, NextDiffers
<1>5. JoinsPrev => pos # Base
  BY <1>1, <1>2, FreeListAssumption DEF JoinsPrev
<1>6. QED
  BY <1>1, <1>2, <1>3, <1>4, <1>5

(* As long as base stays, what is joined is a block or adds nothing.       *)
LEMMA LinkJoins ==
  ASSUME IInv, Link, Base \in Ring'
  PROVE  /\ Absorbed = (IF JoinsBlock THEN {next[pos]} ELSE {})
                           \cup (IF JoinsPrev THEN {insertp} ELSE {})
         /\ (IF JoinsNext THEN size[next[pos]] ELSE 0)
              = (IF JoinsBlock THEN size[next[pos]] ELSE 0)
         /\ (IF JoinsNext THEN next[next[pos]] ELSE next[pos])
              = (IF JoinsBlock THEN next[next[pos]] ELSE next[pos])
<1>1. /\ insertp # Base /\ insertp # pos /\ size[Base] = 0
      /\ JoinsBlock => next[pos] # pos
  BY LinkPlace DEF Link, IInv, Shape
<1>2. Base \notin Absorbed
  BY DEF Link, Ring
<1>3. CASE JoinsNext /\ next[pos] = Base
  <2>1. pos = Base
    BY <1>2, <1>3 DEF Absorbed
  <2>2. QED
    BY <1>1, <1>3, <2>1 DEF Absorbed, JoinsBlock
<1>4. CASE ~(JoinsNext /\ next[pos] = Base)
  BY <1>1, <1>4 DEF Absorbed, JoinsBlock
<1>5. QED
  BY <1>3, <1>4

(* The headers afterwards, one by one.                                     *)
LEMMA LinkHeaders ==
  ASSUME IInv, Link, Base \in Ring'
  PROVE  /\ Ring' = (Ring \cup {insertp}) \ Absorbed
         /\ DOMAIN size' = DOMAIN size \ Absorbed
         /\ \A a \in DOMAIN size' \ {insertp, pos} : size'[a] = size[a]
         /\ \A a \in Ring' \ {insertp, pos} : next'[a] = next[a]
         /\ ~JoinsPrev =>
              /\ size'[insertp] = size[insertp] + IF JoinsBlock THEN size[next[pos]] ELSE 0
              /\ size'[pos] = size[pos]
              /\ next'[insertp] = IF JoinsBlock THEN next[next[pos]] ELSE next[pos]
              /\ next'[pos] = insertp
         /\ JoinsPrev =>
              /\ size'[pos] = size[pos] + (size[insertp]
                                + IF JoinsBlock THEN size[next[pos]] ELSE 0)
              /\ next'[pos] = IF JoinsBlock THEN next[next[pos]] ELSE next[pos]
<1> DEFINE isize == size[insertp] + IF JoinsBlock THEN size[next[pos]] ELSE 0
           inext == IF JoinsBlock THEN next[next[pos]] ELSE next[pos]
<1>1. /\ size' = [a \in DOMAIN size \ Absorbed |->
                    IF a = insertp THEN isize
                    ELSE IF a = pos /\ JoinsPrev THEN size[pos] + isize
                    ELSE size[a]]
      /\ next' = [a \in (DOMAIN next \cup {insertp}) \ Absorbed |->
                    IF a = insertp THEN inext
                    ELSE IF a = pos THEN IF JoinsPrev THEN inext ELSE insertp
                    ELSE next[a]]
  BY LinkJoins DEF Link
<1>2. /\ insertp \in Blocks /\ pos \in Ring /\ pos # insertp /\ next[pos] # insertp
  BY LinkPlace DEF Link
<1>3. pos \in DOMAIN size /\ insertp \in DOMAIN size
  BY <1>2 DEF IInv, Shape, Blocks
<1>4. pos \notin Absorbed /\ (insertp \in Absorbed <=> JoinsPrev)
  BY <1>2 DEF Absorbed
<1> HIDE DEF isize, inext
<1>5. /\ DOMAIN size' = DOMAIN size \ Absorbed
      /\ \A a \in DOMAIN size' \ {insertp, pos} : size'[a] = size[a]
      /\ ~JoinsPrev => size'[insertp] = isize /\ size'[pos] = size[pos]
      /\ JoinsPrev => size'[pos] = size[pos] + isize
  BY <1>1, <1>2, <1>3, <1>4
<1>6. /\ Ring' = (Ring \cup {insertp}) \ Absorbed
      /\ \A a \in Ring' \ {insertp, pos} : next'[a] = next[a]
      /\ ~JoinsPrev => next'[insertp] = inext /\ next'[pos] = insertp
      /\ JoinsPrev => next'[pos] = inext
  BY <1>1, <1>2, <1>4 DEF Ring
<1>7. QED
  BY <1>5, <1>6 DEF isize, inext

(* Good asks nothing of the fields but their values.                       *)
LEMMA GoodByValues ==
  ASSUME NEW nx, NEW sz, NEW nx2, NEW sz2, Good(nx, sz),
         DOMAIN nx2 = DOMAIN nx, \A a \in DOMAIN nx : nx2[a] = nx[a],
         DOMAIN sz2 = DOMAIN sz, \A a \in DOMAIN sz : sz2[a] = sz[a]
  PROVE  Good(nx2, sz2)
<1>1. Sorted(nx2)
  BY DEF Good, Sorted
<1>2. Blocked(sz2)
  BY DEF Good, Blocked
<1>3. Ringed(nx2, sz2)
  BY DEF Good, Ringed
<1>4. QED
  BY <1>1, <1>2, <1>3 DEF Good

LEMMA LinkIsGood ==
  ASSUME IInv, Link, Base \in Ring'
  PROVE  Good(next', size')
<1> DEFINE i == insertp
           p == pos
           n == next[p]
           nx1 == Inserted(next, i, p)
           nx2 == JoinedNext(nx1, i)
           sz2 == JoinedSize(nx1, size, i)
<1>1. /\ i \in Blocks /\ i \notin Ring /\ i # Base /\ i # p /\ n # i
      /\ p \in Ring /\ n \in Ring /\ freep # NULL
      /\ JoinsBlock => n # Base /\ n # p
      /\ JoinsPrev => p # Base
  BY LinkPlace DEF Link
<1>2. Good(nx1, size)
  <2>1. i \in DOMAIN size /\ Place(next, i, p)
    BY <1>1 DEF Link, Found, Place, Blocks
  <2>2. QED
    BY <1>1, <2>1, FieldsAreGood, InsertKeeps DEF Ring
<1>3. /\ DOMAIN nx1 = Ring \cup {i} /\ nx1[i] = n /\ nx1[p] = i
      /\ \A a \in Ring : a # p => nx1[a] = next[a]
  BY <1>1 DEF Inserted, Ring
<1> HIDE DEF nx1
<1>4. JoinsBlock =>
        /\ Good(nx2, sz2)
        /\ DOMAIN nx2 = (Ring \cup {i}) \ {n} /\ nx2[i] = next[n] /\ nx2[p] = i
        /\ \A a \in Ring : a # p /\ a # n => nx2[a] = next[a]
        /\ DOMAIN sz2 = DOMAIN size \ {n} /\ sz2[i] = size[i] + size[n]
        /\ \A a \in DOMAIN size : a # i /\ a # n => sz2[a] = size[a]
  <2> SUFFICES ASSUME JoinsBlock
               PROVE  /\ Good(nx2, sz2)
                      /\ DOMAIN nx2 = (Ring \cup {i}) \ {n} /\ nx2[i] = next[n] /\ nx2[p] = i
                      /\ \A a \in Ring : a # p /\ a # n => nx2[a] = next[a]
                      /\ DOMAIN sz2 = DOMAIN size \ {n} /\ sz2[i] = size[i] + size[n]
                      /\ \A a \in DOMAIN size : a # i /\ a # n => sz2[a] = size[a]
    OBVIOUS
  <2>1. Good(nx2, sz2)
    BY <1>1, <1>2, <1>3, JoinKeeps DEF JoinsBlock, JoinsNext
  <2>2. /\ DOMAIN nx2 = (Ring \cup {i}) \ {n} /\ nx2[i] = next[n] /\ nx2[p] = i
        /\ \A a \in Ring : a # p /\ a # n => nx2[a] = next[a]
    BY <1>1, <1>3 DEF JoinedNext
  <2>3. /\ DOMAIN sz2 = DOMAIN size \ {n} /\ sz2[i] = size[i] + size[n]
        /\ \A a \in DOMAIN size : a # i /\ a # n => sz2[a] = size[a]
    BY <1>1, <1>3 DEF JoinedSize, Blocks
  <2>4. QED
    BY <2>1, <2>2, <2>3
<1> HIDE DEF nx2, sz2
<1>5. CASE ~JoinsBlock /\ ~JoinsPrev
  <2>1. Absorbed = {}
    BY <1>5, LinkJoins
  <2>2. /\ DOMAIN next' = DOMAIN nx1 /\ DOMAIN size' = DOMAIN size
        /\ \A a \in DOMAIN nx1 : next'[a] = nx1[a]
    BY <1>1, <1>3, <1>5, <2>1, LinkHeaders DEF Ring
  <2>3. \A a \in DOMAIN size : size'[a] = size[a]
    BY <1>1, <1>5, <2>1, <2>2, LinkHeaders DEF IInv, Shape, Blocks
  <2>4. QED
    BY <1>2, <2>2, <2>3, GoodByValues
<1>6. CASE JoinsBlock /\ ~JoinsPrev
  <2>1. Absorbed = {n}
    BY <1>6, LinkJoins
  <2>2. /\ DOMAIN next' = DOMAIN nx2 /\ DOMAIN size' = DOMAIN sz2
        /\ \A a \in DOMAIN nx2 : next'[a] = nx2[a]
    BY <1>1, <1>4, <1>6, <2>1, LinkHeaders DEF Ring
  <2>3. \A a \in DOMAIN sz2 : size'[a] = sz2[a]
    BY <1>1, <1>4, <1>6, <2>1, LinkHeaders DEF IInv, Shape, Blocks
  <2>4. QED
    BY <1>4, <1>6, <2>2, <2>3, GoodByValues
<1>7. CASE ~JoinsBlock /\ JoinsPrev
  <2> DEFINE nx3 == JoinedNext(nx1, p)
             sz3 == JoinedSize(nx1, size, p)
  <2>1. Absorbed = {i}
    BY <1>7, LinkJoins
  <2>2. Good(nx3, sz3)
    BY <1>1, <1>2, <1>3, <1>7, JoinKeeps DEF JoinsPrev
  <2>3. /\ DOMAIN nx3 = Ring /\ nx3[p] = n
        /\ \A a \in Ring : a # p => nx3[a] = next[a]
    BY <1>1, <1>3 DEF JoinedNext
  <2>4. /\ DOMAIN sz3 = DOMAIN size \ {i} /\ sz3[p] = size[p] + size[i]
        /\ \A a \in DOMAIN size : a # i /\ a # p => sz3[a] = size[a]
    BY <1>1, <1>3 DEF JoinedSize, IInv, Shape
  <2> HIDE DEF nx3, sz3
  <2>5. /\ DOMAIN next' = DOMAIN nx3 /\ DOMAIN size' = DOMAIN sz3
        /\ \A a \in DOMAIN nx3 : next'[a] = nx3[a]
    BY <1>1, <1>7, <2>1, <2>3, <2>4, LinkHeaders DEF Ring
  <2>6. \A a \in DOMAIN sz3 : size'[a] = sz3[a]
    <3>1. size[i] \in Nat
      BY LinkPlace DEF Link
    <3>2. QED
      BY <1>1, <1>7, <2>1, <2>4, <3>1, LinkHeaders DEF IInv, Shape, Blocks
  <2>7. QED
    BY <2>2, <2>5, <2>6, GoodByValues
<1>8. CASE JoinsBlock /\ JoinsPrev
  <2> DEFINE nx3 == JoinedNext(nx2, p)
             sz3 == JoinedSize(nx2, sz2, p)
  <2>1. Absorbed = {n, i}
    BY <1>8, LinkJoins
  <2>2. p \in DOMAIN size
    BY <1>1 DEF IInv, Shape
  <2>3. Good(nx3, sz3)
    <3>1. sz2[p] = size[p] /\ p \in DOMAIN nx2 /\ nx2[p] = i
      BY <1>1, <1>4, <1>8, <2>2
    <3>2. QED
      BY <1>1, <1>4, <1>8, <3>1, JoinKeeps DEF JoinsPrev
  <2>4. /\ DOMAIN nx3 = Ring \ {n} /\ nx3[p] = next[n]
        /\ \A a \in Ring : a # p /\ a # n => nx3[a] = next[a]
    BY <1>1, <1>4, <1>8 DEF JoinedNext
  <2>5. /\ DOMAIN sz3 = DOMAIN size \ {n, i} /\ sz3[p] = size[p] + (size[i] + size[n])
        /\ \A a \in DOMAIN size : a # i /\ a # p /\ a # n => sz3[a] = size[a]
    BY <1>1, <1>4, <1>8, <2>2 DEF JoinedSize
  <2> HIDE DEF nx3, sz3
  <2>6. /\ DOMAIN next' = DOMAIN nx3 /\ DOMAIN size' = DOMAIN sz3
        /\ \A a \in DOMAIN nx3 : next'[a] = nx3[a]
    BY <1>1, <1>8, <2>1, <2>4, <2>5, LinkHeaders DEF Ring
  <2>7. \A a \in DOMAIN sz3 : size'[a] = sz3[a]
    BY <1>1, <1>8, <2>1, <2>5, LinkHeaders
  <2>8. QED
    BY <2>3, <2>6, <2>7, GoodByValues
<1>9. QED
  BY <1>5, <1>6, <1>7, <1>8

(* No other block touches the one linked in than those it is joined to.    *)
LEMMA LinkTouches ==
  ASSUME IInv, pc = "seek", Found
  PROVE  /\ ~JoinsBlock => \A b \in Ring \ {Base} : insertp + size[insertp] # b
         /\ ~JoinsPrev => \A a \in Ring \ {Base} : a + size[a] # insertp
<1>1. /\ insertp \in Blocks /\ insertp \in Nat /\ insertp \notin Ring
      /\ size[insertp] \in Nat /\ size[insertp] > 0
      /\ freep # NULL /\ pos \in Ring /\ next[pos] \in Ring
  BY LinkPlace
<1>2. \A a \in Ring : a \in Nat /\ a # insertp
  BY <1>1, Addresses
<1>3. \A a \in Ring \ {Base} : a \in Blocks /\ size[a] \in Nat /\ size[a] > 0
  BY DEF IInv, Shape, Blocks
<1>4. \A a \in Blocks : \A u \in Nat : a <= u /\ u < a + size[a] => u # Base
  BY DEF IInv, Shape, Laid
<1>5. \A a, b \in Blocks : a # b => a + size[a] <= b \/ b + size[b] <= a
  BY DEF IInv, Laid
<1>6. ASSUME ~JoinsBlock, NEW b \in Ring \ {Base}, insertp + size[insertp] = b
      PROVE  FALSE
  <2>1. next[pos] > insertp /\ b >= next[pos]
    BY <1>1, <1>2, <1>6, NothingBetween
  <2>2. insertp <= next[pos] /\ next[pos] < insertp + size[insertp]
    BY <1>1, <1>2, <1>6, <2>1 DEF JoinsBlock, JoinsNext
  <2>3. next[pos] # Base
    BY <1>1, <1>2, <1>4, <2>2
  <2>4. QED
    BY <1>1, <1>2, <1>3, <1>5, <2>1, <2>2, <2>3
<1>7. ASSUME ~JoinsPrev, NEW a \in Ring \ {Base}, a + size[a] = insertp
      PROVE  FALSE
  <2>1. pos < insertp /\ a <= pos
    BY <1>1, <1>2, <1>3, <1>7, NothingBefore
  <2>2. a < pos /\ pos < a + size[a]
    BY <1>1, <1>2, <1>7, <2>1 DEF JoinsPrev
  <2>3. pos # Base
    BY <1>1, <1>2, <1>3, <1>4, <2>2
  <2>4. QED
    BY <1>1, <1>2, <1>3, <1>5, <2>1, <2>2, <2>3
<1>8. QED
  BY <1>6, <1>7

(* A block ends where a free block, or the one linked in, ended before.    *)
LEMMA LinkCoalesces ==
  ASSUME IInv, Link, Base \in Ring'
  PROVE  Coalesced'
<1> DEFINE i == insertp
           p == pos
           n == next[p]
<1>1. pc = "seek" /\ Found
  BY DEF Link
<1>2. /\ i \in Nat /\ i \notin Ring /\ size[i] \in Nat /\ size[i] > 0
      /\ p \in Ring /\ n \in Ring /\ p # i /\ n # i /\ i \in Blocks
      /\ JoinsBlock => n # Base /\ n # p
      /\ JoinsPrev => p # Base
  BY <1>1, LinkPlace
<1>3. \A a \in Ring : a \in DOMAIN size /\ a \in Nat /\ size[a] \in Nat
  BY Addresses DEF IInv, Shape
<1>4. /\ Ring' = (Ring \cup {i}) \ Absorbed
      /\ \A a \in Ring' \ {i, p} : a \in Ring /\ size'[a] = size[a]
  BY <1>2, <1>3, LinkHeaders
<1>5. JoinsPrev => i \in Absorbed
  BY LinkJoins
<1>6. ASSUME NEW a \in Ring' \ {Base}
      PROVE  \/ \E x \in Ring \ {Base} : a + size'[a] = x + size[x]
             \/ ~JoinsBlock /\ a + size'[a] = i + size[i]
  <2>1. CASE a \notin {i, p}
    BY <1>4, <2>1
  <2>2. CASE a = i
    <3>1. ~JoinsPrev
      BY <1>4, <1>5, <2>2
    <3>2. size'[i] = size[i] + IF JoinsBlock THEN size[n] ELSE 0
      BY <3>1, LinkHeaders
    <3>3. CASE JoinsBlock
      <4>1. i + size'[i] = n + size[n]
        BY <1>2, <1>3, <3>2, <3>3 DEF JoinsBlock, JoinsNext
      <4>2. QED
        BY <1>2, <2>2, <3>3, <4>1
    <3>4. CASE ~JoinsBlock
      BY <1>2, <2>2, <3>2, <3>4
    <3>5. QED
      BY <3>3, <3>4
  <2>3. CASE a = p /\ ~JoinsPrev
    BY <1>2, <2>3, LinkHeaders
  <2>4. CASE a = p /\ JoinsPrev
    <3>1. size'[p] = size[p] + (size[i] + IF JoinsBlock THEN size[n] ELSE 0)
      BY <2>4, LinkHeaders
    <3>2. p + size[p] = i
      BY <2>4 DEF JoinsPrev
    <3>3. CASE JoinsBlock
      <4>1. p + size'[p] = n + size[n]
        BY <1>2, <1>3, <3>1, <3>2, <3>3 DEF JoinsBlock, JoinsNext
      <4>2. QED
        BY <1>2, <2>4, <3>3, <4>1
    <3>4. CASE ~JoinsBlock
      BY <1>2, <1>3, <2>4, <3>1, <3>2, <3>4
    <3>5. QED
      BY <3>3, <3>4
  <2>5. QED
    BY <2>1, <2>2, <2>3, <2>4
<1>7. \A b \in Ring' \ {Base} : b \in Ring \/ (b = i /\ ~JoinsPrev)
  BY <1>4, <1>5
<1>8. SUFFICES ASSUME NEW a \in Ring' \ {Base}, NEW b \in Ring' \ {Base}
               PROVE  a + size'[a] # b
  BY DEF Coalesced
<1>9. CASE \E x \in Ring \ {Base} : a + size'[a] = x + size[x]
  BY <1>1, <1>7, <1>9, LinkTouches DEF IInv, Coalesced
<1>10. CASE ~JoinsBlock /\ a + size'[a] = i + size[i]
  BY <1>1, <1>2, <1>7, <1>10, LinkTouches
<1>11. QED
  BY <1>6, <1>9, <1>10

LEMMA LinkIInv ==
  ASSUME IInv, Link, Base \in Ring'
  PROVE  IInv'
<1>1. /\ freep' = pos /\ pc' = resume /\ insertp' = NULL /\ pos' = NULL /\ resume' = "idle"
      /\ IF resume = "scan" THEN prevp' = pos /\ currp' = next'[pos]
         ELSE UNCHANGED <<prevp, currp>>
      /\ UNCHANGED <<request, live, heap, grown>> /\ pc = "seek"
  BY DEF Link
<1>2. Good(next', size') /\ heap' = heap
  BY LinkIsGood, <1>1
<1>3. /\ insertp \in Blocks /\ insertp \notin Ring /\ insertp # Base /\ insertp # NULL
      /\ pos \in Ring /\ next[pos] \in Ring /\ pos # insertp /\ next[pos] # insertp
      /\ Base \in Ring
  BY LinkPlace DEF Link
<1>4. /\ Ring' = (Ring \cup {insertp}) \ Absorbed
      /\ DOMAIN size' = DOMAIN size \ Absorbed
      /\ \A a \in DOMAIN size' \ {insertp, pos} : size'[a] = size[a]
  BY LinkHeaders
<1>5. /\ Absorbed \subseteq {next[pos], insertp} /\ pos \notin Absorbed
      /\ Base \notin Absorbed
  BY <1>3, <1>4 DEF Absorbed
<1>6. pos \in Ring' /\ pos # NULL
  BY <1>3, <1>4, <1>5, Addresses DEF NULL
<1>7. \A a \in Ring' : next'[a] \in Ring'
  BY <1>2 DEF Good, Ringed, Ring
<1>8. Shape'
  <2>1. \A a \in Blocks' : a \in Nat /\ size'[a] \in Nat /\ size'[a] > 0
    BY <1>2 DEF Good, Blocked, Blocks
  <2>2. Ring' \subseteq DOMAIN size' /\ Base \in Ring' /\ size'[Base] = 0
    BY <1>2 DEF Good, Ringed, Ring
  <2>3. heap' \subseteq Nat /\ Base \notin heap'
    BY <1>2 DEF IInv, Shape
  <2>4. QED
    BY <1>1, <1>6, <1>7, <2>1, <2>2, <2>3 DEF Shape
<1>9. Laid'
  BY <1>2 DEF Good, Blocked, Laid, Blocks
<1>10. Owned'
  <2>1. \A b \in live : b.at \notin Ring /\ b.at # insertp /\ b.at \in Blocks
    BY DEF IInv, Owned
  <2>2. \A b \in live : b.at \in DOMAIN size' /\ size'[b.at] = size[b.at]
    BY <1>3, <1>4, <1>5, <2>1 DEF Blocks
  <2>3. \A b \in live' :
          /\ b.at \notin Ring' /\ b.at # insertp'
          /\ b.bytes \in Requests /\ Enough(size'[b.at], b.bytes)
    <3>1. \A b \in live : b.at # NULL
      BY <2>1, Addresses DEF Blocks
    <3>2. QED
      BY <1>1, <1>4, <2>1, <2>2, <3>1 DEF IInv, Owned
  <2>4. Blocks' = (Ring' \ {Base}) \cup {b.at : b \in live'} \cup ({insertp'} \ {NULL})
    <3>1. Blocks = (Ring \ {Base}) \cup {b.at : b \in live} \cup {insertp}
      BY <1>3 DEF IInv, Owned
    <3>2. Blocks' = Blocks \ Absorbed /\ {b.at : b \in live} \cap Absorbed = {}
      BY <1>3, <1>4, <1>5, <2>1 DEF Blocks
    <3>3. QED
      BY <1>1, <1>3, <1>4, <3>1, <3>2
  <2>5. insertp' \notin Ring'
    BY <1>1, <1>2, FreeListAssumption DEF Good, Ringed, Blocked, Ring, NULL
  <2>6. QED
    BY <1>1, <2>3, <2>4, <2>5 DEF IInv, Owned
<1>11. Control'
  BY <1>1, <1>6, <1>7 DEF IInv, Control
<1>12. RingSorted'
  BY <1>2 DEF Good, Sorted, RingSorted, Ring
<1>13. QED
  BY <1>8, <1>9, <1>10, <1>11, <1>12, LinkCoalesces DEF IInv
-----------------------------------------------------------------------------
LEMMA CallIInv ==
  ASSUME IInv, Call
  PROVE  IInv'
<1>1. CASE \E n \in Requests : Malloc(n)
  BY <1>1, MallocIInv
<1>2. CASE \E b \in live : Free(b)
  BY <1>2, FreeIInv
<1>3. QED
  BY <1>1, <1>2 DEF Call

LEMMA IterateIInv ==
  ASSUME IInv, Iterate, Link => Base \in Ring'
  PROVE  IInv'
  BY TakeIInv, SplitIInv, AdvanceIInv, SeekIInv, LinkIInv DEF Iterate

LEMMA IInvTypeOK ==
  ASSUME IInv
  PROVE  TypeOK
<1>1. freep = NULL => Ring = {} /\ pc = "idle"
  BY DEF IInv, Shape
<1>2. /\ Ring \subseteq DOMAIN size
      /\ \A a \in Ring : next[a] \in Ring
      /\ \A a \in DOMAIN size : size[a] \in Nat
      /\ freep \in Ring \cup {NULL}
  BY Addresses DEF IInv, Shape
<1>3. /\ pc \in {"idle", "scan", "seek"} /\ resume \in {"idle", "scan"} /\ grown \in BOOLEAN
      /\ request \in Requests \cup {NULL}
  BY DEF IInv, Control
<1>4. prevp \in Ring \cup {NULL} /\ currp \in Ring \cup {NULL} /\ pos \in Ring \cup {NULL}
  BY <1>2 DEF IInv, Control
<1>5. insertp \in Blocks \cup {NULL}
  BY DEF IInv, Owned
<1>6. \A b \in live : b.at \in Blocks /\ b.bytes \in Requests
  BY DEF IInv, Owned
<1>7. QED
  BY <1>2, <1>3, <1>4, <1>5, <1>6 DEF TypeOK

LEMMA IInvTiled ==
  ASSUME IInv
  PROVE  Tiled
<1>1. \A a \in Blocks : a \in Nat /\ size[a] \in Nat /\ size[a] > 0
  BY DEF IInv, Shape
<1>2. \A u \in heap : u \in Nat
  BY DEF IInv, Shape
<1>3. \A a \in Blocks : size[a] > 0 /\ Extent(a) \subseteq heap
  BY <1>1 DEF IInv, Laid, Extent
<1>4. \A u \in heap : \E a \in Blocks : u \in Extent(a)
  BY <1>1, <1>2 DEF IInv, Laid, Extent
<1>5. \A a, b \in Blocks : a # b => Extent(a) \cap Extent(b) = {}
  BY <1>1 DEF IInv, Laid, Extent
<1>6. QED
  BY <1>3, <1>4, <1>5, IInvTypeOK DEF IInv, Owned, Tiled, Enough
-----------------------------------------------------------------------------
(* The mapping to Heap: what users hold, with the units of each block.     *)
Used == {<<b.at, size[b.at]>> : b \in live}

LEMMA UsedStays ==
  ASSUME live' = live, \A b \in live : size'[b.at] = size[b.at]
  PROVE  Used' = Used
  BY DEF Used

(* A block that joins those held, taken out of free memory.                *)
LEMMA GivesAlloc ==
  ASSUME IInv, IInv', UNCHANGED heap, NEW r, live' = live \cup {r},
         \A b \in live : b.at # r.at /\ size'[b.at] = size[b.at]
  PROVE  Allocator!Alloc
<1> DEFINE new == <<r.at, size'[r.at]>>
<1>1. \A b \in live' : b.at \in Blocks'
  BY DEF IInv, Owned
<1>2. \A a \in Blocks' : a \in Nat /\ size'[a] \in Nat /\ size'[a] > 0
  BY DEF IInv, Shape
<1>3. r \in live' /\ r.at \in Blocks'
  BY <1>1
<1>4. Used' = Used \cup {new}
  <2>1. Used' = {<<b.at, size'[b.at]>> : b \in live} \cup {new}
    BY DEF Used
  <2>2. Used = {<<b.at, size'[b.at]>> : b \in live}
    BY DEF Used
  <2>3. QED
    BY <2>1, <2>2
<1>5. new \notin Used
  BY DEF Used
<1>6. Allocator!Units(new) = r.at..(r.at + size'[r.at] - 1)
  BY DEF Allocator!Units
<1>7. Allocator!Units(new) # {}
  <2>1. r.at \in r.at..(r.at + size'[r.at] - 1)
    BY <1>2, <1>3
  <2>2. QED
    BY <1>6, <2>1
<1>8. Allocator!Units(new) \subseteq heap
  BY <1>2, <1>3, <1>6 DEF IInv, Laid
<1>9. \A c \in Used : Allocator!Units(new) \cap Allocator!Units(c) = {}
  <2> SUFFICES ASSUME NEW b \in live
               PROVE  Allocator!Units(new) \cap Allocator!Units(<<b.at, size[b.at]>>) = {}
    BY DEF Used
  <2>1. b.at \in Blocks' /\ b.at # r.at
    BY <1>1
  <2>2. Allocator!Units(<<b.at, size[b.at]>>) = b.at..(b.at + size'[b.at] - 1)
    BY DEF Allocator!Units
  <2>3. b.at + size'[b.at] <= r.at \/ r.at + size'[r.at] <= b.at
    BY <1>3, <2>1 DEF IInv, Laid
  <2> DEFINE i == r.at
             j == b.at
  <2>4. i \in Nat /\ j \in Nat /\ size'[i] \in Nat /\ size'[j] \in Nat
    BY <1>2, <1>3, <2>1
  <2> HIDE DEF i, j
  <2>5. (i..(i + size'[i] - 1)) \cap (j..(j + size'[j] - 1)) = {}
    BY <2>3, <2>4 DEF i, j
  <2>6. QED
    BY <1>6, <2>2, <2>5 DEF i, j
<1> HIDE DEF new
<1>10. QED
  BY <1>4, <1>5, <1>7, <1>8, <1>9 DEF Allocator!Alloc, Used

LEMMA CallImplements ==
  ASSUME IInv, Call
  PROVE  Allocator!Release \/ (UNCHANGED heap /\ Used' = Used)
<1>1. ASSUME NEW n \in Requests, Malloc(n)
      PROVE  UNCHANGED heap /\ Used' = Used
  <2>1. freep = NULL => live = {}
    BY DEF IInv, Shape, Owned, Blocks
  <2>2. QED
    BY <1>1, <2>1, UsedStays DEF Malloc
<1>2. ASSUME NEW b \in live, Free(b)
      PROVE  Allocator!Release
  <2>1. live' = live \ {b} /\ UNCHANGED <<heap, size>>
    BY <1>2 DEF Free
  <2>2. \A c \in live : c.at = b.at => c = b
    BY DEF IInv, Owned
  <2>3. Used' = Used \ {<<b.at, size[b.at]>>} /\ <<b.at, size[b.at]>> \in Used
    BY <2>1, <2>2 DEF Used
  <2>4. QED
    BY <2>1, <2>3 DEF Allocator!Release, Used
<1>3. QED
  BY <1>1, <1>2 DEF Call

LEMMA IterateImplements ==
  ASSUME IInv, Iterate, Link => Base \in Ring'
  PROVE  Allocator!Alloc \/ (UNCHANGED heap /\ Used' = Used)
<1>0. IInv'
  BY IterateIInv
<1>1. CASE Take
  <2> DEFINE r == [at |-> currp, bytes |-> request]
  <2>1. live' = live \cup {r} /\ UNCHANGED <<heap, size>> /\ r.at = currp
    BY <1>1 DEF Take, Give, Return
  <2>2. currp \in Ring
    BY <1>1 DEF Take, IInv, Shape, Control
  <2>3. \A b \in live : b.at # r.at
    BY <2>1, <2>2 DEF IInv, Owned
  <2> HIDE DEF r
  <2>4. QED
    BY <1>0, <2>1, <2>3, GivesAlloc
<1>2. CASE Split
  <2> DEFINE at == currp + (size[currp] - nunits)
             r == [at |-> at, bytes |-> request]
  <2>1. /\ live' = live \cup {r} /\ UNCHANGED heap /\ r.at = at
        /\ size' = NewSizes(at)
    BY <1>2 DEF Split, Give, Return
  <2>2. /\ currp \in Ring /\ request \in Requests /\ size[currp] > nunits
    BY <1>2 DEF Split, IInv, Shape, Control
  <2>3. nunits \in Nat /\ nunits > 0
    BY <2>2, UnitsEnough DEF nunits
  <2>4. currp \in Nat /\ size[currp] \in Nat /\ currp # Base /\ currp \in Blocks
    BY <2>2, <2>3, Addresses DEF IInv, Shape, Blocks
  <2>5. \A b \in live : b.at # currp /\ b.at \in Blocks
    BY <2>2 DEF IInv, Owned
  <2>6. at \notin Blocks
    BY <2>2, <2>3, <2>4 DEF IInv, Shape, Laid
  <2> HIDE DEF at
  <2>7. \A b \in live : b.at # r.at /\ size'[b.at] = size[b.at]
    BY <2>1, <2>5, <2>6 DEF NewSizes, Blocks
  <2> HIDE DEF r
  <2>8. QED
    BY <1>0, <2>1, <2>7, GivesAlloc
<1>3. CASE Advance \/ Seek
  BY <1>3, UsedStays DEF Advance, Seek
<1>4. CASE Link
  <2>1. insertp \in Blocks /\ pos \in Ring /\ next[pos] \in Ring
    BY <1>4, LinkPlace DEF Link
  <2>2. \A b \in live : b.at \in Blocks /\ b.at \notin Ring /\ b.at # insertp
    BY DEF IInv, Owned
  <2>3. \A b \in live : size'[b.at] = size[b.at]
    <3>1. /\ DOMAIN size' = DOMAIN size \ Absorbed
          /\ \A a \in DOMAIN size' \ {insertp, pos} : size'[a] = size[a]
      BY <1>4, LinkHeaders
    <3>2. Absorbed \subseteq Ring \cup {insertp}
      BY <2>1 DEF Absorbed
    <3>3. QED
      BY <2>1, <2>2, <3>1, <3>2 DEF Blocks
  <2>4. QED
    BY <1>4, <2>3, UsedStays DEF Link
<1>5. QED
  BY <1>1, <1>2, <1>3, <1>4 DEF Iterate

LEMMA AddChunkImplements ==
  ASSUME IInv, NEW c, NEW n, NewMemory(c, n), AddChunk(c, n)
  PROVE  heap \subseteq heap' /\ Used' = Used
<1>1. \A b \in live : b.at \in Blocks
  BY DEF IInv, Owned
<1>2. c \in Nat /\ n \in Nat /\ n > 0 /\ c \notin heap
  BY DEF NewMemory
<1>3. c \notin Blocks
  BY <1>2 DEF IInv, Shape, Laid
<1>4. \A b \in live : size'[b.at] = size[b.at]
  BY <1>1, <1>3 DEF AddChunk, Blocks
<1>5. QED
  BY <1>4, UsedStays DEF AddChunk
-----------------------------------------------------------------------------
(* What a search knows: the blocks it has passed since freep are too small *)
(* and, once morecore has been called, its chunk is in freep or in currp.  *)
Passed(a) == IF freep < currp THEN freep < a /\ a < currp
                              ELSE freep < a \/ a < currp

Searched ==
  /\ pc = "scan" => \A a \in Ring : Passed(a) => size[a] < nunits
  /\ pc = "scan" /\ grown => size[freep] >= nunits \/ size[currp] >= nunits
  /\ pc = "seek" /\ resume = "scan" => size[insertp] >= nunits

LEMMA SearchedGrowsInNeed ==
  ASSUME IInv, Searched
  PROVE  GrowsInNeed
<1> SUFFICES ASSUME Exhausted
             PROVE  ~grown /\ \A a \in Ring : size[a] < nunits
  BY DEF GrowsInNeed
<1>1. /\ pc = "scan" /\ size[currp] < nunits /\ currp = freep
      /\ request \in Requests /\ currp \in Ring
  BY DEF Exhausted, IInv, Shape, Control
<1>2. nunits \in Nat /\ size[currp] \in Nat /\ \A a \in Ring : a \in Nat
  BY <1>1, UnitsEnough, Addresses DEF nunits, IInv, Shape
<1>3. ~grown
  BY <1>1, <1>2 DEF Searched
<1>4. \A a \in Ring : a # freep => Passed(a)
  BY <1>1, <1>2 DEF Passed
<1>5. QED
  BY <1>1, <1>3, <1>4 DEF Searched

LEMMA CallSearched ==
  ASSUME IInv, IInv', Searched, Call
  PROVE  Searched'
<1>1. ASSUME NEW n \in Requests, Malloc(n)
      PROVE  Searched'
  <2>1. pc' = "scan" /\ ~grown' /\ prevp' = freep' /\ currp' = next'[freep']
    BY <1>1 DEF Malloc
  <2>2. freep' \in Ring' /\ next'[freep'] \in Ring' /\ \A a \in Ring' : a \in Nat
    BY <2>1, FreeListAssumption DEF IInv, Shape, Blocks
  <2>3. \A a \in Ring' : ~Passed(a)'
    BY <2>1, <2>2 DEF IInv, RingSorted, Passed
  <2>4. QED
    BY <2>1, <2>3 DEF Searched
<1>2. ASSUME NEW b \in live, Free(b)
      PROVE  Searched'
  BY <1>2 DEF Free, Searched
<1>3. QED
  BY <1>1, <1>2 DEF Call

LEMMA AdvanceSearched ==
  ASSUME IInv, Searched, Advance
  PROVE  Searched'
<1> DEFINE c == currp
           n == next[c]
<1>1. /\ pc = "scan" /\ size[c] < nunits /\ c # freep /\ currp' = n
      /\ UNCHANGED <<next, size, freep, pc, request, insertp, resume, grown>>
  BY DEF Advance, Exhausted
<1>2. /\ c \in Ring /\ n \in Ring /\ freep \in Ring /\ request \in Requests
  BY <1>1 DEF IInv, Shape, Control
<1>3. \A a \in Ring : a \in Nat
  BY Addresses
<1>4. \/ n > c /\ \A b \in Ring : ~(c < b /\ b < n)
      \/ \A b \in Ring : n <= b /\ b <= c
  BY <1>2 DEF IInv, RingSorted
<1>5. \A a \in Ring : Passed(a)' => a = c \/ Passed(a)
  BY <1>1, <1>2, <1>3, <1>4 DEF Passed
<1>6. nunits' = nunits /\ Ring' = Ring
  BY <1>1 DEF nunits, Ring
<1>7. nunits \in Nat /\ size[c] \in Nat
  BY <1>2, UnitsEnough, Addresses DEF nunits, IInv, Shape
<1>8. grown => size[freep] >= nunits
  BY <1>1, <1>7 DEF Searched
<1>9. QED
  BY <1>1, <1>5, <1>6, <1>8 DEF Searched

LEMMA LinkSearched ==
  ASSUME IInv, IInv', Searched, Link, Base \in Ring'
  PROVE  Searched'
<1>1. /\ pc = "seek" /\ pc' = resume /\ freep' = pos /\ resume' = "idle"
      /\ UNCHANGED request /\ resume \in {"idle", "scan"}
  BY DEF Link, IInv, Control
<1>2. CASE resume = "idle"
  BY <1>1, <1>2 DEF Searched
<1>3. CASE resume = "scan"
  <2>1. currp' = next'[pos] /\ pos \in Ring' /\ next'[pos] \in Ring' /\ request \in Requests
    BY <1>1, <1>3 DEF Link, IInv, Shape, Control
  <2>2. \A a \in Ring' : a \in Nat
    BY FreeListAssumption DEF IInv, Shape, Blocks
  <2>3. \A a \in Ring' : ~Passed(a)'
    BY <1>1, <2>1, <2>2 DEF IInv, RingSorted, Passed
  <2>4. nunits' = nunits /\ nunits \in Nat /\ size[insertp] >= nunits
    BY <1>1, <1>3, <2>1, UnitsEnough DEF nunits, Searched
  <2>5. /\ pos \in Ring /\ size[insertp] \in Nat
        /\ JoinsBlock => size[next[pos]] \in Nat
    BY <1>1, LinkPlace, Addresses DEF Link, IInv, Shape
  <2>6. size[pos] \in Nat
    BY <2>5, Addresses DEF IInv, Shape
  <2>7. CASE JoinsPrev
    <3>1. size'[pos] = size[pos] + (size[insertp] + IF JoinsBlock THEN size[next[pos]] ELSE 0)
      BY <2>7, LinkHeaders
    <3>2. size'[freep'] >= nunits'
      BY <1>1, <2>4, <2>5, <2>6, <3>1
    <3>3. QED
      BY <1>1, <1>3, <2>3, <3>2 DEF Searched
  <2>8. CASE ~JoinsPrev
    <3>1. /\ next'[pos] = insertp
          /\ size'[insertp] = size[insertp] + IF JoinsBlock THEN size[next[pos]] ELSE 0
      BY <2>8, LinkHeaders
    <3>2. size'[currp'] >= nunits'
      BY <2>1, <2>4, <2>5, <3>1
    <3>3. QED
      BY <1>1, <1>3, <2>3, <3>2 DEF Searched
  <2>9. QED
    BY <2>7, <2>8
<1>4. QED
  BY <1>1, <1>2, <1>3

LEMMA IterateSearched ==
  ASSUME IInv, Searched, Iterate, Link => Base \in Ring'
  PROVE  Searched'
<1>1. IInv'
  BY IterateIInv
<1>2. CASE Take \/ Split
  BY <1>2 DEF Take, Split, Give, Return, Searched
<1>3. CASE Seek
  BY <1>3 DEF Seek, Searched, nunits
<1>4. QED
  BY <1>1, <1>2, <1>3, AdvanceSearched, LinkSearched DEF Iterate

LEMMA AddChunkSearched ==
  ASSUME NEW c, NEW n, AddChunk(c, n), n >= nunits
  PROVE  Searched'
  BY DEF AddChunk, Searched, nunits

-----------------------------------------------------------------------------
(* KrMalloc.                                                               *)

(* The heap lies between its start, which is beyond base, and the break.   *)
HeapBelowBrk ==
  /\ brk \in Nat /\ FirstBrk <= brk
  /\ \A u \in heap : u \in Nat /\ FirstBrk <= u /\ u < brk

KInv == IInv /\ HeapBelowBrk

LEMMA InitKInv == KrInit => KInv
  BY InitIInv, KrMallocAssumption DEF KrInit, Init, KInv, HeapBelowBrk

LEMMA ChunkIsNew ==
  ASSUME KInv, Exhausted, NEW g \in Gaps
  PROVE  NewMemory(brk + g, Chunk)
<1>1. nunits \in Nat /\ nunits > 0
  BY UnitsEnough DEF KInv, IInv, Control, Exhausted, nunits
<1>2. Chunk \in Nat /\ Chunk > 0
  BY <1>1, FreeListAssumption DEF Chunk
<1>3. /\ g \in Nat /\ FirstBrk \in Nat /\ Base \in Nat /\ Base + 1 < FirstBrk
  BY KrMallocAssumption, FreeListAssumption
<1>4. QED
  BY <1>2, <1>3 DEF KInv, HeapBelowBrk, NewMemory

LEMMA MorecoreKInv ==
  ASSUME KInv, morecore
  PROVE  KInv'
<1>1. CASE NoMemory /\ UNCHANGED brk
  BY <1>1, NoMemoryIInv DEF KInv, HeapBelowBrk, NoMemory, Return
<1>2. ASSUME NEW g \in Gaps, AddChunk(brk + g, Chunk), brk' = brk + g + Chunk
      PROVE  KInv'
  <2>1. NewMemory(brk + g, Chunk) /\ g \in Nat
    BY <1>2, ChunkIsNew, KrMallocAssumption DEF AddChunk
  <2>2. IInv'
    BY <1>2, <2>1, AddChunkIInv DEF KInv
  <2>3. heap' = heap \cup (brk + g)..(brk + g + Chunk - 1)
    BY <1>2 DEF AddChunk
  <2>4. Chunk \in Nat
    BY <2>1 DEF NewMemory
  <2> HIDE DEF Chunk
  <2>5. HeapBelowBrk'
    BY <1>2, <2>1, <2>3, <2>4, KrMallocAssumption DEF KInv, HeapBelowBrk
  <2>6. QED
    BY <2>2, <2>5 DEF KInv
<1>3. QED
  BY <1>1, <1>2 DEF morecore

(* What the heap ends with is not base: kr_free never joins base to it.    *)
LEMMA BaseStays ==
  ASSUME KInv, Link
  PROVE  Base \in Ring'
<1>1. /\ insertp \in Blocks /\ insertp \in Nat /\ insertp # Base
      /\ size[insertp] \in Nat /\ size[insertp] > 0 /\ Base \in Ring
  BY LinkPlace DEF KInv, Link
<1>2. insertp + size[insertp] - 1 \in heap
  BY <1>1 DEF KInv, IInv, Laid
<1>3. Base + 1 < FirstBrk /\ Base \in Nat /\ FirstBrk \in Nat
  BY KrMallocAssumption, FreeListAssumption
<1>4. insertp + size[insertp] # Base
  BY <1>1, <1>2, <1>3 DEF KInv, HeapBelowBrk
<1>5. Base \notin Absorbed
  BY <1>1, <1>4 DEF Absorbed, JoinsNext
<1>6. Ring' = (Ring \cup {insertp}) \ Absorbed
  BY DEF Link, Ring
<1>7. QED
  BY <1>1, <1>5, <1>6

LEMMA HeapKept == Call \/ Iterate => UNCHANGED heap
  BY DEF Call, Iterate, Malloc, Free, Take, Split, Advance, Seek, Link, Give, Return

LEMMA NextKInv == KInv /\ [Next]_allvars => KInv'
<1> SUFFICES ASSUME KInv, [Next]_allvars  PROVE KInv'
  OBVIOUS
<1>1. CASE Call /\ UNCHANGED brk
  BY <1>1, CallIInv, HeapKept DEF KInv, HeapBelowBrk
<1>2. CASE Iterate /\ UNCHANGED brk
  BY <1>2, IterateIInv, BaseStays, HeapKept DEF KInv, HeapBelowBrk
<1>3. CASE morecore
  BY <1>3, MorecoreKInv
<1>4. CASE UNCHANGED allvars
  BY <1>4, StutterIInv DEF KInv, HeapBelowBrk, allvars, vars
<1>5. QED
  BY <1>1, <1>2, <1>3, <1>4 DEF Next

LEMMA AlwaysKInv == Spec => []KInv
  BY InitKInv, NextKInv, PTL DEF Spec

(* Nothing overlaps and nothing leaks, whatever is asked for and given     *)
(* back and wherever sbrk finds memory.                                    *)
THEOREM HeapTiled == Spec => []Tiled
<1>1. KInv => Tiled
  BY IInvTiled DEF KInv
<1>2. QED
  BY <1>1, AlwaysKInv, PTL

(* The ring stays in address order, closed, and without neighbours that    *)
(* touch.                                                                  *)
THEOREM RingStaysSorted == Spec => []RingSorted
<1>1. KInv => RingSorted
  BY DEF KInv, IInv
<1>2. QED
  BY <1>1, AlwaysKInv, PTL

THEOREM RingStaysCoalesced == Spec => []Coalesced
<1>1. KInv => Coalesced
  BY DEF KInv, IInv
<1>2. QED
  BY <1>1, AlwaysKInv, PTL
-----------------------------------------------------------------------------
LEMMA HeapInit == KrInit => Allocator!Init
  BY DEF KrInit, Init, Allocator!Init

LEMMA HeapStep ==
  KInv /\ [Next]_allvars =>
    [Allocator!Grow \/ Allocator!Alloc \/ Allocator!Release]_<<heap, Used>>
<1> SUFFICES ASSUME KInv, [Next]_allvars
             PROVE  \/ Allocator!Grow \/ Allocator!Alloc \/ Allocator!Release
                    \/ UNCHANGED <<heap, Used>>
  OBVIOUS
<1>1. CASE Call \/ Iterate
  BY <1>1, CallImplements, IterateImplements, BaseStays DEF KInv
<1>2. CASE morecore
  <2>1. CASE NoMemory
    BY <2>1, UsedStays DEF NoMemory, Return
  <2>2. ASSUME NEW g \in Gaps, AddChunk(brk + g, Chunk)
        PROVE  Allocator!Grow
    <3>1. heap \subseteq heap' /\ Used' = Used
      BY <2>2, ChunkIsNew, AddChunkImplements DEF AddChunk, KInv
    <3>2. QED
      BY <3>1 DEF Allocator!Grow, Used
  <2>3. QED
    BY <1>2, <2>1, <2>2 DEF morecore
<1>3. CASE UNCHANGED allvars
  BY <1>3, UsedStays DEF allvars, vars
<1>4. QED
  BY <1>1, <1>2, <1>3 DEF Next

(* What users see is an allocator: kr_malloc gives away memory of the heap *)
(* that nobody holds, and a block neither moves nor changes size until     *)
(* kr_free, through every split and join around it.                        *)
THEOREM ImplementsHeap == Spec => HeapSpec
<1>1. KInv /\ [Next]_allvars =>
        [Allocator!Grow \/ Allocator!Alloc \/ Allocator!Release]_<<
          heap, {<<b.at, size[b.at]>> : b \in live}>>
  BY HeapStep DEF Used
<1>2. QED
  BY <1>1, HeapInit, AlwaysKInv, PTL DEF Spec, HeapSpec, Allocator!Spec
-----------------------------------------------------------------------------
LEMMA NextSearched == KInv /\ Searched /\ [Next]_allvars => Searched'
<1> SUFFICES ASSUME KInv, Searched, [Next]_allvars  PROVE Searched'
  OBVIOUS
<1>1. IInv'
  BY NextKInv DEF KInv
<1>2. CASE Call \/ Iterate
  BY <1>1, <1>2, CallSearched, IterateSearched, BaseStays DEF KInv
<1>3. CASE morecore
  <2>1. CASE NoMemory
    BY <2>1 DEF NoMemory, Return, Searched
  <2>2. ASSUME NEW g \in Gaps, AddChunk(brk + g, Chunk)
        PROVE  Searched'
    <3>1. nunits \in Nat
      BY <2>2, UnitsEnough DEF AddChunk, Exhausted, KInv, IInv, Control, nunits
    <3>2. Chunk >= nunits
      BY <3>1, FreeListAssumption DEF Chunk
    <3>3. QED
      BY <2>2, <3>2, AddChunkSearched
  <2>3. QED
    BY <1>3, <2>1, <2>2 DEF morecore
<1>4. CASE UNCHANGED allvars
  BY <1>4 DEF allvars, vars, locals, Searched, Passed, Ring, nunits
<1>5. QED
  BY <1>2, <1>3, <1>4 DEF Next

(* sbrk is called only when no free block is large enough, whatever the    *)
(* order in which the search meets them, and at most once in a call.       *)
THEOREM MorecoreInNeed == Spec => []GrowsInNeed
<1>1. KrInit => Searched
  BY DEF KrInit, Init, Searched
<1>2. KInv /\ Searched => GrowsInNeed
  BY SearchedGrowsInNeed DEF KInv
<1>3. QED
  BY <1>1, <1>2, AlwaysKInv, NextSearched, PTL DEF Spec

-----------------------------------------------------------------------------
(* UMalloc: as good an allocator as KrMalloc while mem lasts and base is   *)
(* in the ring, wherever the linker has put the two.  Base leaves only in  *)
(* a call of my_free by a user: during morecore's own call it is alone in  *)
(* the ring.                                                               *)
UInv ==
  /\ chunks \in Nat /\ mem \in Mems
  /\ Sound => /\ IInv
              /\ chunks = 0 => heap = {}
              /\ resume = "scan" => Ring = {Base}
  /\ MemLasts /\ ~BaseRemains => pc = "idle" /\ Base = mem + NALLOC

LEMMA InitUInv == UInit => UInv
  BY InitIInv DEF UInit, Init, UInv, BaseRemains

LEMMA StepsAre ==
  UNext => /\ \/ Call /\ UNCHANGED chunks
              \/ Iterate /\ UNCHANGED chunks
              \/ umorecore /\ chunks' = chunks + 1
           /\ UNCHANGED mem
  BY DEF UNext, my_malloc, my_free, Call, Iterate

(* Memory is not taken back, and without base there is no next call.       *)
LEMMA UnsoundForEver ==
  ASSUME UInv, UNext, MemLasts'
  PROVE  Sound
<1>1. heap \subseteq heap' /\ mem' = mem
  BY StepsAre, HeapKept DEF umorecore, AddChunk
<1>2. chunks' = chunks \/ chunks' = chunks + 1
  BY StepsAre
<1>3. MemLasts
  BY <1>1, <1>2 DEF MemLasts, UInv
<1>4. BaseRemains
  BY <1>3 DEF UInv, UNext, Sound
<1>5. QED
  BY <1>3, <1>4 DEF Sound

LEMMA FirstChunkIsNew ==
  ASSUME UInv, IInv, Exhausted, heap = {},
         mem..(mem + Chunk - 1) \subseteq mem..(mem + NALLOC - 1)
  PROVE  NewMemory(mem, Chunk)
<1>1. nunits \in Nat /\ nunits > 0
  BY UnitsEnough DEF IInv, Control, Exhausted, nunits
<1>2. Chunk \in Nat /\ Chunk > 0
  BY <1>1, FreeListAssumption DEF Chunk
<1>3. mem \in Nat /\ NALLOC \in Nat /\ Base \in Nat /\ (Base < mem \/ Base >= mem + NALLOC)
  BY UMallocAssumption, FreeListAssumption DEF UInv
<1> HIDE DEF Chunk
<1>4. ASSUME NEW u \in mem..(mem + Chunk - 1)
      PROVE  u # Base
  <2>1. u \in mem..(mem + NALLOC - 1)
    OBVIOUS
  <2>2. QED
    BY <1>3, <2>1
<1>5. QED
  BY <1>2, <1>3, <1>4 DEF NewMemory

(* morecore's call of my_free links the first block behind base.           *)
LEMMA BaseLinksFirst ==
  ASSUME IInv, Link, Ring = {Base}
  PROVE  Base \in Ring'
<1>1. pos = Base /\ insertp # Base
  BY LinkPlace DEF Link
<1>2. Base \notin Absorbed
  BY <1>1 DEF Absorbed
<1>3. QED
  BY <1>2 DEF Link, Ring

(* A block that base is joined to ends where base begins, and mem there.   *)
LEMMA BaseLeaves ==
  ASSUME IInv, Link, Base \notin Ring', mem \in Mems, heap \subseteq mem..(mem + NALLOC - 1)
  PROVE  Base = mem + NALLOC
<1>1. /\ insertp \in Blocks /\ insertp \in Nat /\ insertp # Base
      /\ size[insertp] \in Nat /\ size[insertp] > 0 /\ Base \in Ring
  BY LinkPlace DEF Link
<1>2. Base \in Absorbed
  BY <1>1 DEF Link, Ring
<1>3. insertp + size[insertp] = Base
  BY <1>1, <1>2 DEF Absorbed, JoinsNext
<1>4. insertp + size[insertp] - 1 \in heap
  BY <1>1 DEF IInv, Laid
<1>5. mem \in Nat /\ NALLOC \in Nat /\ Base \in Nat /\ (Base < mem \/ Base >= mem + NALLOC)
  BY UMallocAssumption, FreeListAssumption
<1>6. insertp + size[insertp] - 1 \in mem..(mem + NALLOC - 1)
  BY <1>4
<1>7. QED
  BY <1>1, <1>3, <1>5, <1>6

LEMMA ScanKept ==
  ASSUME IInv, Call \/ Iterate, resume' = "scan"
  PROVE  resume = "scan" /\ Ring' = Ring
<1>1. ASSUME NEW n \in Requests, Malloc(n)
      PROVE  FALSE
  BY <1>1 DEF Malloc, IInv, Control
<1>2. QED
  BY <1>1 DEF Call, Iterate, Free, Take, Split, Advance, Seek, Link, Give, Return, Ring,
    IInv, Control

LEMMA StepUInv ==
  ASSUME UInv, UNext, MemLasts'
  PROVE  /\ chunks' = 0 => heap' = {}
         /\ BaseRemains' => IInv' /\ (resume' = "scan" => Ring' = {Base})
         /\ ~BaseRemains' => pc' = "idle" /\ Base = mem + NALLOC
<1>1. /\ IInv /\ (chunks = 0 => heap = {}) /\ (resume = "scan" => Ring = {Base})
      /\ chunks \in Nat /\ mem' = mem /\ mem \in Mems
  BY UnsoundForEver, StepsAre DEF UInv
<1>2. IInv' => BaseRemains'
  BY DEF IInv, Shape, BaseRemains
<1>3. CASE Call /\ UNCHANGED chunks
  <2>1. IInv' /\ UNCHANGED heap
    BY <1>1, <1>3, CallIInv, HeapKept
  <2>2. resume' = "scan" => Ring' = {Base}
    BY <1>1, <1>3, ScanKept
  <2>3. QED
    BY <1>1, <1>2, <1>3, <2>1, <2>2
<1>4. CASE Iterate /\ UNCHANGED chunks
  <2>1. UNCHANGED heap
    BY <1>4, HeapKept
  <2>2. resume' = "scan" => Ring' = {Base}
    BY <1>1, <1>4, ScanKept
  <2>3. CASE Link => Base \in Ring'
    <3>1. IInv'
      BY <1>1, <1>4, <2>3, IterateIInv
    <3>2. QED
      BY <1>1, <1>2, <1>4, <2>1, <2>2, <3>1
  <2>4. CASE Link /\ Base \notin Ring'
    <3>1. freep' # NULL /\ pc' = resume
      BY <1>1, <2>4, LinkPlace, Addresses DEF Link, NULL
    <3>2. resume # "scan"
      BY <1>1, <2>4, BaseLinksFirst
    <3>3. resume = "idle"
      BY <1>1, <3>2 DEF IInv, Control
    <3>4. heap \subseteq mem..(mem + NALLOC - 1)
      BY <1>1, <2>1 DEF MemLasts
    <3>5. Base = mem + NALLOC
      BY <1>1, <2>4, <3>4, BaseLeaves
    <3>6. QED
      BY <1>1, <1>4, <2>1, <2>4, <3>1, <3>3, <3>5 DEF BaseRemains
  <2>5. QED
    BY <2>3, <2>4
<1>5. CASE umorecore /\ chunks' = chunks + 1
  <2>1. chunks = 0 /\ heap = {} /\ AddChunk(mem, Chunk)
    BY <1>1, <1>5 DEF MemLasts, umorecore
  <2>2. heap' = mem..(mem + Chunk - 1) /\ Exhausted /\ Ring' = Ring
    BY <2>1 DEF AddChunk, Ring
  <2>3. mem..(mem + Chunk - 1) \subseteq mem..(mem + NALLOC - 1)
    BY <1>1, <2>2 DEF MemLasts
  <2>4. NewMemory(mem, Chunk)
    BY <1>1, <2>1, <2>2, <2>3, FirstChunkIsNew
  <2>5. IInv'
    BY <1>1, <2>1, <2>4, AddChunkIInv
  <2>6. Ring = {Base}
    <3>1. Base \in Ring
      BY <1>1, <2>2 DEF Exhausted, IInv, Shape
    <3>2. Blocks = {}
      BY <1>1, <2>1 DEF IInv, Shape, Laid
    <3>3. QED
      BY <1>1, <3>1, <3>2 DEF IInv, Owned
  <2>7. QED
    BY <1>1, <1>2, <1>5, <2>1, <2>2, <2>5, <2>6
<1>6. QED
  BY <1>3, <1>4, <1>5, StepsAre

LEMMA NextUInv == UInv /\ [UNext]_uvars => UInv'
<1> SUFFICES ASSUME UInv, [UNext]_uvars  PROVE UInv'
  OBVIOUS
<1>1. chunks' \in Nat /\ mem' \in Mems
  BY StepsAre DEF UInv, uvars
<1>2. CASE UNext /\ MemLasts'
  BY <1>1, <1>2, StepUInv, StepsAre DEF UInv, Sound
<1>3. CASE UNext /\ ~MemLasts'
  BY <1>1, <1>3 DEF UInv, Sound
<1>4. CASE UNCHANGED uvars
  BY <1>4, StutterIInv DEF UInv, Sound, MemLasts, BaseRemains, Ring, uvars, vars, locals
<1>5. QED
  BY <1>2, <1>3, <1>4

(* As long as mem lasts and base is in the ring the allocator does what it *)
(* should, for every sequence of requests and releases and wherever the    *)
(* linker has put mem and base: base right behind mem included.            *)
THEOREM SoundWhileMemLasts == USpec => []SoundlyTiled
<1>1. UInv => SoundlyTiled
  BY IInvTiled DEF UInv, IInv, SoundlyTiled
<1>2. QED
  BY <1>1, NextUInv, InitUInv, PTL DEF USpec

(* Base leaves the ring, while mem lasts, only where the linker has put it *)
(* right behind mem.                                                       *)
THEOREM BaseStaysInRing == USpec => []BaseStaysApart
<1>1. UInv => BaseStaysApart
  BY DEF UInv, BaseStaysApart
<1>2. QED
  BY <1>1, NextUInv, InitUInv, PTL DEF USpec
=============================================================================
