-------------------------- MODULE ProcList_proofs ---------------------------
(***************************************************************************)
(* Proofs about ProcList, for every number of processes and every set of   *)
(* names and priorities: the two directions of the list agree, the list is *)
(* in order of priority and, within a priority, of age, the walk from      *)
(* kernel_proc meets every process in it and ends, and the list is the     *)
(* queue of PriorityQueue.                                                 *)
(***************************************************************************)
EXTENDS ProcList, FiniteSetTheorems, SequenceTheorems, TLAPS

(* The kernel process is in the list and has the lowest priority; killed   *)
(* processes have been created.                                            *)
KernelListed ==
  /\ kernel_proc \in Listed
  /\ priority[kernel_proc] = 0
  /\ \A p \in gone : p < pid

(* enqueue_proc: the process to enqueue is the youngest and goes behind    *)
(* before, whose successor is cur.                                         *)
Enqueueing ==
  pc = "enqueue" =>
    /\ target = pid - 1 /\ target # kernel_proc /\ target \notin gone
    /\ priority[target] > 0
    /\ before \in Listed \cup {NULL}
    /\ before = NULL => cur = kernel_proc
    /\ before # NULL => cur = next[before] /\ priority[before] <= priority[target]

Killing == pc = "kill" => cur \in Listed

IInv ==
  TypeOK /\ LinksAgree /\ Ordered /\ KernelListed /\ Enqueueing /\ Killing

LEMMA Sizes == START_PID \in Nat \ {0} /\ MaxProcs \in Nat \ {0}
  BY ProcListAssumption

LEMMA InitIInv == ASSUME Init PROVE IInv
<1> USE Sizes DEF Init, NULL, kernel_proc
<1>1. Listed = {kernel_proc}
  BY DEF Listed, Proc
<1>2. TypeOK
  BY ProcListAssumption DEF TypeOK, Proc
<1>3. LinksAgree /\ Ordered
  BY <1>1 DEF LinksAgree, Ordered, Proc
<1>4. KernelListed /\ Enqueueing /\ Killing
  BY <1>1 DEF KernelListed, Enqueueing, Killing, Proc
<1>5. QED
  BY <1>2, <1>3, <1>4 DEF IInv

LEMMA ForkKeepsIInv ==
  ASSUME IInv, NEW n \in Names, NEW q \in Priorities, NEW o \in Names,
         Fork(n, q, o)
  PROVE  IInv'
<1> USE Sizes DEF IInv, Proc, NULL, kernel_proc
<1>1. pid \in Proc /\ q \in Nat
  BY ProcListAssumption DEF Fork, Accepted, TypeOK
<1>2. Listed' = Listed /\ pid \notin Listed
  BY <1>1 DEF Fork, Accepted, Listed, TypeOK, links, KernelListed
<1>3. TypeOK'
  BY <1>1, ProcListAssumption DEF Fork, Accepted, TypeOK, links
<1>4. LinksAgree'
  BY <1>2 DEF Fork, Accepted, LinksAgree, links
<1>5. Ordered'
  <2>1. \A p \in Listed : p \in Proc /\ priority'[p] = priority[p]
    BY <1>1, <1>2 DEF Fork, Accepted, Listed, TypeOK
  <2>2. \A p \in Listed : next[p] # NULL => next[p] \in Listed
    BY DEF LinksAgree
  <2>3. UNCHANGED next
    BY DEF Fork, links
  <2>4. QED
    BY <1>2, <2>1, <2>2, <2>3 DEF Ordered
<1>6. KernelListed'
  BY <1>1, <1>2 DEF Fork, Accepted, KernelListed, TypeOK, links
<1>7. Enqueueing' /\ Killing'
  BY <1>1, <1>2, <1>6 DEF Fork, Accepted, Enqueueing, Killing, TypeOK, links, KernelListed,
     Listed
<1>8. QED
  BY <1>3, <1>4, <1>5, <1>6, <1>7

LEMMA PassKeepsIInv == ASSUME IInv, Pass PROVE IInv'
<1> USE Sizes DEF IInv, Pass, procs, links
<1>1. Listed' = Listed
  BY DEF Listed
<1>2. cur \in Listed
  BY DEF Enqueueing, KernelListed, LinksAgree, TypeOK
<1>3. priority[cur] <= priority[target]
  <2>1. cur \in Proc /\ target \in Proc
    BY <1>2 DEF Enqueueing, TypeOK, Listed, Proc
  <2>2. QED  BY <2>1 DEF Belongs, TypeOK
<1>4. TypeOK'
  BY <1>2 DEF TypeOK, NULL
<1>5. Enqueueing'
  BY <1>1, <1>2, <1>3 DEF Enqueueing, LinksAgree, TypeOK
<1>6. LinksAgree' /\ Ordered'
  BY <1>1 DEF LinksAgree, Ordered
<1>7. KernelListed' /\ Killing'
  BY <1>1 DEF KernelListed, Killing
<1>8. QED
  BY <1>4, <1>5, <1>6, <1>7

(* The newcomer gets a place behind before, and its neighbours agree.      *)
LEMMA InsertKeepsIInv == ASSUME IInv, Insert PROVE IInv'
<1> USE Sizes DEF IInv, Insert, Done, procs, NULL, kernel_proc
<1>1. /\ target \in Proc /\ target \notin Listed /\ target = pid - 1
      /\ Listed' = Listed \cup {target}
  BY DEF Listed, Enqueueing, TypeOK
<1>2. before \in Listed
  BY DEF Belongs, Enqueueing, KernelListed, TypeOK
<1>3. cur = next[before] /\ priority[before] <= priority[target]
  BY <1>2 DEF Enqueueing, Listed, Proc
<1>4. cur # NULL => cur \in Listed /\ prev[cur] = before
  BY <1>2, <1>3 DEF LinksAgree
<1>5. /\ before \in Proc /\ before < target /\ cur \in Proc \cup {NULL}
      /\ Listed \subseteq Proc
  BY <1>1, <1>2 DEF Listed, TypeOK, Proc
<1>6. /\ next' = [p \in Proc |-> IF p = target THEN cur
                                 ELSE IF p = before THEN target ELSE next[p]]
      /\ prev' = [p \in Proc |-> IF p = target THEN before
                                 ELSE IF p = cur THEN target ELSE prev[p]]
  BY <1>1, <1>4, <1>5 DEF PrevAfterInsert, TypeOK
<1>7. TypeOK'
  BY <1>1, <1>5, <1>6 DEF TypeOK
<1>8. LinksAgree'
  <2>1. ASSUME NEW p \in Listed'
        PROVE  /\ next'[p] \in Listed' \cup {NULL}
               /\ prev'[p] \in Listed' \cup {NULL}
               /\ prev'[p] = NULL <=> p = kernel_proc
    BY <1>1, <1>2, <1>4, <1>5, <1>6 DEF LinksAgree, KernelListed, Proc
  <2>2. ASSUME NEW p \in Listed', next'[p] # NULL  PROVE prev'[next'[p]] = p
    BY <1>1, <1>2, <1>3, <1>4, <1>5, <1>6, <2>2 DEF LinksAgree, Proc
  <2>3. ASSUME NEW p \in Listed', prev'[p] # NULL  PROVE next'[prev'[p]] = p
    BY <1>1, <1>2, <1>3, <1>4, <1>5, <1>6, <2>3 DEF LinksAgree, Proc
  <2>4. QED  BY <2>1, <2>2, <2>3 DEF LinksAgree
<1>9. Ordered'
  <2> SUFFICES ASSUME NEW p \in Listed', next'[p] # NULL
               PROVE  \/ priority[p] < priority[next'[p]]
                      \/ priority[p] = priority[next'[p]] /\ p < next'[p]
    BY DEF Ordered
  <2>1. CASE p = target
    BY <1>1, <1>5, <1>6, <2>1 DEF Belongs
  <2>2. CASE p = before
    BY <1>1, <1>2, <1>3, <1>5, <1>6, <2>2 DEF TypeOK
  <2>3. CASE p \in Listed \ {before}
    BY <1>1, <1>5, <1>6, <2>3 DEF Ordered
  <2>4. QED  BY <1>1, <2>1, <2>2, <2>3
<1>10. KernelListed' /\ Enqueueing' /\ Killing'
  BY <1>1 DEF KernelListed, Enqueueing, Killing
<1>11. QED
  BY <1>7, <1>8, <1>9, <1>10

LEMMA KillKeepsIInv ==
  ASSUME IInv, NEW n \in Names, Kill(n)
  PROVE  IInv'
<1> USE Sizes DEF IInv, Kill, procs, links
<1>1. Listed' = Listed
  BY DEF Listed
<1>2. TypeOK'
  BY DEF TypeOK, Proc, kernel_proc
<1>3. QED
  BY <1>1, <1>2 DEF LinksAgree, Ordered, KernelListed, Enqueueing, Killing

LEMMA KillPassKeepsIInv == ASSUME IInv, GiveUp \/ KillPass PROVE IInv'
<1> USE Sizes DEF IInv, procs, links
<1>1. CASE GiveUp
  <2>1. Listed' = Listed  BY <1>1 DEF GiveUp, Done, Listed
  <2>2. TypeOK'  BY <1>1 DEF GiveUp, Done, TypeOK
  <2>3. QED
    BY <1>1, <2>1, <2>2 DEF GiveUp, Done, LinksAgree, Ordered, KernelListed,
       Enqueueing, Killing
<1>2. CASE KillPass
  <2>1. Listed' = Listed  BY <1>2 DEF KillPass, Listed
  <2>2. next[cur] \in Listed  BY <1>2 DEF KillPass, Killing, LinksAgree
  <2>3. TypeOK'  BY <1>2, <2>2 DEF KillPass, TypeOK, Killing, Listed
  <2>4. QED
    BY <1>2, <2>1, <2>2, <2>3 DEF KillPass, LinksAgree, Ordered, KernelListed,
       Enqueueing, Killing
<1>3. QED  BY <1>1, <1>2

(* The neighbours of the killed process become neighbours.                 *)
LEMMA UnlinkKeepsIInv == ASSUME IInv, Unlink PROVE IInv'
<1> USE Sizes DEF IInv, Unlink, procs, NULL, kernel_proc
<1>1. CASE prev[cur] = NULL
  <2>1. UNCHANGED <<links, loop>> /\ Listed' = Listed
    BY <1>1, Zenon DEF Listed, links, loop
  <2>2. TypeOK'
    BY <1>1, <2>1 DEF TypeOK, links, loop
  <2>3. QED
    BY <2>1, <2>2 DEF LinksAgree, Ordered, KernelListed, Enqueueing, Killing,
       links, loop
<1>2. CASE prev[cur] # NULL
  <2> DEFINE a == prev[cur]
             c == next[cur]
  <2>1. /\ cur \in Listed /\ a \in Listed /\ c \in Listed
        /\ next[a] = cur /\ prev[c] = cur /\ cur # kernel_proc
        /\ Listed \subseteq Proc
    BY <1>2 DEF Killing, LinksAgree, Listed
  <2>2. Listed' = Listed \ {cur}
    BY <1>2, <2>1 DEF Done, Listed
  <2>3. /\ next' = [p \in Proc |-> IF p = a THEN c ELSE next[p]]
        /\ prev' = [p \in Proc |-> IF p = c THEN a ELSE prev[p]]
    BY <1>2, <2>1 DEF TypeOK, NextAfterUnlink
  <2>4. /\ a # cur /\ c # cur /\ c # kernel_proc
        /\ \A p \in Listed \ {a} : next[p] # cur
        /\ \A p \in Listed \ {c} : prev[p] # cur
    <3>1. a # cur /\ c # cur
      BY <2>1 DEF Ordered, TypeOK, Proc
    <3>2. c # kernel_proc
      BY <2>1 DEF LinksAgree, Proc
    <3>3. \A p \in Listed \ {a} : next[p] # cur
      BY <2>1 DEF LinksAgree, Proc
    <3>4. \A p \in Listed \ {c} : prev[p] # cur
      BY <2>1 DEF LinksAgree, Proc
    <3>5. QED  BY <3>1, <3>2, <3>3, <3>4
  <2>5. TypeOK'
    BY <1>2, <2>1, <2>3 DEF Done, TypeOK
  <2>6. LinksAgree'
    <3>1. ASSUME NEW p \in Listed'
          PROVE  /\ next'[p] \in Listed' \cup {NULL}
                 /\ prev'[p] \in Listed' \cup {NULL}
                 /\ prev'[p] = NULL <=> p = kernel_proc
      BY <2>1, <2>2, <2>3, <2>4 DEF LinksAgree, Proc
    <3>2. ASSUME NEW p \in Listed', next'[p] # NULL  PROVE prev'[next'[p]] = p
      BY <2>1, <2>2, <2>3, <2>4, <3>2 DEF LinksAgree, Proc
    <3>3. ASSUME NEW p \in Listed', prev'[p] # NULL  PROVE next'[prev'[p]] = p
      BY <2>1, <2>2, <2>3, <2>4, <3>3 DEF LinksAgree, Proc
    <3>4. QED  BY <3>1, <3>2, <3>3 DEF LinksAgree
  <2>7. Ordered'
    <3> SUFFICES ASSUME NEW p \in Listed', next'[p] # NULL
                 PROVE  \/ priority[p] < priority[next'[p]]
                        \/ priority[p] = priority[next'[p]] /\ p < next'[p]
      BY DEF Ordered
    <3>1. CASE p = a
      <4>1. /\ priority[a] \in Nat /\ priority[cur] \in Nat /\ priority[c] \in Nat
            /\ a \in Nat /\ cur \in Nat /\ c \in Nat
        BY <2>1 DEF TypeOK, Proc
      <4>2. /\ \/ priority[a] < priority[cur]
               \/ priority[a] = priority[cur] /\ a < cur
            /\ \/ priority[cur] < priority[c]
               \/ priority[cur] = priority[c] /\ cur < c
        BY <2>1 DEF Ordered, Proc
      <4>3. next'[p] = c
        BY <2>1, <2>3, <3>1
      <4>4. QED  BY <3>1, <4>1, <4>2, <4>3
    <3>2. CASE p # a
      BY <2>1, <2>2, <2>3, <3>2 DEF Ordered
    <3>3. QED  BY <3>1, <3>2
  <2>8. KernelListed' /\ Enqueueing' /\ Killing'
    BY <1>2, <2>1, <2>2 DEF KernelListed, Enqueueing, Killing, Done, Listed
  <2>9. QED  BY <2>5, <2>6, <2>7, <2>8
<1>3. QED  BY <1>1, <1>2

LEMMA IInvInvariant == Spec => []IInv
<1>1. IInv /\ [Next]_vars => IInv'
  <2> SUFFICES ASSUME IInv, [Next]_vars  PROVE IInv'
    OBVIOUS
  <2>1. CASE \E n \in Names, q \in Priorities, o \in Names : Fork(n, q, o)
    BY <2>1, ForkKeepsIInv
  <2>2. CASE \E n \in Names : Kill(n)
    BY <2>2, KillKeepsIInv
  <2>3. CASE Iterate
    BY <2>3, PassKeepsIInv, InsertKeepsIInv, KillPassKeepsIInv, UnlinkKeepsIInv
       DEF Iterate
  <2>4. CASE \E S \in SUBSET Proc : PrintParents(S)
    BY <2>4 DEF PrintParents, IInv, TypeOK, LinksAgree, Ordered, KernelListed,
       Enqueueing, Killing, Listed, procs, links, loop
  <2>5. CASE UNCHANGED vars
    BY <2>5 DEF vars, IInv, TypeOK, LinksAgree, Ordered, KernelListed,
       Enqueueing, Killing, Listed, procs, links, loop
  <2>6. Listed \subseteq Proc /\ \A n : {p \in Listed : get_pid(n, p)} \subseteq Proc
    BY DEF Listed
  <2>7. CASE printprocs \/ \E n \in Names : printppid(n)
    BY <2>4, <2>6, <2>7 DEF printprocs, printppid
  <2>8. QED  BY <2>1, <2>2, <2>3, <2>5, <2>7 DEF Next
<1>2. QED  BY InitIInv, <1>1, PTL DEF Spec

(* Type correctness of the process queue.                                  *)
THEOREM TypeCorrect == Spec => []TypeOK
  BY IInvInvariant, PTL DEF IInv

(* enqueue_proc and kill keep next and prev inverse to each other at every *)
(* process in the list, for any sequence of commands.                      *)
THEOREM ListIsDoublyLinked == Spec => []LinksAgree
  BY IInvInvariant, PTL DEF IInv

(* enqueue_proc puts each process where its priority belongs, behind the   *)
(* older ones of that priority, and kill never disturbs the order.         *)
THEOREM ListIsOrdered == Spec => []Ordered
  BY IInvInvariant, PTL DEF IInv
-----------------------------------------------------------------------------
(* Induction over the natural numbers, for sets: strict inclusion of       *)
(* finite sets is well founded, so a set of numbers has a least element.   *)
LEMMA LeastElement ==
  ASSUME NEW T \in SUBSET Nat, T # {}
  PROVE  \E x \in T : \A y \in T : x <= y
<1> DEFINE I == {0..n : n \in T}
<1>1. I \subseteq FiniteSubsetsOf(Nat) /\ I # {}
  <2>1. ASSUME NEW n \in T  PROVE 0..n \in FiniteSubsetsOf(Nat)
    BY FS_Interval DEF FiniteSubsetsOf
  <2>2. QED  BY <2>1
<1>2. PICK s \in I : \A t \in I : ~(<<t, s>> \in StrictSubsetOrdering(Nat))
  BY <1>1, FS_StrictSubsetOrderingWellFounded, WFMin, Zenon
<1>3. PICK x \in T : s = 0..x
  OBVIOUS
<1>4. ASSUME NEW y \in T, y < x  PROVE FALSE
  <2>1. <<0..y, 0..x>> \in StrictSubsetOrdering(Nat)
    BY <1>4 DEF StrictSubsetOrdering
  <2>2. QED  BY <2>1, <1>2, <1>3
<1>5. QED  BY <1>4

LEMMA NatInduct ==
  ASSUME NEW T, 0 \in T, \A n \in Nat : n \in T => n + 1 \in T
  PROVE  Nat \subseteq T
<1> SUFFICES ASSUME Nat \ T # {}  PROVE FALSE
  OBVIOUS
<1>1. PICK x \in Nat \ T : \A y \in Nat \ T : x <= y
  BY LeastElement
<1>2. x # 0 /\ x - 1 \in Nat /\ x - 1 \in T
  BY <1>1
<1>3. QED  BY <1>1, <1>2

(* What one step of the walk makes of the processes met so far.            *)
WalkStep(f, k) ==
  IF k = 0 THEN kernel_proc ELSE IF f[k - 1] = NULL THEN NULL ELSE next[f[k - 1]]

WalksTo(f, n) == \A k \in 0..n : f[k] = WalkStep(f, k)

LEMMA WalksExist == \A n \in Nat : \E f : WalksTo(f, n)
<1> DEFINE E == {n \in Nat : \E f : WalksTo(f, n)}
<1>1. 0 \in E
  <2>1. WalksTo([k \in Nat |-> kernel_proc], 0)
    BY DEF WalksTo, WalkStep
  <2>2. QED  BY <2>1
<1>2. ASSUME NEW n \in Nat, n \in E  PROVE n + 1 \in E
  <2>1. PICK f : WalksTo(f, n)
    BY <1>2
  <2> DEFINE g == [k \in Nat |-> IF k = n + 1 THEN WalkStep(f, n + 1) ELSE f[k]]
  <2>2. WalksTo(g, n + 1)
    BY <2>1 DEF WalksTo, WalkStep
  <2>3. \E h : WalksTo(h, n + 1)
    <3> HIDE DEF g
    <3> QED  BY <2>2
  <2>4. QED  BY <2>3
<1>3. Nat \subseteq E
  <2> HIDE DEF E
  <2> QED  BY <1>1, <1>2, NatInduct
<1>4. QED  BY <1>3

LEMMA WalksAgree ==
  ASSUME NEW f, NEW g, NEW m \in Nat, NEW n \in Nat, WalksTo(f, m), WalksTo(g, n),
         NEW k \in Nat, k <= m, k <= n
  PROVE  f[k] = g[k]
<1> DEFINE T == {j \in Nat : j <= m /\ j <= n => f[j] = g[j]}
<1>1. 0 \in T
  BY DEF WalksTo, WalkStep
<1>2. ASSUME NEW j \in Nat, j \in T  PROVE j + 1 \in T
  <2> SUFFICES ASSUME j + 1 <= m, j + 1 <= n  PROVE f[j + 1] = g[j + 1]
    OBVIOUS
  <2>1. f[j] = g[j] /\ (j + 1) - 1 = j /\ j + 1 # 0
    BY <1>2
  <2>2. f[j + 1] = WalkStep(f, j + 1) /\ g[j + 1] = WalkStep(g, j + 1)
    BY DEF WalksTo
  <2>3. QED  BY <2>1, <2>2 DEF WalkStep
<1>3. Nat \subseteq T
  <2> HIDE DEF T
  <2> QED  BY <1>1, <1>2, NatInduct
<1>4. QED  BY <1>3

(* walk is what its definition says, as the walks of every length agree.   *)
LEMMA WalkDef == walk = [k \in Nat |-> WalkStep(walk, k)]
<1> DEFINE some(n) == CHOOSE f : WalksTo(f, n)
           h == [n \in Nat |-> some(n)[n]]
           P(f) == f = [k \in Nat |-> WalkStep(f, k)]
<1>1. \A n \in Nat : WalksTo(some(n), n)
  BY WalksExist
<1>2. P(h)
  <2> SUFFICES ASSUME NEW k \in Nat  PROVE h[k] = WalkStep(h, k)
    OBVIOUS
  <2> DEFINE f == some(k)
             g == some(k - 1)
  <2>1. h[k] = f[k] /\ f[k] = WalkStep(f, k)
    BY <1>1 DEF WalksTo
  <2>2. CASE k = 0
    BY <2>1, <2>2 DEF WalkStep
  <2>3. CASE k # 0
    <3>1. k - 1 \in Nat /\ h[k - 1] = g[k - 1] /\ WalksTo(g, k - 1) /\ WalksTo(f, k)
      BY <1>1, <2>3
    <3> HIDE DEF f, g, h
    <3>2. f[k - 1] = g[k - 1]
      BY <3>1, WalksAgree
    <3>3. QED  BY <2>1, <3>1, <3>2 DEF WalkStep
  <2>4. QED  BY <2>2, <2>3
<1>3. P(CHOOSE f : P(f))
  <2> HIDE DEF P, h
  <2> QED  BY <1>2
<1>4. walk = CHOOSE f : P(f)
  BY DEF walk, WalkStep
<1>5. QED
  <2> HIDE DEF h, some
  <2>1. P(walk)
    <3> HIDE DEF P
    <3> QED  BY <1>3, <1>4
  <2>2. QED  BY <2>1

LEMMA WalkSteps ==
  /\ walk[0] = kernel_proc
  /\ \A k \in Nat : walk[k + 1] = IF walk[k] = NULL THEN NULL ELSE next[walk[k]]
<1>1. walk[0] = WalkStep(walk, 0)
  BY WalkDef
<1>2. ASSUME NEW k \in Nat  PROVE walk[k + 1] = WalkStep(walk, k + 1)
  BY WalkDef
<1>3. QED  BY <1>1, <1>2 DEF WalkStep

-----------------------------------------------------------------------------
(* The order of the list.                                                  *)
Leads(p, q) ==
  priority[p] < priority[q] \/ (priority[p] = priority[q] /\ p < q)

LEMMA ListedAre ==
  ASSUME IInv
  PROVE  /\ Listed \subseteq Proc /\ NULL \notin Listed
         /\ \A p \in Listed : p \in Nat /\ p < pid /\ priority[p] \in Nat
         /\ \A p \in Listed : next[p] # NULL => next[p] \in Listed /\ Leads(p, next[p])
<1>1. /\ Listed \subseteq Proc /\ NULL \notin Listed
      /\ \A p \in Listed : p \in Nat /\ p < pid /\ priority[p] \in Nat
  BY Sizes DEF IInv, TypeOK, Listed, Proc, NULL
<1>2. \A p \in Listed : next[p] # NULL => next[p] \in Listed /\ Leads(p, next[p])
  <2>1. LinksAgree /\ Ordered
    BY DEF IInv
  <2>2. ASSUME NEW p \in Listed, next[p] # NULL  PROVE next[p] \in Listed
    BY <2>1, <2>2 DEF LinksAgree
  <2>3. ASSUME NEW p \in Listed, next[p] # NULL  PROVE Leads(p, next[p])
    BY <2>1, <2>3 DEF Ordered, Leads
  <2>4. QED  BY <2>2, <2>3
<1>3. QED  BY <1>1, <1>2

LEMMA LeadsBound ==
  ASSUME IInv, NEW p \in Listed, NEW q \in Listed, p = q \/ Leads(p, q)
  PROVE  priority[p] \in Nat /\ priority[q] \in Nat /\ priority[p] <= priority[q]
<1>1. priority[p] \in Nat /\ priority[q] \in Nat
  BY ListedAre
<1>2. QED  BY <1>1 DEF Leads

LEMMA WalkListed ==
  ASSUME IInv
  PROVE  \A k \in Nat : walk[k] \in Listed \cup {NULL}
<1> DEFINE T == {k \in Nat : walk[k] \in Listed \cup {NULL}}
<1>1. 0 \in T
  BY WalkSteps DEF IInv, KernelListed
<1>2. ASSUME NEW k \in Nat, k \in T  PROVE k + 1 \in T
  BY <1>2, WalkSteps DEF IInv, LinksAgree
<1>3. Nat \subseteq T
  <2> HIDE DEF T
  <2> QED  BY <1>1, <1>2, NatInduct
<1>4. QED  BY <1>3

(* The walk never meets a process twice: it goes on in the order of the    *)
(* list.                                                                   *)
LEMMA WalkInOrder ==
  ASSUME IInv, NEW i \in Nat
  PROVE  \A j \in Nat : i < j /\ walk[j] # NULL =>
           walk[i] # NULL /\ Leads(walk[i], walk[j])
<1> DEFINE T == {j \in Nat : i < j /\ walk[j] # NULL =>
                               walk[i] # NULL /\ Leads(walk[i], walk[j])}
<1>1. 0 \in T
  OBVIOUS
<1>2. ASSUME NEW j \in Nat, j \in T  PROVE j + 1 \in T
  <2> SUFFICES ASSUME i < j + 1, walk[j + 1] # NULL
               PROVE  walk[i] # NULL /\ Leads(walk[i], walk[j + 1])
    OBVIOUS
  <2>1. walk[j] # NULL /\ walk[j + 1] = next[walk[j]]
    BY WalkSteps
  <2>2. walk[j] \in Listed /\ Leads(walk[j], walk[j + 1]) /\ walk[j + 1] \in Listed
    BY <2>1, WalkListed, ListedAre
  <2>3. CASE i = j
    BY <2>1, <2>2, <2>3
  <2>4. CASE i < j
    <3>1. walk[i] # NULL /\ Leads(walk[i], walk[j]) /\ walk[i] \in Listed
      BY <1>2, <2>1, <2>4, WalkListed
    <3>2. QED  BY <2>2, <3>1, ListedAre DEF Leads
  <2>5. QED  BY <2>3, <2>4
<1>3. Nat \subseteq T
  <2> HIDE DEF T
  <2> QED  BY <1>1, <1>2, NatInduct
<1>4. QED  BY <1>3

(* A process the walk misses would have a predecessor it misses.           *)
LEMMA WalkMeetsAll ==
  ASSUME IInv, NEW q \in Listed
  PROVE  \E k \in Nat : walk[k] = q
<1> DEFINE U == {p \in Listed : \A k \in Nat : walk[k] # p}
<1> SUFFICES ASSUME U # {}  PROVE FALSE
  OBVIOUS
<1>1. \A p \in U : p \in Listed /\ p \in Nat /\ priority[p] \in Nat
  BY ListedAre
<1> HIDE DEF U
<1>2. PICK a \in {priority[p] : p \in U} : \A b \in {priority[p] : p \in U} : a <= b
  BY <1>1, LeastElement
<1>3. PICK p \in {r \in U : priority[r] = a} : \A r \in {t \in U : priority[t] = a} : p <= r
  BY <1>1, <1>2, LeastElement
<1>4. p \in U /\ \A r \in U : ~Leads(r, p)
  BY <1>1, <1>2, <1>3 DEF Leads
<1>5. p \in Listed /\ p # kernel_proc
  BY <1>1, <1>4, WalkSteps DEF U
<1>6. prev[p] \in Listed /\ prev[p] # NULL /\ next[prev[p]] = p
  BY <1>5 DEF IInv, LinksAgree
<1>7. Leads(prev[p], p)
  BY <1>5, <1>6, ListedAre
<1>8. PICK k \in Nat : walk[k] = prev[p]
  BY <1>4, <1>6, <1>7 DEF U
<1>9. walk[k + 1] = p
  BY <1>6, <1>8, WalkSteps
<1>10. QED  BY <1>4, <1>9 DEF U

(* The walk is over before it could have met more processes than there are.*)
LEMMA WalkEnds ==
  ASSUME IInv, NEW n \in Nat, walk[n] # NULL
  PROVE  n < MaxProcs
<1> SUFFICES ASSUME n >= MaxProcs  PROVE FALSE
  BY Sizes
<1> DEFINE S == 0..n
           R == START_PID..(START_PID + MaxProcs - 1)
           f == [k \in S |-> walk[k]]
<1>1. \A k \in S : walk[k] # NULL /\ walk[k] \in Listed
  BY WalkInOrder, WalkListed
<1>2. f \in [S -> R]
  <2>1. \A p \in Listed : p \in R
    BY ListedAre, Sizes DEF Proc, IInv, TypeOK
  <2>2. QED  BY <1>1, <2>1
<1>3. /\ IsFiniteSet(S) /\ IsFiniteSet(R)
      /\ Cardinality(S) = n + 1 /\ Cardinality(R) = MaxProcs
  BY FS_Interval, Sizes
<1>4. PICK x, y \in S : x # y /\ f[x] = f[y]
  <2> HIDE DEF S, R, f
  <2>1. Cardinality(R) < Cardinality(S)
    BY <1>3, Sizes
  <2> QED  BY <1>2, <1>3, <2>1, FS_PigeonHole
<1>5. ASSUME NEW i \in S, NEW j \in S, i < j  PROVE walk[i] # walk[j]
  <2>1. Leads(walk[i], walk[j])
    BY <1>1, <1>5, WalkInOrder
  <2>2. QED  BY <1>1, <2>1, ListedAre DEF Leads
<1>6. QED  BY <1>4, <1>5

(* However processes come and go, every one that was not killed is found   *)
(* on the walk from kernel_proc that enqueue_proc, find_proc and kill make,*)
(* and the walk ends.                                                      *)
THEOREM EveryProcessReached == Spec => []AllReached
<1>1. ASSUME IInv, NEW p \in Listed  PROVE \E k \in 0..MaxProcs : walk[k] = p
  <2>1. PICK k \in Nat : walk[k] = p
    BY <1>1, WalkMeetsAll
  <2>2. p # NULL
    BY <1>1, ListedAre
  <2>3. k < MaxProcs
    BY <1>1, <2>1, <2>2, WalkEnds
  <2>4. QED  BY <2>1, <2>3, Sizes
<1>2. IInv => AllReached
  BY <1>1 DEF AllReached
<1>3. QED  BY <1>2, IInvInvariant, PTL

-----------------------------------------------------------------------------
(* As long as the links stay, so does the walk.                            *)
LEMMA SameWalk == UNCHANGED next => walk' = walk
  BY DEF walk

LEMMA WalkStepsNext ==
  /\ walk'[0] = kernel_proc
  /\ \A k \in Nat : walk'[k + 1] = IF walk'[k] = NULL THEN NULL ELSE next'[walk'[k]]
<1> DEFINE Law == /\ walk[0] = kernel_proc
                  /\ \A k \in Nat :
                       walk[k + 1] = IF walk[k] = NULL THEN NULL ELSE next[walk[k]]
<1>1. Law
  BY WalkSteps
<1>2. Law'
  <2> HIDE DEF Law
  <2> QED  BY <1>1, PTL
<1>3. QED  BY <1>2

(* n processes are in the list.                                            *)
Extent(w, n) == n \in 1..MaxProcs /\ \A k \in Nat : w[k] # NULL <=> k < n

LEMMA SomeExtent == ASSUME IInv PROVE \E n : Extent(walk, n)
<1> DEFINE T == {k \in Nat : walk[k] = NULL}
<1>1. MaxProcs \in T
  BY WalkEnds, Sizes
<1>2. PICK n \in T : \A k \in T : n <= k
  BY <1>1, LeastElement
<1>3. n # 0
  BY WalkSteps, Sizes DEF kernel_proc, NULL
<1>4. ASSUME NEW k \in Nat, walk[k] # NULL  PROVE k < n
  BY <1>2, <1>4, WalkInOrder
<1>5. Extent(walk, n)
  BY <1>1, <1>2, <1>3, <1>4 DEF Extent
<1>6. QED  BY <1>5

EntriesOf(w, pr, n) == [k \in 1..n |-> [pid |-> w[k - 1], priority |-> pr[w[k - 1]]]]

LEMMA EntriesAre ==
  ASSUME NEW w, NEW pr, NEW n, Extent(w, n)
  PROVE  [k \in {j + 1 : j \in {i \in 0..MaxProcs : w[i] # NULL}} |->
            [pid |-> w[k - 1], priority |-> pr[w[k - 1]]]] = EntriesOf(w, pr, n)
<1>1. {j + 1 : j \in {i \in 0..MaxProcs : w[i] # NULL}} = 1..n
  <2>1. {i \in 0..MaxProcs : w[i] # NULL} = 0..(n - 1)
    BY Sizes DEF Extent
  <2>2. {j + 1 : j \in 0..(n - 1)} = 1..n
    <3>1. ASSUME NEW k \in 1..n  PROVE k \in {j + 1 : j \in 0..(n - 1)}
      <4>1. k - 1 \in 0..(n - 1) /\ k = (k - 1) + 1
        BY Sizes DEF Extent
      <4>2. QED  BY <4>1
    <3>2. QED  BY <3>1, Sizes DEF Extent
  <2>3. QED  BY <2>1, <2>2
<1>2. QED  BY <1>1 DEF EntriesOf

LEMMA EntriesNow == ASSUME NEW n, Extent(walk, n) PROVE Entries = EntriesOf(walk, priority, n)
  BY EntriesAre DEF Entries, Entry

LEMMA EntriesThen ==
  ASSUME NEW n, Extent(walk', n)
  PROVE  Entries' = EntriesOf(walk', priority', n)
  BY EntriesAre DEF Entries, Entry

LEMMA QueueInit == Init => Queue!Init
<1> SUFFICES ASSUME Init  PROVE Queue!Init
  OBVIOUS
<1>1. IInv
  BY InitIInv
<1>2. walk[0] = kernel_proc /\ walk[1] = NULL
  <2>1. walk[0] = kernel_proc /\ walk[0 + 1] = next[kernel_proc]
    BY WalkSteps, Sizes DEF kernel_proc, NULL
  <2>2. QED  BY <2>1, Sizes DEF Init, Proc, kernel_proc
<1>3. PICK n : Extent(walk, n)
  BY <1>1, SomeExtent
<1>4. n = 1
  BY <1>2, <1>3, Sizes DEF Extent
<1>5. Entries = EntriesOf(walk, priority, 1)
  BY <1>3, <1>4, EntriesNow
<1>6. priority[kernel_proc] = 0
  BY Sizes DEF Init, Proc, kernel_proc
<1>7. Entries = <<[pid |-> kernel_proc, priority |-> 0]>>
  BY <1>2, <1>5, <1>6 DEF EntriesOf
<1>8. QED  BY <1>7 DEF Queue!Init

(* A step that moves no link and no priority of the list changes nothing.  *)
LEMMA QueueStays ==
  ASSUME IInv, UNCHANGED next, \A p \in Listed : priority'[p] = priority[p]
  PROVE  UNCHANGED Entries
<1>1. PICK n : Extent(walk, n)
  BY SomeExtent
<1>2. walk' = walk
  BY SameWalk
<1>3. Entries = EntriesOf(walk, priority, n) /\ Entries' = EntriesOf(walk, priority', n)
  BY <1>1, <1>2, EntriesNow, EntriesThen
<1>4. ASSUME NEW k \in 1..n  PROVE priority'[walk[k - 1]] = priority[walk[k - 1]]
  BY <1>1, WalkListed DEF Extent
<1>5. QED  BY <1>3, <1>4 DEF EntriesOf

(* What putting in and taking out does to the k-th entry.                  *)
LEMMA InsertAtIs ==
  ASSUME NEW S, NEW q \in Seq(S), NEW e, NEW m \in 0..Len(q)
  PROVE  Queue!InsertAt(q, m + 1, e) =
           [k \in 1..(Len(q) + 1) |->
              IF k <= m THEN q[k] ELSE IF k = m + 1 THEN e ELSE q[k - 1]]
<1> DEFINE s == SubSeq(q, 1, m)
           t == SubSeq(q, m + 1, Len(q))
<1>1. s = [k \in 1..m |-> q[k]] /\ t = [k \in 1..(Len(q) - m) |-> q[m + k]]
  OBVIOUS
<1>2. s \in Seq(S) /\ t \in Seq(S) /\ Len(s) = m /\ Len(t) = Len(q) - m
  OBVIOUS
<1>3. Queue!InsertAt(q, m + 1, e) = (s \o <<e>>) \o t
  <2>1. (m + 1) - 1 = m
    OBVIOUS
  <2>2. Queue!InsertAt(q, m + 1, e) = SubSeq(q, 1, (m + 1) - 1) \o <<e>> \o t
    BY DEF Queue!InsertAt
  <2>3. QED  BY <2>1, <2>2
<1> HIDE DEF s, t
<1>4. /\ s \o <<e>> \in Seq(S \cup {e}) /\ Len(s \o <<e>>) = m + 1
      /\ s \o <<e>> = [k \in 1..(m + 1) |-> IF k <= m THEN s[k] ELSE e]
  BY <1>2
<1>5. (s \o <<e>>) \o t =
        [k \in 1..(Len(q) + 1) |->
           IF k <= m + 1 THEN (s \o <<e>>)[k] ELSE t[k - (m + 1)]]
  BY <1>2, <1>4
<1>6. ASSUME NEW k \in 1..(Len(q) + 1)
      PROVE  (IF k <= m + 1 THEN (s \o <<e>>)[k] ELSE t[k - (m + 1)]) =
             (IF k <= m THEN q[k] ELSE IF k = m + 1 THEN e ELSE q[k - 1])
  BY <1>1, <1>2, <1>4
<1>7. QED  BY <1>3, <1>5, <1>6

LEMMA Joined ==
  ASSUME NEW S, NEW s \in Seq(S), NEW t \in Seq(S)
  PROVE  s \o t = [k \in 1..(Len(s) + Len(t)) |->
                     IF k <= Len(s) THEN s[k] ELSE t[k - Len(s)]]
<1> DEFINE u == s \o t
<1>1. /\ u \in Seq(S) /\ Len(u) = Len(s) + Len(t)
      /\ \A k \in 1..(Len(s) + Len(t)) :
           u[k] = IF k <= Len(s) THEN s[k] ELSE t[k - Len(s)]
  BY ConcatProperties
<1> HIDE DEF u
<1>2. u = [k \in 1..Len(u) |-> u[k]]
  BY <1>1
<1>3. QED  BY <1>1, <1>2 DEF u

LEMMA RemoveAtIs ==
  ASSUME NEW S, NEW q \in Seq(S), NEW m \in 0..(Len(q) - 1)
  PROVE  Queue!RemoveAt(q, m + 1) =
           [k \in 1..(Len(q) - 1) |-> IF k <= m THEN q[k] ELSE q[k + 1]]
<1> DEFINE s == SubSeq(q, 1, m)
           t == SubSeq(q, m + 2, Len(q))
<1>1. /\ s = [k \in 1..m |-> q[k]]
      /\ t = [k \in 1..(Len(q) - (m + 1)) |-> q[m + 1 + k]]
  OBVIOUS
<1>2. s \in Seq(S) /\ t \in Seq(S) /\ Len(s) = m /\ Len(t) = Len(q) - (m + 1)
  OBVIOUS
<1>3. Queue!RemoveAt(q, m + 1) = s \o t
  <2>1. (m + 1) - 1 = m /\ (m + 1) + 1 = m + 2
    OBVIOUS
  <2>2. Queue!RemoveAt(q, m + 1) =
          SubSeq(q, 1, (m + 1) - 1) \o SubSeq(q, (m + 1) + 1, Len(q))
    BY DEF Queue!RemoveAt
  <2>3. QED  BY <2>1, <2>2
<1> HIDE DEF s, t
<1>4. s \o t = [k \in 1..(Len(q) - 1) |-> IF k <= m THEN s[k] ELSE t[k - m]]
  <2>1. s \o t = [k \in 1..(Len(s) + Len(t)) |->
                    IF k <= Len(s) THEN s[k] ELSE t[k - Len(s)]]
    BY <1>2, Joined
  <2>2. Len(s) + Len(t) = Len(q) - 1
    BY <1>2
  <2>3. QED  BY <1>2, <2>1, <2>2
<1>5. ASSUME NEW k \in 1..(Len(q) - 1)
      PROVE  (IF k <= m THEN s[k] ELSE t[k - m]) = (IF k <= m THEN q[k] ELSE q[k + 1])
  BY <1>1, <1>2
<1>6. QED  BY <1>3, <1>4, <1>5

(* The extent of the list after a step is that of the new walk.            *)
LEMMA SomeExtentNext == IInv' => \E n : Extent(walk', n)
<1>1. IInv => \E n : Extent(walk, n)
  BY SomeExtent
<1>2. (IInv => \E n : Extent(walk, n))'
  BY <1>1, PTL
<1>3. QED  BY <1>2 DEF Extent

LEMMA ExtentAfter ==
  ASSUME NEW m \in Nat, IInv', \A k \in Nat : walk'[k] # NULL <=> k < m
  PROVE  Extent(walk', m)
<1>1. PICK n : Extent(walk', n)
  BY SomeExtentNext
<1>2. n \in Nat /\ \A k \in Nat : k < n <=> k < m
  BY <1>1, Sizes DEF Extent
<1>3. n = m
  BY <1>2
<1>4. QED  BY <1>1, <1>3

(* The newcomer is met right behind before, the m-th process.              *)
LEMMA WalkAfterInsert ==
  ASSUME IInv, Insert, NEW i \in Nat, walk[i] = before, before # NULL
  PROVE  \A k \in Nat : walk'[k] = IF k <= i THEN walk[k]
                                   ELSE IF k = i + 1 THEN target ELSE walk[k - 1]
<1> DEFINE W(k) == IF k <= i THEN walk[k]
                   ELSE IF k = i + 1 THEN target ELSE walk[k - 1]
           T == {k \in Nat : walk'[k] = W(k)}
<1>1. /\ target \in Proc /\ target \notin Listed /\ before \in Listed
      /\ cur = next[before] /\ before # target /\ target # NULL
  BY Sizes DEF IInv, Insert, Enqueueing, TypeOK, Listed, Proc, NULL, kernel_proc
<1>2. /\ next'[target] = cur /\ next'[before] = target
      /\ \A p \in Listed : p # before => next'[p] = next[p]
  BY <1>1, ListedAre DEF Insert, IInv, TypeOK
<1>3. 0 \in T
  BY WalkSteps, WalkStepsNext
<1>4. ASSUME NEW k \in Nat, k \in T  PROVE k + 1 \in T
  <2>1. walk'[k + 1] = IF walk'[k] = NULL THEN NULL ELSE next'[walk'[k]]
    BY WalkStepsNext
  <2>2. CASE k < i
    <3>1. walk[k] # NULL /\ Leads(walk[k], before) /\ walk[k] \in Listed
      BY <1>1, <2>2, WalkInOrder, WalkListed
    <3>2. walk[k] # before
      BY <3>1, ListedAre DEF Leads
    <3>3. walk'[k + 1] = next[walk[k]]
      BY <1>2, <1>4, <2>1, <2>2, <3>1, <3>2
    <3>4. QED  BY <2>2, <3>1, <3>3, WalkSteps
  <2>3. CASE k = i
    <3>1. walk'[k + 1] = target
      BY <1>2, <1>4, <2>1, <2>3
    <3>2. QED  BY <2>3, <3>1
  <2>4. CASE k = i + 1
    <3>1. walk'[k + 1] = cur
      BY <1>1, <1>2, <1>4, <2>1, <2>4
    <3>2. walk[i + 1] = cur
      BY <1>1, WalkSteps
    <3>3. QED  BY <2>4, <3>1, <3>2
  <2>5. CASE k > i + 1
    <3>1. walk'[k] = walk[k - 1] /\ k - 1 \in Nat /\ (k - 1) + 1 = k
      BY <1>4, <2>5
    <3>2. walk[k] = IF walk[k - 1] = NULL THEN NULL ELSE next[walk[k - 1]]
      BY <3>1, WalkSteps
    <3>3. CASE walk[k - 1] = NULL
      BY <2>1, <2>5, <3>1, <3>2, <3>3
    <3>4. CASE walk[k - 1] # NULL
      <4>1. walk[k - 1] \in Listed /\ Leads(before, walk[k - 1])
        BY <2>5, <3>1, <3>4, WalkInOrder, WalkListed
      <4>2. walk[k - 1] # before
        BY <1>1, <4>1, ListedAre DEF Leads
      <4>3. QED  BY <1>2, <2>1, <2>5, <3>1, <3>2, <3>4, <4>1, <4>2
    <3>5. QED  BY <3>3, <3>4
  <2>6. QED  BY <2>2, <2>3, <2>4, <2>5
<1>5. Nat \subseteq T
  <2> HIDE DEF T
  <2> QED  BY <1>3, <1>4, NatInduct
<1>6. QED  BY <1>5

LEMMA EntriesAreASequence ==
  ASSUME IInv, NEW n, Extent(walk, n)
  PROVE  /\ Entries = EntriesOf(walk, priority, n)
         /\ Entries \in Seq([pid : Proc, priority : Nat]) /\ Len(Entries) = n
         /\ \A k \in 1..n : walk[k - 1] \in Listed
<1>1. \A k \in 1..n : walk[k - 1] \in Listed
  BY WalkListed DEF Extent
<1>2. Entries = EntriesOf(walk, priority, n)
  BY EntriesNow
<1>3. \A k \in 1..n : walk[k - 1] \in Proc /\ priority[walk[k - 1]] \in Nat
  BY <1>1, ListedAre
<1>4. n \in Nat
  BY Sizes DEF Extent
<1>5. EntriesOf(walk, priority, n) \in Seq([pid : Proc, priority : Nat])
  BY <1>3, <1>4 DEF EntriesOf
<1>6. Len(EntriesOf(walk, priority, n)) = n
  BY <1>4 DEF EntriesOf
<1>7. QED  BY <1>1, <1>2, <1>5, <1>6

LEMMA QueueInsert == ASSUME IInv, IInv', Insert PROVE Queue!Enter
<1> DEFINE e == [pid |-> target, priority |-> priority[target]]
<1>1. /\ before \in Listed /\ target \notin Listed /\ cur = next[before]
      /\ priority[before] <= priority[target] /\ target \in Proc
      /\ before # NULL
  BY Sizes DEF IInv, Insert, Belongs, Enqueueing, TypeOK, KernelListed, Listed, Proc,
     NULL, kernel_proc
<1>2. PICK i \in Nat : walk[i] = before
  BY <1>1, WalkMeetsAll
<1>3. PICK n : Extent(walk, n)
  BY SomeExtent
<1>4. n \in Nat /\ i < n /\ \A k \in Nat : walk[k] # NULL <=> k < n
  BY <1>1, <1>2, <1>3, Sizes DEF Extent
<1>5. \A k \in Nat : walk'[k] = IF k <= i THEN walk[k]
                                ELSE IF k = i + 1 THEN target ELSE walk[k - 1]
  BY <1>1, <1>2, WalkAfterInsert
<1>6. Extent(walk', n + 1)
  <2>1. \A k \in Nat : walk'[k] # NULL <=> k < n + 1
    BY <1>1, <1>4, <1>5, Sizes DEF Proc, NULL
  <2>2. QED  BY <1>4, <2>1, ExtentAfter
<1>7. UNCHANGED priority
  BY DEF Insert, procs
<1>8. Entries' = EntriesOf(walk', priority, n + 1)
  BY <1>6, <1>7, EntriesThen
<1>9. /\ Entries = EntriesOf(walk, priority, n)
      /\ Entries \in Seq([pid : Proc, priority : Nat]) /\ Len(Entries) = n
      /\ \A k \in 1..n : walk[k - 1] \in Listed
  BY <1>3, EntriesAreASequence
<1>10. \A k \in 1..n : Entries[k] = [pid |-> walk[k - 1], priority |-> priority[walk[k - 1]]]
  BY <1>9 DEF EntriesOf
<1>11. Queue!Ahead(e) = 1..(i + 1)
  <2>1. ASSUME NEW k \in 1..n, k <= i + 1
        PROVE  priority[walk[k - 1]] <= priority[target]
    <3>1. walk[k - 1] = before \/ Leads(walk[k - 1], before)
      BY <1>1, <1>2, <2>1, WalkInOrder
    <3>2. /\ priority[walk[k - 1]] \in Nat /\ priority[before] \in Nat
          /\ priority[walk[k - 1]] <= priority[before] /\ priority[target] \in Nat
      BY <1>1, <1>9, <3>1, LeadsBound DEF IInv, TypeOK
    <3>3. QED  BY <1>1, <3>2
  <2>2. ASSUME NEW k \in 1..n, k > i + 1
        PROVE  ~(priority[walk[k - 1]] <= priority[target])
    <3>1. cur = walk[i + 1] /\ cur # NULL
      BY <1>1, <1>2, <1>4, <2>2, WalkSteps
    <3>2. priority[target] < priority[cur] /\ cur \in Listed
      BY <3>1, WalkListed DEF Insert, Belongs
    <3>3. walk[k - 1] = cur \/ Leads(cur, walk[k - 1])
      <4>1. k - 1 \in Nat /\ (k - 1 = i + 1 \/ i + 1 < k - 1) /\ walk[k - 1] # NULL
        BY <1>4, <2>2
      <4>2. QED  BY <3>1, <4>1, WalkInOrder
    <3>4. /\ priority[walk[k - 1]] \in Nat /\ priority[cur] \in Nat
          /\ priority[cur] <= priority[walk[k - 1]] /\ priority[target] \in Nat
      BY <1>1, <1>9, <3>2, <3>3, LeadsBound DEF IInv, TypeOK
    <3>5. QED  BY <3>2, <3>4
  <2>3. Queue!Ahead(e) = {k \in 1..n : priority[walk[k - 1]] <= priority[target]}
    BY <1>9, <1>10 DEF Queue!Ahead
  <2>4. \A k \in 1..n : (priority[walk[k - 1]] <= priority[target]) <=> k <= i + 1
    BY <1>4, <2>1, <2>2
  <2>5. Queue!Ahead(e) = {k \in 1..n : k <= i + 1}
    BY <2>3, <2>4
  <2>6. {k \in 1..n : k <= i + 1} = 1..(i + 1)
    BY <1>4
  <2>7. QED  BY <2>5, <2>6
<1>12. Queue!Cardinality(Queue!Ahead(e)) + 1 = (i + 1) + 1
  <2>1. Cardinality(1..(i + 1)) = i + 1
    BY FS_Interval
  <2>2. Queue!Cardinality(1..(i + 1)) = Cardinality(1..(i + 1))
    BY DEF Queue!Cardinality, Cardinality
  <2>3. QED  BY <1>11, <2>1, <2>2
<1>13. Entries' = Queue!InsertAt(Entries, Queue!Cardinality(Queue!Ahead(e)) + 1, e)
  <2>1. Queue!InsertAt(Entries, (i + 1) + 1, e) =
          [k \in 1..(n + 1) |->
             IF k <= i + 1 THEN Entries[k]
             ELSE IF k = (i + 1) + 1 THEN e ELSE Entries[k - 1]]
    <3> HIDE DEF e
    <3> DEFINE m == i + 1
    <3>1. m \in 0..Len(Entries)
      BY <1>4, <1>9
    <3>2. ASSUME NEW S, NEW q \in Seq(S), m \in 0..Len(q)
          PROVE  Queue!InsertAt(q, m + 1, e) =
                   [k \in 1..(Len(q) + 1) |->
                      IF k <= m THEN q[k] ELSE IF k = m + 1 THEN e ELSE q[k - 1]]
      <4> HIDE DEF m
      <4> QED  BY <3>2, InsertAtIs
    <3>3. QED  BY <1>9, <3>1, <3>2
  <2>2. ASSUME NEW k \in 1..(n + 1)
        PROVE  [pid |-> walk'[k - 1], priority |-> priority[walk'[k - 1]]] =
                 IF k <= i + 1 THEN Entries[k]
                 ELSE IF k = (i + 1) + 1 THEN e ELSE Entries[k - 1]
    <3>1. CASE k <= i + 1
      BY <1>4, <1>5, <1>10, <3>1
    <3>2. CASE k = (i + 1) + 1
      BY <1>4, <1>5, <3>2
    <3>3. CASE k > (i + 1) + 1
      <4>1. /\ k - 1 \in 1..n /\ walk'[k - 1] = walk[(k - 1) - 1]
            /\ ~(k <= i + 1) /\ k # (i + 1) + 1
        BY <1>4, <1>5, <3>3
      <4>2. QED  BY <1>10, <4>1
    <3>4. QED  BY <1>4, <3>1, <3>2, <3>3
  <2>3. QED  BY <1>8, <1>12, <2>1, <2>2 DEF EntriesOf
<1>14. e \in Queue!ToSet(Entries') \ Queue!ToSet(Entries)
  <2>1. Entries'[i + 2] = e /\ i + 2 \in DOMAIN Entries'
    BY <1>4, <1>5, <1>8 DEF EntriesOf
  <2>2. ASSUME NEW k \in DOMAIN Entries  PROVE Entries[k] # e
    <3>1. k \in 1..n /\ walk[k - 1] # target
      BY <1>1, <1>9 DEF EntriesOf
    <3>2. Entries[k] = [pid |-> walk[k - 1], priority |-> priority[walk[k - 1]]]
      BY <1>10, <3>1
    <3>3. QED  BY <3>1, <3>2
  <2>3. QED  BY <2>1, <2>2 DEF Queue!ToSet
<1>15. QED
  <2> HIDE DEF e
  <2> QED  BY <1>13, <1>14 DEF Queue!Enter

(* The walk skips the process killed, the (i + 1)-th after kernel_proc.    *)
LEMMA WalkAfterUnlink ==
  ASSUME IInv, Unlink, prev[cur] # NULL, NEW i \in Nat, walk[i] = prev[cur],
         walk[i + 1] = cur
  PROVE  \A k \in Nat : walk'[k] = IF k <= i THEN walk[k] ELSE walk[k + 1]
<1> DEFINE a == walk[i]
           T == {k \in Nat : walk'[k] = IF k <= i THEN walk[k] ELSE walk[k + 1]}
<1>1. a \in Listed /\ cur \in Listed /\ cur # NULL /\ a # NULL
  BY ListedAre DEF IInv, Unlink, Killing, LinksAgree
<1>2. /\ next'[a] = next[cur]
      /\ \A p \in Listed : p # a => next'[p] = next[p]
  BY <1>1, ListedAre DEF Unlink, NextAfterUnlink, IInv, TypeOK
<1>3. 0 \in T
  BY WalkSteps, WalkStepsNext
<1>4. ASSUME NEW k \in Nat, k \in T  PROVE k + 1 \in T
  <2>1. walk'[k + 1] = IF walk'[k] = NULL THEN NULL ELSE next'[walk'[k]]
    BY WalkStepsNext
  <2>2. CASE k < i
    <3>1. walk[k] # NULL /\ Leads(walk[k], a) /\ walk[k] \in Listed
      BY <1>1, <2>2, WalkInOrder, WalkListed
    <3>2. walk[k] # a
      BY <3>1, ListedAre DEF Leads
    <3>3. walk'[k + 1] = next[walk[k]]
      BY <1>2, <1>4, <2>1, <2>2, <3>1, <3>2
    <3>4. QED  BY <2>2, <3>1, <3>3, WalkSteps
  <2>3. CASE k = i
    <3>1. walk'[k + 1] = next[cur]
      BY <1>1, <1>2, <1>4, <2>1, <2>3
    <3>2. walk[(i + 1) + 1] = next[cur]
      BY <1>1, WalkSteps
    <3>3. QED  BY <2>3, <3>1, <3>2
  <2>4. CASE k > i
    <3>1. walk'[k] = walk[k + 1] /\ k + 1 \in Nat
      BY <1>4, <2>4
    <3>2. walk[(k + 1) + 1] = IF walk[k + 1] = NULL THEN NULL ELSE next[walk[k + 1]]
      BY <3>1, WalkSteps
    <3>3. CASE walk[k + 1] = NULL
      BY <2>1, <2>4, <3>1, <3>2, <3>3
    <3>4. CASE walk[k + 1] # NULL
      <4>1. walk[k + 1] \in Listed /\ Leads(a, walk[k + 1])
        BY <2>4, <3>1, <3>4, WalkInOrder, WalkListed
      <4>2. walk[k + 1] # a
        BY <1>1, <4>1, ListedAre DEF Leads
      <4>3. QED  BY <1>2, <2>1, <2>4, <3>1, <3>2, <3>4, <4>1, <4>2
    <3>5. QED  BY <3>3, <3>4
  <2>5. QED  BY <2>2, <2>3, <2>4
<1>5. Nat \subseteq T
  <2> HIDE DEF T
  <2> QED  BY <1>3, <1>4, NatInduct
<1>6. QED  BY <1>5

LEMMA QueueUnlink == ASSUME IInv, IInv', Unlink, prev[cur] # NULL PROVE Queue!Leave
<1>1. cur \in Listed /\ prev[cur] \in Listed /\ next[prev[cur]] = cur /\ prev[cur] # NULL
  BY DEF IInv, Unlink, Killing, LinksAgree
<1>2. PICK i \in Nat : walk[i] = prev[cur]
  BY <1>1, WalkMeetsAll
<1>3. walk[i + 1] = cur
  BY <1>1, <1>2, WalkSteps
<1>4. \A k \in Nat : walk'[k] = IF k <= i THEN walk[k] ELSE walk[k + 1]
  BY <1>1, <1>2, <1>3, WalkAfterUnlink
<1>5. PICK n : Extent(walk, n)
  BY SomeExtent
<1>6. n \in Nat /\ i + 1 < n /\ \A k \in Nat : walk[k] # NULL <=> k < n
  BY <1>1, <1>3, <1>5, ListedAre, Sizes DEF Extent
<1>7. Extent(walk', n - 1)
  <2>1. \A k \in Nat : walk'[k] # NULL <=> k < n - 1
    BY <1>4, <1>6
  <2>2. n - 1 \in Nat
    BY <1>6
  <2>3. QED  BY <2>1, <2>2, ExtentAfter
<1>8. UNCHANGED priority
  BY DEF Unlink, procs
<1>9. Entries' = EntriesOf(walk', priority, n - 1)
  BY <1>7, <1>8, EntriesThen
<1>10. /\ Entries = EntriesOf(walk, priority, n)
       /\ Entries \in Seq([pid : Proc, priority : Nat]) /\ Len(Entries) = n
  BY <1>5, EntriesAreASequence
<1>11. \A k \in 1..n : Entries[k] = [pid |-> walk[k - 1], priority |-> priority[walk[k - 1]]]
  BY <1>10 DEF EntriesOf
<1>12. Entries' = Queue!RemoveAt(Entries, (i + 1) + 1)
  <2> DEFINE m == i + 1
  <2>1. m \in 0..(Len(Entries) - 1)
    BY <1>6, <1>10
  <2>2. ASSUME NEW S, NEW q \in Seq(S), m \in 0..(Len(q) - 1)
        PROVE  Queue!RemoveAt(q, m + 1) =
                 [k \in 1..(Len(q) - 1) |-> IF k <= m THEN q[k] ELSE q[k + 1]]
    <3> HIDE DEF m
    <3> QED  BY <2>2, RemoveAtIs
  <2>3. Queue!RemoveAt(Entries, m + 1) =
          [k \in 1..(n - 1) |-> IF k <= m THEN Entries[k] ELSE Entries[k + 1]]
    BY <1>10, <2>1, <2>2
  <2>4. ASSUME NEW k \in 1..(n - 1)
        PROVE  [pid |-> walk'[k - 1], priority |-> priority[walk'[k - 1]]] =
                 IF k <= m THEN Entries[k] ELSE Entries[k + 1]
    <3>1. CASE k <= m
      BY <1>4, <1>6, <1>11, <3>1
    <3>2. CASE k > m
      <4>1. /\ k + 1 \in 1..n /\ walk'[k - 1] = walk[(k + 1) - 1] /\ ~(k <= m)
        BY <1>4, <1>6, <3>2
      <4>2. QED  BY <1>11, <4>1
    <3>3. QED  BY <1>6, <3>1, <3>2
  <2>5. QED  BY <1>9, <2>3, <2>4 DEF EntriesOf
<1>13. (i + 1) + 1 \in 2..Queue!Len(Entries)
  BY <1>6, <1>10
<1>14. QED  BY <1>12, <1>13 DEF Queue!Leave

LEMMA QueueStep ==
  IInv /\ IInv' /\ [Next]_vars => [Queue!Enter \/ Queue!Leave]_Entries
<1> SUFFICES ASSUME IInv, IInv', [Next]_vars
             PROVE  Queue!Enter \/ Queue!Leave \/ UNCHANGED Entries
  OBVIOUS
<1>1. CASE Insert
  BY <1>1, QueueInsert
<1>2. CASE Unlink
  <2>1. CASE prev[cur] # NULL
    BY <1>2, <2>1, QueueUnlink
  <2>2. CASE prev[cur] = NULL
    BY <1>2, <2>2, QueueStays DEF Unlink, procs, links
  <2>3. QED  BY <2>1, <2>2
<1>3. CASE \E n \in Names, q \in Priorities, o \in Names : Fork(n, q, o)
  <2>1. UNCHANGED next
    BY <1>3 DEF Fork, links
  <2>2. \A p \in Listed : priority'[p] = priority[p]
    BY <1>3, ListedAre DEF Fork, IInv, TypeOK
  <2>3. QED  BY <2>1, <2>2, QueueStays
<1>4. CASE \/ Pass \/ GiveUp \/ KillPass \/ (\E n \in Names : Kill(n)) \/ UNCHANGED vars
           \/ printprocs \/ \E n \in Names : printppid(n)
  BY <1>4, QueueStays
     DEF Pass, GiveUp, KillPass, Kill, vars, printprocs, printppid, PrintParents,
         procs, links
<1>5. QED  BY <1>1, <1>2, <1>3, <1>4 DEF Next, Iterate

(* What the links make up is a priority queue: a process enters behind all *)
(* those that are not after it, whatever loops it took to find the place,  *)
(* kill takes out one and leaves the others as they were, and the kernel   *)
(* process stays in front.                                                 *)
THEOREM ImplementsQueue == Spec => QueueSpec
<1>1. IInv /\ IInv' /\ [Next]_vars => [Queue!Enter \/ Queue!Leave]_Entries
  BY QueueStep
<1>2. QED  BY <1>1, QueueInit, IInvInvariant, PTL DEF Spec, QueueSpec, Queue!Spec
=============================================================================
