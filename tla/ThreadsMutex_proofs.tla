------------------------ MODULE ThreadsMutex_proofs -------------------------
(***************************************************************************)
(* Proofs about Threads and ThreadsMutex, for every number of loops: what  *)
(* is left of increments without a lock, and that with the mutex none is   *)
(* lost and main prints twice the number of loops.  That main ends is left *)
(* to TLC.                                                                 *)
(***************************************************************************)
EXTENDS ThreadsMutex, TLAPS

(* Inside an iteration, which in ThreadsMutex is between lock and unlock.  *)
Inside(w) == pc[w] \in {"load", "store", "tail"}

(* How far the workers and main can be.                                    *)
Progress ==
  /\ \A w \in Worker : Inside(w) => i[w] < loops
  /\ \A w \in Worker : pc[w] = "done" => i[w] = Rounds
  /\ main = "create1" => pc[1] = "none" /\ pc[2] = "none"
  /\ main = "create2" => pc[2] = "none"
  /\ main \in {"join2", "done"} => pc[1] = "done"
  /\ main = "done" => pc[2] = "done"
-----------------------------------------------------------------------------
(* Without a lock.  Nothing is made up: no value is larger than the stores *)
(* made so far.                                                            *)
AtMost ==
  /\ counter <= Stored(1) + Stored(2)
  /\ \A w \in Worker : tmp[w] <= Stored(1) + Stored(2)

(* A worker that stored before loaded at least 1, because a store leaves   *)
(* at least 1; so each store from its second on leaves at least 2.  Once   *)
(* both have made two, the last store was one of those.                    *)
AtLeast ==
  /\ counter >= 0
  /\ \A w \in Worker :
       /\ tmp[w] >= 0
       /\ Stored(w) >= 1 => counter >= 1
       /\ pc[w] = "store" /\ Stored(w) >= 1 => tmp[w] >= 1
  /\ Stored(1) >= 2 /\ Stored(2) >= 2 => counter >= 2

RaceInv == TypeOK /\ AtMost /\ AtLeast /\ Progress

LEMMA InitRaceInv == Init => RaceInv
  BY ThreadsAssumption DEF Init, RaceInv, TypeOK, AtMost, AtLeast, Progress,
     Stored, Inside, Worker, Rounds

LEMMA MainKeepsRaceInv ==
  ASSUME RaceInv, Main
  PROVE  RaceInv'
<1> USE ThreadsAssumption DEF RaceInv, TypeOK, AtMost, AtLeast, Progress,
        Stored, Inside, Worker, Rounds
<1>1. CASE Create(1, "create1", "create2")  BY <1>1 DEF Create
<1>2. CASE Create(2, "create2", "join1")  BY <1>2 DEF Create
<1>3. CASE Join(1, "join1", "join2")  BY <1>3 DEF Join
<1>4. CASE Join(2, "join2", "done")  BY <1>4 DEF Join
<1>5. QED  BY <1>1, <1>2, <1>3, <1>4 DEF Main

LEMMA WorkerKeepsRaceInv ==
  ASSUME RaceInv, NEW w \in Worker, worker(w)
  PROVE  RaceInv'
<1> USE ThreadsAssumption DEF RaceInv, TypeOK, AtMost, AtLeast, Progress,
        Stored, Inside, Worker, Rounds, Running
<1>1. CASE Enter(w)  BY <1>1 DEF Enter
<1>2. CASE Load(w)  BY <1>2 DEF Load
<1>3. CASE Store(w)  BY <1>3 DEF Store
<1>4. CASE Leave(w)  BY <1>4 DEF Leave
<1>5. CASE Exit(w)  BY <1>5 DEF Exit
<1>6. QED  BY <1>1, <1>2, <1>3, <1>4, <1>5 DEF worker

LEMMA RaceInvInvariant == Spec => []RaceInv
<1>1. RaceInv /\ [Next]_vars => RaceInv'
  <2> SUFFICES ASSUME RaceInv, [Next]_vars  PROVE RaceInv'
    OBVIOUS
  <2>1. CASE Main  BY <2>1, MainKeepsRaceInv
  <2>2. CASE \E w \in Worker : worker(w)  BY <2>2, WorkerKeepsRaceInv
  <2>3. CASE UNCHANGED vars
    BY <2>3 DEF vars, RaceInv, TypeOK, AtMost, AtLeast, Progress, Stored, Inside
  <2>4. QED  BY <2>1, <2>2, <2>3 DEF Next
<1>2. QED  BY InitRaceInv, <1>1, PTL DEF Spec

(* threads.c prints at least 2 (as far as there are that many rounds) and  *)
(* at most twice the number of loops, for every number of loops.           *)
THEOREM FinalValueInRange == Spec => []FinalInRange
<1>1. RaceInv => FinalInRange
  BY ThreadsAssumption
     DEF RaceInv, TypeOK, AtMost, AtLeast, Progress, Stored, FinalInRange, Rounds, Worker
<1>2. QED  BY <1>1, RaceInvInvariant, PTL
-----------------------------------------------------------------------------
(* With the mutex.  The worker inside is the one that holds it; what it    *)
(* has loaded is still the counter when it stores.                         *)
Exclusive ==
  /\ m \in Worker \cup {FREE}
  /\ \A w \in Worker : Inside(w) <=> m = w
  /\ \A w \in Worker : pc[w] = "store" => tmp[w] = counter

MutexInv == TypeOK /\ Exclusive /\ Progress /\ NoneLost

LEMMA InitMutexInv == MInit => MutexInv
  BY ThreadsAssumption DEF MInit, Init, MutexInv, TypeOK, Exclusive, Progress,
     NoneLost, Stored, Inside, Worker, Rounds, FREE, NOMUTEX

(* main's statements: creating a worker puts one outside at its loop's     *)
(* head, joining one needs it to be done.                                  *)
LEMMA MainKeepsMutexInv ==
  ASSUME MutexInv, Main, UNCHANGED m
  PROVE  MutexInv'
<1> USE ThreadsAssumption DEF MutexInv, TypeOK, Exclusive, Progress, NoneLost,
        Stored, Inside, Worker, Rounds, FREE, NOMUTEX
<1>1. CASE Create(1, "create1", "create2")  BY <1>1 DEF Create
<1>2. CASE Create(2, "create2", "join1")  BY <1>2 DEF Create
<1>3. CASE Join(1, "join1", "join2")  BY <1>3 DEF Join
<1>4. CASE Join(2, "join2", "done")  BY <1>4 DEF Join
<1>5. QED  BY <1>1, <1>2, <1>3, <1>4 DEF Main

LEMMA WorkerKeepsMutexInv ==
  ASSUME MutexInv, NEW w \in Worker, mworker(w)
  PROVE  MutexInv'
<1> USE ThreadsAssumption DEF MutexInv, TypeOK, Exclusive, Progress, NoneLost,
        Stored, Inside, Worker, Rounds, FREE, NOMUTEX, Running
<1>1. CASE Lock(w)  BY <1>1 DEF Lock, Enter
<1>2. CASE Load(w) /\ UNCHANGED m  BY <1>2 DEF Load
<1>3. CASE Store(w) /\ UNCHANGED m  BY <1>3 DEF Store
<1>4. CASE Unlock(w)  BY <1>4 DEF Unlock, Leave
<1>5. CASE Exit(w) /\ UNCHANGED m  BY <1>5 DEF Exit
<1>6. QED  BY <1>1, <1>2, <1>3, <1>4, <1>5 DEF mworker

LEMMA MutexInvInvariant == MSpec => []MutexInv
<1>1. MutexInv /\ [MNext]_mvars => MutexInv'
  <2> SUFFICES ASSUME MutexInv, [MNext]_mvars  PROVE MutexInv'
    OBVIOUS
  <2>1. CASE Main /\ UNCHANGED m  BY <2>1, MainKeepsMutexInv
  <2>2. CASE \E w \in Worker : mworker(w)  BY <2>2, WorkerKeepsMutexInv
  <2>3. CASE UNCHANGED mvars
    BY <2>3 DEF mvars, vars, MutexInv, TypeOK, Exclusive, Progress, NoneLost,
       Stored, Inside, NOMUTEX
  <2>4. QED  BY <2>1, <2>2, <2>3 DEF MNext
<1>2. QED  BY InitMutexInv, <1>1, PTL DEF MSpec

(* Whatever the number of loops and however the workers are scheduled, the *)
(* counter is at all times the number of increments stored.                *)
THEOREM NoIncrementLost == MSpec => []NoneLost
  BY MutexInvInvariant, PTL DEF MutexInv

(* threads.v1.c prints 2 * loops.                                          *)
THEOREM ExactFinalValue == MSpec => []FinalExact
<1>1. MutexInv => FinalExact
  BY ThreadsAssumption
     DEF MutexInv, TypeOK, Progress, NoneLost, Stored, FinalExact, Rounds, Worker, Exclusive,
         FREE, NOMUTEX
<1>2. QED  BY <1>1, MutexInvInvariant, PTL
=============================================================================
