------------------------------- MODULE Threads -------------------------------
(***************************************************************************)
(* class1/threads.c and threads.v0.c: main creates two workers that each   *)
(* increment a shared counter loops times, joins them in order and prints  *)
(* the counter.  The counter is volatile and not atomic: an increment is a *)
(* load and a store.  Two workers, as in the code.                         *)
(* A definition marked "fault" is a wrong variant of the one after it.     *)
(***************************************************************************)
EXTENDS Integers

CONSTANT loops  \* atoi of the argument, negative ones included

ASSUME ThreadsAssumption == loops \in Int

Worker == 1..2

VARIABLES
  main,     \* the next statement of main
  pc,       \* where each worker is, "none" before it is created
  i,        \* each worker's loop variable
  tmp,      \* what each worker has loaded
  counter

vars == <<main, pc, i, tmp, counter>>

Init ==
  /\ main = "create1"
  /\ pc = [w \in Worker |-> "none"]
  /\ i = [w \in Worker |-> 0]
  /\ tmp = [w \in Worker |-> 0]
  /\ counter = 0

(* A thread that cannot be created trips the assertion of Pthread_create.  *)
Create(w, at, then) ==
  /\ main = at
  /\ \/ main' = then /\ pc' = [pc EXCEPT ![w] = "head"]
     \/ main' = "aborted" /\ UNCHANGED pc
  /\ UNCHANGED <<i, tmp, counter>>

Join(w, at, then) ==
  /\ main = at
  /\ pc[w] = "done"
  /\ main' = then
  /\ UNCHANGED <<pc, i, tmp, counter>>

(* Once main has returned or aborted, the workers are gone.                *)
Running == main \notin {"done", "aborted"}

Enter(w) ==
  /\ Running /\ pc[w] = "head" /\ i[w] < loops
  /\ pc' = [pc EXCEPT ![w] = "load"]
  /\ UNCHANGED <<main, i, tmp, counter>>

Load(w) ==
  /\ Running /\ pc[w] = "load"
  /\ tmp' = [tmp EXCEPT ![w] = counter]
  /\ pc' = [pc EXCEPT ![w] = "store"]
  /\ UNCHANGED <<main, i, counter>>

(* fault: a worker that sees its update overtaken gives it up              *)
StoreIfSame(w) ==
  /\ Running /\ pc[w] = "store"
  /\ counter' = IF counter = tmp[w] THEN counter + 1 ELSE 0
  /\ pc' = [pc EXCEPT ![w] = "tail"]
  /\ UNCHANGED <<main, i, tmp>>

Store(w) ==
  /\ Running /\ pc[w] = "store"
  /\ counter' = tmp[w] + 1
  /\ pc' = [pc EXCEPT ![w] = "tail"]
  /\ UNCHANGED <<main, i, tmp>>

Leave(w) ==
  /\ Running /\ pc[w] = "tail"
  /\ i' = [i EXCEPT ![w] = @ + 1]
  /\ pc' = [pc EXCEPT ![w] = "head"]
  /\ UNCHANGED <<main, tmp, counter>>

Exit(w) ==
  /\ Running /\ pc[w] = "head" /\ i[w] >= loops
  /\ pc' = [pc EXCEPT ![w] = "done"]
  /\ UNCHANGED <<main, i, tmp, counter>>

Main ==
  \/ Create(1, "create1", "create2")
  \/ Create(2, "create2", "join1")
  \/ Join(1, "join1", "join2")
  \/ Join(2, "join2", "done")

worker(w) == Enter(w) \/ Load(w) \/ Store(w) \/ Leave(w) \/ Exit(w)

Next == Main \/ \E w \in Worker : worker(w)

(* Every thread that can go on is scheduled eventually.                    *)
Spec == Init /\ [][Next]_vars /\ WF_vars(Main) /\ \A w \in Worker : WF_vars(worker(w))

-----------------------------------------------------------------------------
Rounds == IF loops < 0 THEN 0 ELSE loops

(* Type invariant.                                                         *)
TypeOK ==
  /\ main \in {"create1", "create2", "join1", "join2", "done", "aborted"}
  /\ pc \in [Worker -> {"none", "head", "load", "store", "tail", "done"}]
  /\ i \in [Worker -> 0..Rounds]
  /\ tmp \in [Worker -> Int]
  /\ counter \in Int

(* Without a lock increments get lost, but not all of them: the value main *)
(* prints is at least 2, or 1 when each worker has one increment to make,  *)
(* and at most the number of increments.                                   *)
FinalInRange ==
  main = "done" =>
    /\ counter <= 2 * Rounds
    /\ counter >= IF Rounds < 2 THEN Rounds ELSE 2

(* main comes to an end.                                                   *)
MainEnds == <>(main \in {"done", "aborted"})
=============================================================================
