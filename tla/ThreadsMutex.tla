---------------------------- MODULE ThreadsMutex ----------------------------
(***************************************************************************)
(* class1/threads.v1.c: the workers of Threads, with each increment under  *)
(* the mutex m.  A definition marked "fault" is a wrong variant of the one *)
(* after it.                                                               *)
(***************************************************************************)
EXTENDS Threads

FREE == 0
NOMUTEX == -1

VARIABLE m  \* the worker that holds the mutex, or FREE; NOMUTEX in a program
            \* that has none (see MCThreads)

mvars == <<vars, m>>

MInit == Init /\ m = FREE

(* fault: the mutex is not waited for                                      *)
LockNoWait(w) == Enter(w) /\ m' = w

(* The loop's test and pthread_mutex_lock.                                 *)
Lock(w) == Enter(w) /\ m = FREE /\ m' = w

(* fault: the last iteration keeps the mutex                               *)
UnlockNotLast(w) == Leave(w) /\ m' = IF i[w] + 1 < loops THEN FREE ELSE m

(* pthread_mutex_unlock and the loop's i++.                                *)
Unlock(w) == Leave(w) /\ m' = FREE

mworker(w) ==
  \/ Lock(w)
  \/ (Load(w) \/ Store(w)) /\ UNCHANGED m
  \/ Unlock(w)
  \/ Exit(w) /\ UNCHANGED m

MNext ==
  \/ Main /\ UNCHANGED m
  \/ \E w \in Worker : mworker(w)

(* A worker waiting for the mutex is not promised it, but it is scheduled  *)
(* when the mutex stays free.                                              *)
MSpec ==
  /\ MInit
  /\ [][MNext]_mvars
  /\ WF_mvars(Main /\ UNCHANGED m)
  /\ \A w \in Worker : WF_mvars(mworker(w))

-----------------------------------------------------------------------------
(* The increments worker w has stored.                                     *)
Stored(w) == i[w] + IF pc[w] = "tail" THEN 1 ELSE 0

(* With a mutex no increment is lost at any time: the counter is the number*)
(* of stores.                                                              *)
NoneLost == m # NOMUTEX => counter = Stored(1) + Stored(2)

(* main prints twice the number of loops.                                  *)
FinalExact == main = "done" /\ m # NOMUTEX => counter = 2 * Rounds
=============================================================================
