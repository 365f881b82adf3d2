-------------------------- MODULE ProcShell_proofs --------------------------
(***************************************************************************)
(* Proofs about ProcTable, for any number of slots, any pids, channels and *)
(* priorities the callers pass, and any bound on nextpid; and, at the end, *)
(* that the command shell of main.c makes only calls ProcTable allows, so  *)
(* that what is proved of the table holds of the program.                  *)
(***************************************************************************)
EXTENDS ProcShell, FiniteSetTheorems, TLAPS

(* A free slot has no pid, so that findproc never finds a freed process.   *)
FreeHasNoPid == \A s \in Slot : state[s] = "UNUSED" => pid[s] = 0

(* The inductive invariant.  None of its parts is inductive alone: pids    *)
(* stay unique because new ones are above all others, parents stay set     *)
(* because the slot Fork takes and the slot Wait frees are told apart by   *)
(* their pids.                                                             *)
IInv ==
  /\ TypeOK
  /\ PidsUnique
  /\ Parented
  /\ FreeHasNoPid

LEMMA InitIInv == Init => IInv
BY ProcTableAssumption
   DEF Init, IInv, TypeOK, PidsUnique, Parented, FreeHasNoPid, Slot, NULL,
       initproc, procstate

LEMMA StutterIInv == IInv /\ UNCHANGED vars => IInv'
BY DEF IInv, vars, TypeOK, PidsUnique, Parented, FreeHasNoPid

(* A call that refuses or dies leaves the table as it was.                 *)
LEMMA SameTableIInv ==
  IInv /\ UNCHANGED table /\ fate' \in {"running", "SIGSEGV", "SIGFPE"} => IInv'
BY DEF IInv, table, TypeOK, PidsUnique, Parented, FreeHasNoPid

LEMMA RefuseIInv ==
  ASSUME NEW c, NEW v, IInv, Refuse(c, v)
  PROVE  IInv'
BY SameTableIInv DEF Refuse, Returns, IInv, TypeOK

LEMMA ForkIInv ==
  ASSUME NEW p \in Pids, NEW q \in Prios, IInv, Fork(p, q)
  PROVE  IInv'
<1>1. CASE Refuse("Fork", -1)
  BY <1>1, RefuseIInv
<1>2. CASE ~Refuse("Fork", -1)
  <2>1. PICK f, n \in Slot :
          /\ allocproc(n)
          /\ state'   = [state EXCEPT ![n] = "RUNNABLE"]
          /\ pid'     = [pid EXCEPT ![n] = nextpid]
          /\ parent'  = [parent EXCEPT ![n] = f]
          /\ prio'    = [prio EXCEPT ![n] = q]
          /\ nextpid' = nextpid + 1
          /\ UNCHANGED <<chan, killed, fate>>
    BY <1>2 DEF Fork, NewPid, Returns
  <2>2. n # initproc /\ pid[n] = 0
    BY <2>1 DEF allocproc, IInv, Parented, FreeHasNoPid
  <2>3. nextpid > 0 /\ \A s \in Slot : pid[s] \in Nat /\ pid[s] < nextpid
    BY ProcTableAssumption
       DEF IInv, TypeOK, PidsUnique, Parented, Slot, initproc
  <2>4. TypeOK'
    BY <2>1, ProcTableAssumption DEF IInv, TypeOK, procstate
  <2>5. PidsUnique'
    BY <2>1, <2>3 DEF IInv, TypeOK, PidsUnique
  <2>6. Parented'
    <3>1. initproc \in Slot /\ f # NULL /\ n # initproc
      BY <2>2, ProcTableAssumption DEF Slot, initproc, NULL
    <3>2. /\ pid'[initproc] = pid[initproc]
          /\ parent'[initproc] = parent[initproc]
          /\ state'[initproc] = state[initproc]
      BY <2>1, <3>1 DEF IInv, TypeOK
    <3>3. ASSUME NEW s \in Slot \ {initproc}
          PROVE  pid'[s] # 0 <=> parent'[s] # NULL
      <4>1. CASE s = n
        BY <2>1, <2>3, <3>1, <4>1 DEF IInv, TypeOK
      <4>2. CASE s # n
        BY <2>1, <4>2 DEF IInv, TypeOK, Parented
      <4>3. QED
        BY <4>1, <4>2
    <3>4. QED
      BY <3>2, <3>3 DEF IInv, Parented
  <2>7. FreeHasNoPid'
    BY <2>1 DEF IInv, TypeOK, FreeHasNoPid
  <2>8. QED
    BY <2>4, <2>5, <2>6, <2>7 DEF IInv
<1>3. QED
  BY <1>1, <1>2

LEMMA ExitIInv ==
  ASSUME NEW p \in Pids, IInv, Exit(p)
  PROVE  IInv'
<1>1. CASE \E v \in Int : Refuse("Exit", v)
  BY <1>1, RefuseIInv
<1>2. CASE Dies("SIGSEGV")
  BY <1>2, SameTableIInv DEF Dies
<1>3. CASE \E s \in Slot \ {initproc} :
             /\ findproc(p, s)
             /\ parent[s] # NULL
             /\ state'  = [t \in Slot |-> NextState(s, t)]
             /\ parent' = [t \in Slot |-> NextParent(s, t)]
             /\ UNCHANGED <<pid, chan, killed, prio, nextpid, fate>>
  <2>1. PICK s \in Slot \ {initproc} :
             /\ parent[s] # NULL
             /\ state'  = [t \in Slot |-> NextState(s, t)]
             /\ parent' = [t \in Slot |-> NextParent(s, t)]
             /\ UNCHANGED <<pid, chan, killed, prio, nextpid, fate>>
    BY <1>3
  <2>2. \A t \in Slot :
          /\ state'[t] \in {"ZOMBIE", "RUNNABLE", state[t]}
          /\ parent'[t] \in {initproc, parent[t]}
          /\ parent'[t] = NULL <=> parent[t] = NULL
          /\ state'[t] = "UNUSED" => state[t] = "UNUSED"
    BY <2>1, ProcTableAssumption
       DEF NextState, NextParent, wakeup1, Children, Slot, NULL, initproc
  <2>3. initproc \in Slot /\ initproc \notin Children(s)
    BY <2>1, ProcTableAssumption
       DEF IInv, Parented, Children, Slot, NULL, initproc
  <2>4. TypeOK'
    BY <2>1, <2>2, <2>3 DEF IInv, TypeOK, procstate
  <2>5. PidsUnique'
    BY <2>1 DEF IInv, PidsUnique
  <2>6. Parented'
    BY <2>1, <2>2, <2>3
       DEF IInv, Parented, NextState, NextParent, wakeup1
  <2>7. FreeHasNoPid'
    BY <2>1, <2>2 DEF IInv, FreeHasNoPid
  <2>8. QED
    BY <2>4, <2>5, <2>6, <2>7 DEF IInv
<1>4. QED
  BY <1>1, <1>2, <1>3 DEF Exit, Returns

(* A call that frees, gives and moves no slot: it puts processes to sleep  *)
(* or makes them runnable.                                                 *)
LEMMA StatesOnlyIInv ==
  ASSUME IInv,
         UNCHANGED <<pid, parent, prio, nextpid, fate>>,
         state' = [s \in Slot |-> state'[s]],
         \A s \in Slot : state'[s] \in {"SLEEPING", "RUNNABLE", state[s]},
         chan' \in [Slot -> Int],
         killed' \in [Slot -> BOOLEAN]
  PROVE  IInv'
<1>1. TypeOK'
  <2>1. state' \in [Slot -> procstate]
    BY DEF IInv, TypeOK, procstate
  <2>2. QED
    BY <2>1 DEF IInv, TypeOK
<1>2. PidsUnique' /\ FreeHasNoPid'
  BY DEF IInv, PidsUnique, FreeHasNoPid
<1>3. Parented'
  BY ProcTableAssumption DEF IInv, Parented, Slot, initproc
<1>4. QED
  BY <1>1, <1>2, <1>3 DEF IInv

LEMMA SleepIInv ==
  ASSUME NEW p \in Pids, NEW c \in Int, IInv, Sleep(p, c)
  PROVE  IInv'
<1>1. CASE Refuse("Sleep", -3)
  BY <1>1, RefuseIInv
<1>2. CASE ~Refuse("Sleep", -3)
  <2>1. PICK s \in Slot :
          /\ chan'  = [chan EXCEPT ![s] = c]
          /\ state' = [state EXCEPT ![s] = "SLEEPING"]
          /\ UNCHANGED <<pid, parent, killed, prio, nextpid, fate>>
    BY <1>2 DEF Sleep, Returns
  <2>2. /\ state' = [t \in Slot |-> state'[t]]
        /\ \A t \in Slot : state'[t] \in {"SLEEPING", "RUNNABLE", state[t]}
        /\ chan' \in [Slot -> Int]
        /\ killed' \in [Slot -> BOOLEAN]
    BY <2>1 DEF IInv, TypeOK
  <2>3. QED
    BY <2>1, <2>2, StatesOnlyIInv
<1>3. QED
  BY <1>1, <1>2

LEMMA ReapIInv ==
  ASSUME NEW w \in Slot, IInv, Reap(w)
  PROVE  IInv'
<1>1. PICK c \in Slot :
        /\ parent[c] = w
        /\ state'   = [state EXCEPT ![c] = "UNUSED"]
        /\ pid'     = [pid EXCEPT ![c] = 0]
        /\ parent'  = [parent EXCEPT ![c] = NULL]
        /\ killed'  = [killed EXCEPT ![c] = FALSE]
        /\ UNCHANGED <<chan, prio, nextpid, fate>>
  BY DEF Reap, FirstZombie, Free, Returns, ZombieChildren, Children
<1>2. c # initproc /\ initproc \in Slot
  BY <1>1, ProcTableAssumption DEF IInv, Parented, Slot, NULL, initproc
<1>3. \A s \in Slot \ {c} :
        pid'[s] = pid[s] /\ parent'[s] = parent[s] /\ state'[s] = state[s]
  BY <1>1 DEF IInv, TypeOK
<1>4. pid'[c] = 0 /\ parent'[c] = NULL
  BY <1>1 DEF IInv, TypeOK
<1>5. TypeOK'
  BY <1>1 DEF IInv, TypeOK, procstate
<1>6. PidsUnique'
  <2>1. nextpid > 0 /\ nextpid' = nextpid
    BY <1>1, <1>2 DEF IInv, TypeOK, PidsUnique, Parented
  <2>2. QED
    BY <1>3, <1>4, <2>1 DEF IInv, PidsUnique
<1>7. Parented'
  BY <1>2, <1>3, <1>4 DEF IInv, Parented
<1>8. FreeHasNoPid'
  BY <1>3, <1>4 DEF IInv, FreeHasNoPid
<1>9. QED
  BY <1>5, <1>6, <1>7, <1>8 DEF IInv

LEMMA WaitIInv ==
  ASSUME NEW p \in Pids, IInv, Wait(p)
  PROVE  IInv'
<1>1. CASE \E v \in Int : Refuse("Wait", v)
  BY <1>1, RefuseIInv
<1>2. CASE \E w \in Slot : Reap(w)
  BY <1>2, ReapIInv
<1>3. CASE \E w \in Slot :
             /\ chan'  = [chan EXCEPT ![w] = p]
             /\ state' = [state EXCEPT ![w] = "SLEEPING"]
             /\ UNCHANGED <<pid, parent, killed, prio, nextpid, fate>>
  <2>1. PICK w \in Slot :
          /\ chan'  = [chan EXCEPT ![w] = p]
          /\ state' = [state EXCEPT ![w] = "SLEEPING"]
          /\ UNCHANGED <<pid, parent, killed, prio, nextpid, fate>>
    BY <1>3
  <2>2. /\ state' = [t \in Slot |-> state'[t]]
        /\ \A t \in Slot : state'[t] \in {"SLEEPING", "RUNNABLE", state[t]}
        /\ chan' \in [Slot -> Int]
        /\ killed' \in [Slot -> BOOLEAN]
    BY <2>1, ProcTableAssumption DEF IInv, TypeOK
  <2>3. QED
    BY <2>1, <2>2, StatesOnlyIInv
<1>4. QED
  BY <1>1, <1>2, <1>3 DEF Wait, Returns

LEMMA WakeupIInv ==
  ASSUME NEW c \in Int, IInv, Wakeup(c)
  PROVE  IInv'
<1>1. /\ state' = [t \in Slot |-> state'[t]]
      /\ \A t \in Slot : state'[t] \in {"SLEEPING", "RUNNABLE", state[t]}
      /\ chan' \in [Slot -> Int]
      /\ killed' \in [Slot -> BOOLEAN]
  BY DEF Wakeup, wakeup1, IInv, TypeOK
<1>2. QED
  BY <1>1, StatesOnlyIInv DEF Wakeup, Returns

LEMMA KillIInv ==
  ASSUME NEW p \in Pids, IInv, Kill(p)
  PROVE  IInv'
<1>1. CASE Refuse("Kill", -1)
  BY <1>1, RefuseIInv
<1>2. CASE ~Refuse("Kill", -1)
  <2>1. PICK s \in Slot :
          /\ killed' = [killed EXCEPT ![s] = TRUE]
          /\ state'  = [state EXCEPT ![s] =
                          IF @ = "SLEEPING" THEN "RUNNABLE" ELSE @]
          /\ UNCHANGED <<pid, parent, chan, prio, nextpid, fate>>
    BY <1>2 DEF Kill, Returns
  <2>2. /\ state' = [t \in Slot |-> state'[t]]
        /\ \A t \in Slot : state'[t] \in {"SLEEPING", "RUNNABLE", state[t]}
        /\ chan' \in [Slot -> Int]
        /\ killed' \in [Slot -> BOOLEAN]
    BY <2>1 DEF IInv, TypeOK
  <2>3. QED
    BY <2>1, <2>2, StatesOnlyIInv
<1>3. QED
  BY <1>1, <1>2

LEMMA SchedulerIInv ==
  ASSUME IInv, scheduler
  PROVE  IInv'
<1>1. CASE Dies("SIGFPE")
  BY <1>1, SameTableIInv DEF Dies
<1>2. CASE ~Dies("SIGFPE")
  <2>1. /\ state' = [state EXCEPT ![curr_proc] = "RUNNABLE"]
        /\ UNCHANGED <<pid, parent, chan, killed, prio, nextpid, fate>>
    BY <1>2 DEF scheduler, Returns
  <2>2. /\ state' = [t \in Slot |-> state'[t]]
        /\ \A t \in Slot : state'[t] \in {"SLEEPING", "RUNNABLE", state[t]}
        /\ chan' \in [Slot -> Int]
        /\ killed' \in [Slot -> BOOLEAN]
    BY <2>1 DEF IInv, TypeOK
  <2>3. QED
    BY <2>1, <2>2, StatesOnlyIInv
<1>3. QED
  BY <1>1, <1>2

LEMMA NextIInv == IInv /\ [Next]_vars => IInv'
<1> SUFFICES ASSUME IInv, [Next]_vars PROVE IInv'
  OBVIOUS
<1>1. ASSUME NEW p \in Pids, NEW q \in Prios, Fork(p, q) PROVE IInv'
  BY <1>1, ForkIInv
<1>2. ASSUME NEW p \in Pids, Exit(p) PROVE IInv'
  BY <1>2, ExitIInv
<1>3. ASSUME NEW p \in Pids, Wait(p) PROVE IInv'
  BY <1>3, WaitIInv
<1>4. ASSUME NEW p \in Pids, NEW c \in Chans, Sleep(p, c) PROVE IInv'
  BY <1>4, SleepIInv, ProcTableAssumption
<1>5. ASSUME NEW c \in Chans, Wakeup(c) PROVE IInv'
  BY <1>5, WakeupIInv, ProcTableAssumption
<1>6. ASSUME NEW p \in Pids, Kill(p) PROVE IInv'
  BY <1>6, KillIInv
<1>7. CASE scheduler
  BY <1>7, SchedulerIInv
<1>8. CASE UNCHANGED vars
  BY <1>8, StutterIInv
<1>9. QED
  BY <1>1, <1>2, <1>3, <1>4, <1>5, <1>6, <1>7, <1>8 DEF Next

LEMMA Inductive == Spec => []IInv
BY InitIInv, NextIInv, PTL DEF Spec

-----------------------------------------------------------------------------
(* Every value of the table stays in its type, whatever calls are made.    *)
THEOREM TypeCorrect == Spec => []TypeOK
<1>1. IInv => TypeOK
  BY DEF IInv
<1>2. QED
  BY <1>1, Inductive, PTL

(* No two slots ever hold the same pid: findproc means one process.        *)
THEOREM PidsAreUnique == Spec => []PidsUnique
<1>1. IInv => PidsUnique
  BY DEF IInv
<1>2. QED
  BY <1>1, Inductive, PTL

(* Every process but the first always has a parent pointer, through every  *)
(* Exit, Wait and reuse of slots.                                          *)
THEOREM AlwaysParented == Spec => []Parented
<1>1. IInv => Parented
  BY DEF IInv
<1>2. QED
  BY <1>1, Inductive, PTL

-----------------------------------------------------------------------------
(* NoLostWakeup is inductive over IInv: the only call that makes a zombie  *)
(* is Exit, and it makes them of the exiting process, whose parent it      *)
(* wakes, and of the children it hands to the first process.               *)


(* A step that neither makes a zombie, nor moves a child, nor puts a       *)
(* process to sleep disturbs nothing.                                      *)
LEMMA NoNewZombieNoNewSleeper ==
  ASSUME NoLostWakeup,
         UNCHANGED <<pid, chan>>,
         \A s \in Slot : state'[s] = "ZOMBIE" => state[s] = "ZOMBIE",
         \A s \in Slot : state'[s] = "SLEEPING" => state[s] = "SLEEPING",
         \A s \in Slot : parent'[s] \in {parent[s], NULL}
  PROVE  NoLostWakeup'
BY DEF NoLostWakeup, SleepsInWait, ZombieChildren, Children, Slot, NULL

LEMMA SameTableNoLostWakeup == NoLostWakeup /\ UNCHANGED table => NoLostWakeup'
BY DEF table, NoLostWakeup, SleepsInWait, ZombieChildren, Children

LEMMA ForkNoLostWakeup ==
  ASSUME NEW p \in Pids, NEW q \in Prios, IInv, NoLostWakeup, Fork(p, q)
  PROVE  NoLostWakeup'
<1>1. CASE Refuse("Fork", -1)
  BY <1>1, SameTableNoLostWakeup DEF Refuse
<1>2. CASE ~Refuse("Fork", -1)
  <2>1. PICK f, n \in Slot :
          /\ state'   = [state EXCEPT ![n] = "RUNNABLE"]
          /\ pid'     = [pid EXCEPT ![n] = nextpid]
          /\ parent'  = [parent EXCEPT ![n] = f]
          /\ UNCHANGED chan
    BY <1>2 DEF Fork, NewPid
  <2>2. state'[n] = "RUNNABLE"
    BY <2>1 DEF IInv, TypeOK
  <2>3. \A s \in Slot \ {n} :
          pid'[s] = pid[s] /\ parent'[s] = parent[s] /\ state'[s] = state[s]
    BY <2>1 DEF IInv, TypeOK
  <2>4. QED
    BY <2>1, <2>2, <2>3
       DEF NoLostWakeup, SleepsInWait, ZombieChildren, Children
<1>3. QED
  BY <1>1, <1>2

LEMMA ExitNoLostWakeup ==
  ASSUME NEW p \in Pids, IInv, NoLostWakeup, Exit(p)
  PROVE  NoLostWakeup'
<1>1. CASE UNCHANGED table
  BY <1>1, SameTableNoLostWakeup
<1>2. CASE ~UNCHANGED table
  <2>1. PICK x \in Slot \ {initproc} :
          /\ state'  = [t \in Slot |-> NextState(x, t)]
          /\ parent' = [t \in Slot |-> NextParent(x, t)]
          /\ UNCHANGED <<pid, chan>>
    BY <1>2 DEF Exit, Refuse, Dies, table
  <2> SUFFICES ASSUME NEW s \in Slot \ {initproc}, SleepsInWait(s)',
                      NEW t \in ZombieChildren(s)'
               PROVE  FALSE
    BY DEF NoLostWakeup
  <2>2. state[s] = "SLEEPING" /\ SleepsInWait(s)
    BY <2>1 DEF SleepsInWait, NextState, wakeup1
  <2>3. t \in Slot /\ parent[t] = s /\ t \notin Children(x)
    BY <2>1 DEF ZombieChildren, Children, NextParent
  <2>4. t # x
    <3>1. SUFFICES ASSUME t = x PROVE FALSE
      OBVIOUS
    <3>2. state'[s] \in {"ZOMBIE", "RUNNABLE"}
      BY <2>1, <2>2, <2>3, <3>1 DEF NextState, wakeup1, SleepsInWait
    <3>3. QED
      BY <3>2 DEF SleepsInWait
  <2>5. state[t] = "ZOMBIE"
    BY <2>1, <2>3, <2>4 DEF ZombieChildren, Children, NextState, wakeup1
  <2>6. QED
    BY <2>2, <2>3, <2>5 DEF NoLostWakeup, ZombieChildren, Children
<1>3. QED
  BY <1>1, <1>2

LEMMA WaitNoLostWakeup ==
  ASSUME NEW p \in Pids, IInv, NoLostWakeup, Wait(p)
  PROVE  NoLostWakeup'
<1>1. CASE UNCHANGED table
  BY <1>1, SameTableNoLostWakeup
<1>2. CASE \E w \in Slot : Reap(w)
  <2>1. PICK c \in Slot :
          /\ state'   = [state EXCEPT ![c] = "UNUSED"]
          /\ pid'     = [pid EXCEPT ![c] = 0]
          /\ parent'  = [parent EXCEPT ![c] = NULL]
          /\ UNCHANGED chan
    BY <1>2 DEF Reap, Free
  <2>2. state'[c] = "UNUSED"
    BY <2>1 DEF IInv, TypeOK
  <2>3. \A s \in Slot \ {c} :
          pid'[s] = pid[s] /\ parent'[s] = parent[s] /\ state'[s] = state[s]
    BY <2>1 DEF IInv, TypeOK
  <2>4. QED
    BY <2>1, <2>2, <2>3
       DEF NoLostWakeup, SleepsInWait, ZombieChildren, Children
<1>3. CASE \E w \in Slot :
             /\ ZombieChildren(w) = {}
             /\ chan'  = [chan EXCEPT ![w] = p]
             /\ state' = [state EXCEPT ![w] = "SLEEPING"]
             /\ UNCHANGED <<pid, parent>>
  <2>1. PICK w \in Slot :
             /\ ZombieChildren(w) = {}
             /\ chan'  = [chan EXCEPT ![w] = p]
             /\ state' = [state EXCEPT ![w] = "SLEEPING"]
             /\ UNCHANGED <<pid, parent>>
    BY <1>3
  <2>2. \A s \in Slot \ {w} : chan'[s] = chan[s] /\ state'[s] = state[s]
    BY <2>1 DEF IInv, TypeOK
  <2>3. state'[w] = "SLEEPING"
    BY <2>1 DEF IInv, TypeOK
  <2>4. \A s \in Slot : ZombieChildren(s)' \subseteq ZombieChildren(s)
    BY <2>1, <2>2, <2>3 DEF ZombieChildren, Children
  <2>5. QED
    BY <2>1, <2>2, <2>4 DEF NoLostWakeup, SleepsInWait
<1>4. QED
  BY <1>1, <1>2, <1>3 DEF Wait, Refuse

LEMMA SleepNoLostWakeup ==
  ASSUME NEW p \in Pids, NEW c \in Chans, IInv, NoLostWakeup, Sleep(p, c)
  PROVE  NoLostWakeup'
<1>1. CASE UNCHANGED table
  BY <1>1, SameTableNoLostWakeup
<1>2. CASE ~UNCHANGED table
  <2>1. PICK w \in Slot :
             /\ chan'  = [chan EXCEPT ![w] = c]
             /\ state' = [state EXCEPT ![w] = "SLEEPING"]
             /\ UNCHANGED <<pid, parent>>
    BY <1>2 DEF Sleep, Refuse
  <2>2. \A s \in Slot \ {w} : chan'[s] = chan[s] /\ state'[s] = state[s]
    BY <2>1 DEF IInv, TypeOK
  <2>3. state'[w] = "SLEEPING" /\ chan'[w] = c
    BY <2>1 DEF IInv, TypeOK
  <2>4. \A s \in Slot : ZombieChildren(s)' \subseteq ZombieChildren(s)
    BY <2>1, <2>2, <2>3 DEF ZombieChildren, Children
  <2>5. QED
    BY <2>1, <2>2, <2>3, <2>4 DEF NoLostWakeup, SleepsInWait
<1>3. QED
  BY <1>1, <1>2

LEMMA NextNoLostWakeup == IInv /\ NoLostWakeup /\ [Next]_vars => NoLostWakeup'
<1> SUFFICES ASSUME IInv, NoLostWakeup, [Next]_vars PROVE NoLostWakeup'
  OBVIOUS
<1>1. ASSUME NEW p \in Pids, NEW q \in Prios, Fork(p, q) PROVE NoLostWakeup'
  BY <1>1, ForkNoLostWakeup
<1>2. ASSUME NEW p \in Pids, Exit(p) PROVE NoLostWakeup'
  BY <1>2, ExitNoLostWakeup
<1>3. ASSUME NEW p \in Pids, Wait(p) PROVE NoLostWakeup'
  BY <1>3, WaitNoLostWakeup
<1>4. ASSUME NEW p \in Pids, NEW c \in Chans, Sleep(p, c) PROVE NoLostWakeup'
  BY <1>4, SleepNoLostWakeup
<1>5. ASSUME NEW c \in Chans, Wakeup(c) PROVE NoLostWakeup'
  BY <1>5, NoNewZombieNoNewSleeper DEF Wakeup, wakeup1
<1>6. ASSUME NEW p \in Pids, Kill(p) PROVE NoLostWakeup'
  <2>1. CASE UNCHANGED table
    BY <2>1, SameTableNoLostWakeup
  <2>2. CASE ~UNCHANGED table
    <3>1. PICK s \in Slot :
            /\ state'  = [state EXCEPT ![s] =
                            IF @ = "SLEEPING" THEN "RUNNABLE" ELSE @]
            /\ UNCHANGED <<pid, parent, chan>>
      BY <1>6, <2>2 DEF Kill, Refuse
    <3>2. \A t \in Slot : state'[t] \in {state[t], "RUNNABLE"}
      BY <3>1 DEF IInv, TypeOK
    <3>3. QED
      BY <3>1, <3>2, NoNewZombieNoNewSleeper
  <2>3. QED
    BY <2>1, <2>2
<1>7. CASE scheduler
  <2>1. \A t \in Slot : state'[t] \in {state[t], "RUNNABLE"}
    BY <1>7 DEF scheduler, Dies, table, IInv, TypeOK
  <2>2. UNCHANGED <<pid, parent, chan>>
    BY <1>7 DEF scheduler, Dies, table
  <2>3. QED
    BY <2>1, <2>2, NoNewZombieNoNewSleeper
<1>8. CASE UNCHANGED vars
  BY <1>8, SameTableNoLostWakeup DEF vars, table
<1>9. QED
  BY <1>1, <1>2, <1>3, <1>4, <1>5, <1>6, <1>7, <1>8 DEF Next

(* No process other than the first sleeps in Wait while one of its         *)
(* children is a zombie: Exit never loses a parent's wakeup.               *)
THEOREM NoWakeupIsLost == Spec => []NoLostWakeup
<1>1. Init => NoLostWakeup
  BY DEF Init, NoLostWakeup, SleepsInWait
<1>2. QED
  BY <1>1, NextNoLostWakeup, Inductive, PTL DEF Spec

(* Only Wait empties a slot of its process, and only a zombie's.           *)
THEOREM OnlyZombiesAreFreed == Spec => OnlyZombiesLeave
<1>1. IInv /\ [Next]_vars =>
        [\A s \in Slot : pid[s] # 0 /\ pid'[s] # pid[s] =>
           state[s] = "ZOMBIE" /\ pid'[s] = 0]_vars
  <2> SUFFICES ASSUME IInv, Next, NEW s \in Slot, pid[s] # 0, pid'[s] # pid[s]
               PROVE  state[s] = "ZOMBIE" /\ pid'[s] = 0
    BY DEF vars
  <2>1. ASSUME NEW p \in Pids, NEW q \in Prios, Fork(p, q) PROVE FALSE
    BY <2>1 DEF Fork, Refuse, table, allocproc, IInv, TypeOK, FreeHasNoPid
  <2>2. ASSUME NEW p \in Pids, Wait(p)
        PROVE  state[s] = "ZOMBIE" /\ pid'[s] = 0
    <3>1. PICK c \in Slot :
            state[c] = "ZOMBIE" /\ pid' = [pid EXCEPT ![c] = 0]
      BY <2>2 DEF Wait, Refuse, table, Reap, FirstZombie, Free, ZombieChildren
    <3>2. QED
      BY <3>1 DEF IInv, TypeOK
  <2>3. CASE UNCHANGED pid
    BY <2>3
  <2>4. QED
    BY <2>1, <2>2, <2>3
       DEF Next, Exit, Sleep, Wakeup, Kill, scheduler, Refuse, Dies, table
<1>2. QED
  BY <1>1, Inductive, PTL DEF Spec, OnlyZombiesLeave

(* A slot that sleeps without a process stays so: Fork takes UNUSED slots  *)
(* only, and Wait frees children, which have a process.                    *)
THEOREM LostSlotsAreLost == Spec => LostSlotsStayLost
<1>1. IInv /\ [Next]_vars =>
        [\A s \in Slot : pid[s] = 0 /\ state[s] # "UNUSED" =>
           pid'[s] = 0 /\ state'[s] # "UNUSED"]_vars
  <2> SUFFICES ASSUME IInv, Next, NEW s \in Slot, pid[s] = 0, state[s] # "UNUSED"
               PROVE  pid'[s] = 0 /\ state'[s] # "UNUSED"
    BY DEF vars
  <2> DEFINE Lost == pid'[s] = 0 /\ state'[s] # "UNUSED"
  <2>1. ASSUME NEW p \in Pids, NEW q \in Prios, Fork(p, q) PROVE Lost
    BY <2>1 DEF Fork, Refuse, table, allocproc, IInv, TypeOK
  <2>2. ASSUME NEW p \in Pids, Exit(p) PROVE Lost
    <3>1. UNCHANGED pid
      BY <2>2 DEF Exit, Refuse, Dies, table
    <3>2. UNCHANGED state \/ \E r \in Slot : state' = [t \in Slot |-> NextState(r, t)]
      BY <2>2 DEF Exit, Refuse, Dies, table
    <3>3. QED
      BY <3>1, <3>2 DEF NextState, wakeup1
  <2>3. ASSUME NEW p \in Pids, Wait(p) PROVE Lost
    <3>1. CASE \E c \in Slot : parent[c] # NULL /\ pid' = [pid EXCEPT ![c] = 0]
                               /\ state' = [state EXCEPT ![c] = "UNUSED"]
      BY <3>1 DEF IInv, TypeOK, Parented
    <3>2. CASE UNCHANGED pid /\ (UNCHANGED state \/ \E w \in Slot :
                                   state' = [state EXCEPT ![w] = "SLEEPING"])
      BY <3>2 DEF IInv, TypeOK
    <3>3. \A w \in Slot : w # NULL
      BY ProcTableAssumption DEF Slot, NULL
    <3>4. QED
      BY <2>3, <3>1, <3>2, <3>3
         DEF Wait, Refuse, table, Reap, FirstZombie, Free, ZombieChildren, Children
  <2>4. ASSUME NEW p \in Pids, NEW c \in Chans, Sleep(p, c) PROVE Lost
    BY <2>4 DEF Sleep, Refuse, table, IInv, TypeOK
  <2>5. ASSUME NEW c \in Chans, Wakeup(c) PROVE Lost
    BY <2>5 DEF Wakeup, wakeup1
  <2>6. ASSUME NEW p \in Pids, Kill(p) PROVE Lost
    BY <2>6 DEF Kill, Refuse, table, IInv, TypeOK
  <2>7. CASE scheduler
    BY <2>7 DEF scheduler, Dies, table, IInv, TypeOK
  <2>8. QED
    BY <2>1, <2>2, <2>3, <2>4, <2>5, <2>6, <2>7 DEF Next
<1>2. QED
  BY <1>1, Inductive, PTL DEF Spec, LostSlotsStayLost

-----------------------------------------------------------------------------
(* A caller that never passes 0 finds only slots with a process, so it     *)
(* sleeps, kills and waits for nothing that is free.                       *)
LEMMA NextRealPids ==
  IInv /\ RealPidsAreSafe /\ [Next]_vars => RealPidsAreSafe'
<1> SUFFICES ASSUME IInv, RealPidsAreSafe, [Next]_vars, 0 \notin Pids
             PROVE  RealPidsAreSafe'
  BY DEF RealPidsAreSafe
<1>1. ASSUME NEW p \in Pids, NEW q \in Prios, Fork(p, q) PROVE RealPidsAreSafe'
  <2>1. CASE Refuse("Fork", -1)
    BY <2>1 DEF Refuse, Returns, table, RealPidsAreSafe
  <2>2. CASE ~Refuse("Fork", -1)
    <3>1. PICK n \in Slot :
            /\ state' = [state EXCEPT ![n] = "RUNNABLE"]
            /\ pid'   = [pid EXCEPT ![n] = nextpid]
            /\ UNCHANGED <<killed, fate>>
      BY <1>1, <2>2 DEF Fork, NewPid, Returns
    <3>2. nextpid > 0
      BY ProcTableAssumption
         DEF IInv, TypeOK, PidsUnique, Parented, Slot, initproc
    <3>3. state'[n] # "UNUSED" /\ pid'[n] # 0
      BY <3>1, <3>2 DEF IInv, TypeOK
    <3>4. \A s \in Slot \ {n} : state'[s] = state[s] /\ pid'[s] = pid[s]
      BY <3>1 DEF IInv, TypeOK
    <3>5. QED
      BY <3>1, <3>3, <3>4 DEF RealPidsAreSafe
  <2>3. QED
    BY <2>1, <2>2
<1>2. ASSUME NEW p \in Pids, Exit(p) PROVE RealPidsAreSafe'
  <2>1. CASE \E v \in Int : Refuse("Exit", v)
    BY <2>1 DEF Refuse, Returns, table, RealPidsAreSafe
  <2>2. CASE ~\E v \in Int : Refuse("Exit", v)
    <3>1. PICK x \in Slot \ {initproc} :
            /\ findproc(p, x)
            /\ \/ parent[x] = NULL
               \/ /\ state' = [t \in Slot |-> NextState(x, t)]
                  /\ UNCHANGED <<pid, killed, fate>>
      BY <1>2, <2>2 DEF Exit, Returns
    <3>2. pid[x] # 0 /\ parent[x] # NULL
      BY <3>1 DEF findproc, IInv, Parented
    <3>3. UNCHANGED <<pid, killed, fate>>
      BY <3>1, <3>2
    <3>4. \A t \in Slot : state'[t] = "UNUSED" <=> state[t] = "UNUSED"
      <4> SUFFICES ASSUME NEW t \in Slot
                   PROVE  state'[t] = "UNUSED" <=> state[t] = "UNUSED"
        OBVIOUS
      <4>1. CASE t = x \/ t \in Children(x)
        <5>1. pid[t] # 0
          BY <3>2, <4>1, ProcTableAssumption
             DEF Children, IInv, Parented, Slot, NULL, initproc
        <5>2. QED
          BY <3>1, <3>2, <4>1, <5>1 DEF NextState, RealPidsAreSafe
      <4>2. CASE ~(t = x \/ t \in Children(x))
        BY <3>1, <3>2, <4>2 DEF NextState, wakeup1
      <4>3. QED
        BY <4>1, <4>2
    <3>5. QED
      BY <3>3, <3>4 DEF RealPidsAreSafe
  <2>3. QED
    BY <2>1, <2>2
<1>3. ASSUME NEW s \in Slot, pid[s] # 0,
             state' = [state EXCEPT ![s] = "SLEEPING"]
                \/ state' = [state EXCEPT ![s] =
                               IF @ = "SLEEPING" THEN "RUNNABLE" ELSE @],
             killed' = killed \/ killed' = [killed EXCEPT ![s] = TRUE],
             UNCHANGED <<pid, fate>>
      PROVE  RealPidsAreSafe'
  <2>1. \A t \in Slot : state'[t] = "UNUSED" <=> state[t] = "UNUSED"
    BY <1>3 DEF IInv, TypeOK, RealPidsAreSafe
  <2>2. \A t \in Slot \ {s} : killed'[t] = killed[t]
    BY <1>3 DEF IInv, TypeOK
  <2>3. QED
    BY <1>3, <2>1, <2>2 DEF RealPidsAreSafe
<1>4. ASSUME NEW p \in Pids, Wait(p) PROVE RealPidsAreSafe'
  <2>1. CASE \E v \in Int : Refuse("Wait", v)
    BY <2>1 DEF Refuse, Returns, table, RealPidsAreSafe
  <2>2. CASE \E w \in Slot : Reap(w)
    <3>1. PICK c \in Slot :
            /\ state'  = [state EXCEPT ![c] = "UNUSED"]
            /\ pid'    = [pid EXCEPT ![c] = 0]
            /\ killed' = [killed EXCEPT ![c] = FALSE]
            /\ UNCHANGED fate
      BY <2>2 DEF Reap, Free, Returns
    <3>2. state'[c] = "UNUSED" /\ pid'[c] = 0 /\ killed'[c] = FALSE
      BY <3>1 DEF IInv, TypeOK
    <3>3. \A s \in Slot \ {c} :
            state'[s] = state[s] /\ pid'[s] = pid[s] /\ killed'[s] = killed[s]
      BY <3>1 DEF IInv, TypeOK
    <3>4. QED
      BY <3>1, <3>2, <3>3 DEF RealPidsAreSafe
  <2>3. CASE \E w \in Slot : /\ findproc(p, w)
                             /\ state' = [state EXCEPT ![w] = "SLEEPING"]
                             /\ UNCHANGED <<pid, killed, fate>>
    BY <1>3, <2>3 DEF findproc
  <2>4. QED
    BY <1>4, <2>1, <2>2, <2>3 DEF Wait, Returns
<1>5. ASSUME NEW p \in Pids, NEW c \in Chans, Sleep(p, c) PROVE RealPidsAreSafe'
  <2>1. CASE Refuse("Sleep", -3)
    BY <2>1 DEF Refuse, Returns, table, RealPidsAreSafe
  <2>2. CASE ~Refuse("Sleep", -3)
    BY <1>3, <1>5, <2>2 DEF Sleep, findproc, Returns
  <2>3. QED
    BY <2>1, <2>2
<1>6. ASSUME NEW c \in Chans, Wakeup(c) PROVE RealPidsAreSafe'
  BY <1>6 DEF Wakeup, wakeup1, Returns, RealPidsAreSafe
<1>7. ASSUME NEW p \in Pids, Kill(p) PROVE RealPidsAreSafe'
  <2>1. CASE Refuse("Kill", -1)
    BY <2>1 DEF Refuse, Returns, table, RealPidsAreSafe
  <2>2. CASE ~Refuse("Kill", -1)
    BY <1>3, <1>7, <2>2 DEF Kill, findproc, Returns
  <2>3. QED
    BY <2>1, <2>2
<1>8. CASE scheduler
  <2>1. /\ UNCHANGED <<pid, killed>>
        /\ fate' = "SIGFPE" \/ UNCHANGED fate
    BY <1>8 DEF scheduler, Dies, table, Returns
  <2>2. \A t \in Slot : state'[t] = "UNUSED" <=> state[t] = "UNUSED"
    BY <1>8, ProcTableAssumption
       DEF scheduler, Dies, table, IInv, TypeOK, Parented, curr_proc
  <2>3. QED
    BY <2>1, <2>2 DEF RealPidsAreSafe
<1>9. CASE UNCHANGED vars
  BY <1>9 DEF vars, RealPidsAreSafe
<1>10. QED
  BY <1>1, <1>2, <1>4, <1>5, <1>6, <1>7, <1>8, <1>9 DEF Next

(* Callers that pass real pids only never lose a slot, never leave a kill  *)
(* in a free one, and never bring the program down on a null parent.       *)
THEOREM RealPidsStaySafe == Spec => []RealPidsAreSafe
<1>1. Init => RealPidsAreSafe
  BY ProcTableAssumption DEF Init, RealPidsAreSafe, initproc
<1>2. QED
  BY <1>1, NextRealPids, Inductive, PTL DEF Spec

-----------------------------------------------------------------------------
(* The table implements the pool of pids: Fork allocates, Wait's reap      *)
(* frees, and every other call is a stutter.                               *)

Live == {pid[s] : s \in Slot} \ {0}

LEMMA PidsFit ==
  ASSUME NEW f \in [Slot -> Nat]
  PROVE  Cardinality({f[s] : s \in Slot} \ {0}) <= NPROC
<1> DEFINE Held == {f[s] : s \in Slot}
<1>1. IsFiniteSet(Slot) /\ Cardinality(Slot) = NPROC
  BY FS_Interval, ProcTableAssumption DEF Slot
<1>2. f \in Surjection(Slot, Held)
  BY DEF Surjection
<1>3. /\ IsFiniteSet(Held)
      /\ Cardinality(Held) <= NPROC
      /\ Cardinality(Held) \in Nat
  BY <1>1, <1>2, FS_Surjection, FS_CardinalityType
<1>4. Cardinality(Held \ {0}) <= Cardinality(Held) /\ Cardinality(Held \ {0}) \in Nat
  BY <1>3, FS_Subset, FS_CardinalityType
<1>5. QED
  BY <1>3, <1>4, ProcTableAssumption

LEMMA ForkAllocates ==
  ASSUME NEW p \in Pids, NEW q \in Prios, IInv, IInv', Fork(p, q)
  PROVE  Pool!Alloc \/ UNCHANGED <<Live, nextpid>>
<1>1. CASE Refuse("Fork", -1)
  BY <1>1 DEF Refuse, table, Live
<1>2. CASE ~Refuse("Fork", -1)
  <2>1. PICK n \in Slot :
          /\ allocproc(n)
          /\ pid'     = [pid EXCEPT ![n] = nextpid]
          /\ nextpid' = nextpid + 1
    BY <1>2 DEF Fork, NewPid
  <2>2. nextpid # 0 /\ pid[n] = 0
    BY <2>1, ProcTableAssumption
       DEF IInv, TypeOK, PidsUnique, Parented, FreeHasNoPid, allocproc, Slot,
           initproc
  <2>3. pid'[n] = nextpid /\ \A s \in Slot \ {n} : pid'[s] = pid[s]
    BY <2>1 DEF IInv, TypeOK
  <2>4. Live' = Live \cup {nextpid}
    BY <2>2, <2>3 DEF Live
  <2>5. Cardinality(Live') <= NPROC
    BY PidsFit DEF IInv, TypeOK, Live
  <2>6. QED  (* PidPool's Cardinality is the same operator by another name *)
    BY <2>1, <2>4, <2>5 DEF Pool!Alloc, Live, Cardinality, Pool!Cardinality
<1>3. QED
  BY <1>1, <1>2

LEMMA ReapFrees ==
  ASSUME NEW w \in Slot, IInv, Reap(w)
  PROVE  Pool!Free
<1>1. PICK c \in Slot :
        /\ parent[c] = w
        /\ pid' = [pid EXCEPT ![c] = 0]
        /\ UNCHANGED nextpid
  BY DEF Reap, FirstZombie, Free, ZombieChildren, Children
<1>2. pid'[c] = 0 /\ \A s \in Slot \ {c} : pid'[s] = pid[s]
  BY <1>1 DEF IInv, TypeOK
<1>3. c # initproc /\ pid[c] # 0
  BY <1>1, ProcTableAssumption DEF IInv, Parented, Slot, NULL, initproc
<1>4. \A s \in Slot \ {c} : pid[s] # pid[c]
  BY <1>3 DEF IInv, PidsUnique
<1>5. pid[c] \in Live \ {1}
  <2>1. initproc \in Slot /\ pid[initproc] = 1
    BY ProcTableAssumption DEF IInv, Parented, Slot, initproc
  <2>2. QED
    BY <1>3, <1>4, <2>1 DEF Live
<1>6. Live' = Live \ {pid[c]}
  BY <1>2, <1>4 DEF Live
<1>7. QED
  BY <1>1, <1>5, <1>6 DEF Pool!Free, Live

(* The pids in use and the counter behave as PidPool says: no pid is ever  *)
(* handed out twice, the first is never given back, and at most NPROC are  *)
(* in use, for any number of slots.                                        *)
THEOREM ImplementsPool == Spec => PoolSpec
<1>1. Init => Pool!Init
  <2> SUFFICES ASSUME Init  PROVE {pid[s] : s \in Slot} \ {0} = {1} /\ nextpid = 1 + 1
    BY DEF Pool!Init
  <2>1. initproc \in Slot /\ nextpid = 1 + 1
    BY ProcTableAssumption DEF Init, Slot, initproc
  <2>2. pid[initproc] = 1 /\ \A s \in Slot \ {initproc} : pid[s] = 0
    BY <2>1 DEF Init
  <2>3. QED  BY <2>1, <2>2
<1>2. IInv /\ IInv' /\ [Next]_vars =>
        [Pool!Alloc \/ Pool!Free]_<<{pid[s] : s \in Slot} \ {0}, nextpid>>
  <2> SUFFICES ASSUME IInv, IInv', [Next]_vars
               PROVE  Pool!Alloc \/ Pool!Free \/ UNCHANGED <<Live, nextpid>>
    BY DEF Live
  <2>1. ASSUME NEW p \in Pids, NEW q \in Prios, Fork(p, q)
        PROVE  Pool!Alloc \/ UNCHANGED <<Live, nextpid>>
    BY <2>1, ForkAllocates
  <2>2. ASSUME NEW p \in Pids, Wait(p)
        PROVE  Pool!Free \/ UNCHANGED <<Live, nextpid>>
    BY <2>2, ReapFrees DEF Wait, Refuse, table, Live
  <2>3. CASE UNCHANGED <<pid, nextpid>>
    BY <2>3 DEF Live
  <2>4. QED
    BY <2>1, <2>2, <2>3
       DEF Next, Exit, Sleep, Wakeup, Kill, scheduler, Refuse, Dies, table, vars
<1>3. QED
  BY <1>1, <1>2, Inductive, PTL DEF Spec, PoolSpec, Pool!Spec

-----------------------------------------------------------------------------
(* Callers may name the first process and give the default priority.       *)
ShellCallers == 1 \in Pids /\ 1024 \in Prios

LEMMA CurrentIsFirst == IInv => Current = 1
BY DEF IInv, Parented, Current, curr_proc

(* Commands that make a call on the table make one of its steps.           *)
LEMMA CommandsAreCalls ==
  ASSUME ShellCallers, IInv, fate = "running",
         forkCmd \/ waitCmd \/ exitCmd \/ sleepCmd \/ wakeupCmd \/ local_scheduler
  PROVE  Next
<1> USE CurrentIsFirst
<1>1. CASE forkCmd
  BY <1>1 DEF forkCmd, Next, ShellCallers
<1>2. CASE waitCmd
  BY <1>2 DEF waitCmd, Next, ShellCallers
<1>3. CASE exitCmd
  BY <1>3 DEF exitCmd, Next, ShellCallers
<1>4. CASE sleepCmd
  BY <1>4 DEF sleepCmd, Next, ShellCallers
<1>5. CASE wakeupCmd \/ local_scheduler
  BY <1>5 DEF wakeupCmd, local_scheduler, Next
<1>6. QED
  BY <1>1, <1>2, <1>3, <1>4, <1>5

(* The other steps of main.c leave the table alone.                        *)
LEMMA ShellStepIsTableStep ==
  ASSUME ShellCallers, IInv, [SNext]_svars
  PROVE  [Next]_vars
<1>1. CASE SNext /\ (executeCmd => UNCHANGED vars)
  BY <1>1 DEF SNext, quit, vars
<1>2. ASSUME SNext, executeCmd, ~UNCHANGED vars
      PROVE  Next
  BY <1>2, CommandsAreCalls DEF SNext, executeCmd, vars
<1>3. CASE UNCHANGED svars
  BY <1>3 DEF svars
<1>4. QED
  BY <1>1, <1>2, <1>3

(* main.c drives the table as proc.c's callers are assumed to.             *)
THEOREM ShellDrivesTable == ShellCallers => (ShellSpec => Spec)
<1> SUFFICES ASSUME ShellCallers
             PROVE  ShellSpec => Spec
  OBVIOUS
<1>1. SInit => Init /\ IInv
  BY InitIInv DEF SInit
<1>2. IInv /\ [SNext]_svars => [Next]_vars /\ IInv'
  BY ShellStepIsTableStep, NextIInv
<1>3. QED
  BY <1>1, <1>2, PTL DEF ShellSpec, Spec

(* So no sequence of commands makes a pid ambiguous, a process without a   *)
(* parent, or a process sleep in wait with a zombie child, and only        *)
(* zombies leave the table.                                                *)
THEOREM ShellKeepsTable ==
  ShellCallers =>
    (ShellSpec => [](PidsUnique /\ Parented /\ NoLostWakeup) /\ OnlyZombiesLeave)
<1> SUFFICES ASSUME ShellCallers
             PROVE  ShellSpec =>
                      [](PidsUnique /\ Parented /\ NoLostWakeup) /\ OnlyZombiesLeave
  OBVIOUS
<1>1. QED
  BY ShellDrivesTable, PidsAreUnique, AlwaysParented, NoWakeupIsLost,
     OnlyZombiesAreFreed, PTL
=============================================================================
