----------------------------- MODULE ProcTable -----------------------------
(***************************************************************************)
(* The process table of schproj/proc.c: NPROC slots, each a struct proc,   *)
(* and the calls that change them (Fork, Exit, Wait, Sleep, Wakeup, Kill,  *)
(* scheduler).  The program is single threaded and its locks are dummies,  *)
(* so every call is one step.  What makes it delicate is that processes    *)
(* are named by pid while parent links are raw pointers to slots, that     *)
(* slots are recycled, and that any call may come for any process in any   *)
(* state, in any order.                                                    *)
(*                                                                         *)
(* A pointer to a slot is the slot's index; the null pointer is NULL.      *)
(* Registers, files, names, sizes and time_to_c are not modelled: no call  *)
(* reads them to decide anything.                                          *)
(*                                                                         *)
(* A definition marked "fault" is a wrong variant of the one after it: TLC *)
(* shows with it that the properties can fail.                             *)
(***************************************************************************)
EXTENDS Integers

CONSTANTS
  NPROC,   \* number of slots (64 in proc.h)
  Pids,    \* the pids callers pass; 0 is what atoi makes of a non-number
  Chans,   \* the channels callers pass to Sleep and Wakeup
  Prios,   \* the priorities callers pass to Fork
  MaxPid   \* bound: Fork is not called once nextpid has passed it

ASSUME ProcTableAssumption ==
  /\ NPROC \in Nat \ {0}
  /\ Pids \subseteq Int
  /\ Chans \subseteq Int
  /\ Prios \subseteq Int
  /\ MaxPid \in Nat

VARIABLES
  state,    \* procstate of each slot
  pid,      \* process id in each slot, 0 if none
  parent,   \* slot the parent pointer of each slot points to, or NULL
  chan,     \* channel each slot last slept on
  killed,   \* killed flag of each slot
  prio,     \* priority of each slot
  nextpid,  \* next process id to hand out
  ret,      \* what the last call returned: the call and its value
  fate      \* "running", or the signal that ended the program

vars == <<state, pid, parent, chan, killed, prio, nextpid, ret, fate>>

NULL == 0
Slot == 1..NPROC
procstate == {"UNUSED", "EMBRYO", "SLEEPING", "RUNNABLE", "RUNNING", "ZOMBIE"}

(* userinit allocates from a zeroed table, so the first process is in the  *)
(* first slot; nothing ever assigns curr_proc again.                       *)
initproc  == 1
curr_proc == initproc

(* After pinit and userinit.                                               *)
Init ==
  /\ state   = [s \in Slot |-> IF s = initproc THEN "RUNNING" ELSE "UNUSED"]
  /\ pid     = [s \in Slot |-> IF s = initproc THEN 1 ELSE 0]
  /\ parent  = [s \in Slot |-> NULL]
  /\ chan    = [s \in Slot |-> 0]
  /\ killed  = [s \in Slot |-> FALSE]
  /\ prio    = [s \in Slot |-> IF s = initproc THEN 1024 ELSE 0]
  /\ nextpid = 2
  /\ ret     = <<"userinit", 1>>
  /\ fate    = "running"
-----------------------------------------------------------------------------
(* The two table scans.  findproc(p, s): the scan for pid p stops at s.    *)
(* It compares pids only, so findproc(0, s) stops at the first slot that   *)
(* has no process.                                                         *)
findproc(p, s) ==
  /\ pid[s] = p
  /\ \A t \in Slot : t < s => pid[t] # p

NotFound(p) == \A s \in Slot : pid[s] # p

(* fault: looks for a slot without a pid                                   *)
allocprocByPid(s) ==
  /\ pid[s] = 0
  /\ \A t \in Slot : t < s => pid[t] # 0

(* allocproc(s): the scan for a free slot stops at s.                      *)
allocproc(s) ==
  /\ state[s] = "UNUSED"
  /\ \A t \in Slot : t < s => state[t] # "UNUSED"

TableFull == \A s \in Slot : state[s] # "UNUSED"

Children(s) == {t \in Slot : parent[t] = s}

(* fault: a child that was killed counts as exited                         *)
ZombieOrKilledChildren(s) ==
  {t \in Children(s) : state[t] = "ZOMBIE" \/ killed[t]}

ZombieChildren(s) == {t \in Children(s) : state[t] = "ZOMBIE"}

(* The state of slot t once wakeup1(c) has run over the table.             *)
wakeup1(c, t) ==
  IF state[t] = "SLEEPING" /\ chan[t] = c THEN "RUNNABLE" ELSE state[t]

Returns(call, value) ==
  /\ ret' = <<call, value>>
  /\ UNCHANGED fate

table == <<state, pid, parent, chan, killed, prio, nextpid>>
Refuse(call, value) == Returns(call, value) /\ UNCHANGED table

Dies(signal) == fate' = signal /\ UNCHANGED <<table, ret>>
-----------------------------------------------------------------------------
(* fault: the lowest pid that is not in the table                          *)
LowestPid == CHOOSE p \in 1..nextpid :
  NotFound(p) /\ \A q \in 1..nextpid : NotFound(q) => p <= q

NewPid == nextpid

(* Fork does not reset killed and chan: the slot keeps what it last held.  *)
Fork(p, prio_) ==
  \/ /\ NotFound(p) \/ TableFull
     /\ Refuse("Fork", -1)
  \/ \E f, n \in Slot :
       /\ findproc(p, f)
       /\ allocproc(n)
       /\ nextpid <= MaxPid
       /\ state'   = [state EXCEPT ![n] = "RUNNABLE"]
       /\ pid'     = [pid EXCEPT ![n] = NewPid]
       /\ parent'  = [parent EXCEPT ![n] = f]
       /\ prio'    = [prio EXCEPT ![n] = prio_]
       /\ nextpid' = nextpid + 1
       /\ Returns("Fork", NewPid)
       /\ UNCHANGED <<chan, killed>>

(* Exit(p) of the process in s wakes the parent, hands the children to     *)
(* initproc as zombies, and leaves the process a zombie: slot t afterwards.*)
(* fault: the parent is not woken                                          *)
NextStateNoWakeup(s, t) ==
  IF t = s \/ t \in Children(s) THEN "ZOMBIE" ELSE state[t]

NextState(s, t) ==
  IF t = s \/ t \in Children(s) THEN "ZOMBIE"
  ELSE wakeup1(pid[parent[s]], t)

(* fault: the children are left without a parent                           *)
NextParentNone(s, t) == IF t \in Children(s) THEN NULL ELSE parent[t]

NextParent(s, t) == IF t \in Children(s) THEN initproc ELSE parent[t]

(* Reading the pid of a null parent ends the program.                      *)
Exit(p) ==
  \/ NotFound(p) /\ Refuse("Exit", -2)
  \/ findproc(p, initproc) /\ Refuse("Exit", -1)
  \/ \E s \in Slot \ {initproc} :
       /\ findproc(p, s)
       /\ \/ parent[s] = NULL /\ Dies("SIGSEGV")
          \/ /\ parent[s] # NULL
             /\ state'  = [t \in Slot |-> NextState(s, t)]
             /\ parent' = [t \in Slot |-> NextParent(s, t)]
             /\ Returns("Exit", 0)
             /\ UNCHANGED <<pid, chan, killed, prio, nextpid>>

(* Sleep marks any process it is given, whatever its state.                *)
Sleep(p, c) ==
  \/ NotFound(p) /\ Refuse("Sleep", -3)
  \/ \E s \in Slot :
       /\ findproc(p, s)
       /\ chan'  = [chan EXCEPT ![s] = c]
       /\ state' = [state EXCEPT ![s] = "SLEEPING"]
       /\ Returns("Sleep", p)
       /\ UNCHANGED <<pid, parent, killed, prio, nextpid>>

(* The first zombie child, in table order, is freed and its pid returned.  *)
FirstZombie(w, c) ==
  c \in ZombieChildren(w) /\ \A d \in ZombieChildren(w) : c <= d

Free(c, nopid, killed_, next_) ==
  /\ state'   = [state EXCEPT ![c] = "UNUSED"]
  /\ pid'     = [pid EXCEPT ![c] = nopid]
  /\ parent'  = [parent EXCEPT ![c] = NULL]
  /\ killed'  = [killed EXCEPT ![c] = killed_]
  /\ nextpid' = next_
  /\ Returns("Wait", pid[c])
  /\ UNCHANGED <<chan, prio>>

(* faults: a freed slot is marked by pid -1; its pid is given back         *)
ReapMarksPid(w) ==
  \E c \in Slot : FirstZombie(w, c) /\ Free(c, -1, FALSE, nextpid)
ReapReturnsPid(w) ==
  \E c \in Slot : FirstZombie(w, c) /\ Free(c, 0, FALSE, nextpid - 1)

Reap(w) == \E c \in Slot : FirstZombie(w, c) /\ Free(c, 0, FALSE, nextpid)

(* With live children only, Wait puts the process to sleep on its own pid. *)
Wait(p) ==
  \/ NotFound(p) /\ Refuse("Wait", -3)
  \/ \E w \in Slot :
       /\ findproc(p, w)
       /\ \/ Reap(w)
          \/ /\ ZombieChildren(w) = {}
             /\ Children(w) = {} \/ killed[w]
             /\ Refuse("Wait", -1)
          \/ /\ ZombieChildren(w) = {}
             /\ Children(w) # {}
             /\ ~killed[w]
             /\ chan'  = [chan EXCEPT ![w] = p]
             /\ state' = [state EXCEPT ![w] = "SLEEPING"]
             /\ Returns("Wait", -2)
             /\ UNCHANGED <<pid, parent, killed, prio, nextpid>>

Wakeup(c) ==
  /\ state' = [t \in Slot |-> wakeup1(c, t)]
  /\ Returns("Wakeup", 0)
  /\ UNCHANGED <<pid, parent, chan, killed, prio, nextpid>>

Kill(p) ==
  \/ NotFound(p) /\ Refuse("Kill", -1)
  \/ \E s \in Slot :
       /\ findproc(p, s)
       /\ killed' = [killed EXCEPT ![s] = TRUE]
       /\ state'  = [state EXCEPT ![s] =
                       IF @ = "SLEEPING" THEN "RUNNABLE" ELSE @]
       /\ Returns("Kill", 0)
       /\ UNCHANGED <<pid, parent, chan, prio, nextpid>>

(* scheduler divides by every slot's prio, used or not, and by a total     *)
(* that starts from an uninitialized variable: a zero priority ends the    *)
(* program, a zero total may.  If it returns, curr_proc is RUNNABLE and    *)
(* nothing has been selected.                                              *)
scheduler ==
  \/ Dies("SIGFPE")
  \/ /\ \A s \in Slot : prio[s] # 0
     /\ state' = [state EXCEPT ![curr_proc] = "RUNNABLE"]
     /\ Returns("scheduler", pid[curr_proc])
     /\ UNCHANGED <<pid, parent, chan, killed, prio, nextpid>>

Next ==
  /\ fate = "running"
  /\ \/ \E p \in Pids, q \in Prios : Fork(p, q)
     \/ \E p \in Pids : Exit(p)
     \/ \E p \in Pids : Wait(p)
     \/ \E p \in Pids, c \in Chans : Sleep(p, c)
     \/ \E c \in Chans : Wakeup(c)
     \/ \E p \in Pids : Kill(p)
     \/ scheduler

Spec == Init /\ [][Next]_vars
-----------------------------------------------------------------------------
(* Type invariant.                                                         *)
TypeOK ==
  /\ state \in [Slot -> procstate]
  /\ pid \in [Slot -> Nat]
  /\ parent \in [Slot -> Slot \cup {NULL}]
  /\ chan \in [Slot -> Int]
  /\ killed \in [Slot -> BOOLEAN]
  /\ prio \in [Slot -> Int]
  /\ nextpid \in Nat
  /\ fate \in {"running", "SIGSEGV", "SIGFPE"}
-----------------------------------------------------------------------------
(* Safety.  A pid belongs to one slot: every lookup by pid means one       *)
(* process.  findproc and every caller of it rest on this, whatever the    *)
(* order in which slots are freed and taken again.                         *)
PidsUnique ==
  /\ \A s, t \in Slot : pid[s] # 0 /\ pid[s] = pid[t] => s = t
  /\ \A s \in Slot : pid[s] < nextpid

(* A process other than the first always has a parent pointer, through     *)
(* every adoption and reuse of slots, and the first process is never freed *)
(* nor adopted: so Exit of a real process never follows a null parent.     *)
Parented ==
  /\ pid[initproc] = 1
  /\ parent[initproc] = NULL
  /\ state[initproc] \notin {"UNUSED", "ZOMBIE"}
  /\ \A s \in Slot \ {initproc} : pid[s] # 0 <=> parent[s] # NULL

(* A caller that passes real pids only never loses a slot and never crashes*)
(* on a null parent: a slot is free exactly if it has no process, and a    *)
(* free slot carries no kill into its next process.                        *)
RealPidsAreSafe ==
  0 \notin Pids =>
    /\ fate # "SIGSEGV"
    /\ \A s \in Slot :
         /\ state[s] = "UNUSED" <=> pid[s] = 0
         /\ state[s] = "UNUSED" => ~killed[s]

(* Wait has put the process in s to sleep on its own pid, and no caller    *)
(* of Sleep uses that channel.                                             *)
SleepsInWait(s) ==
  /\ state[s] = "SLEEPING"
  /\ pid[s] # 0
  /\ chan[s] = pid[s]
  /\ chan[s] \notin Chans

(* No wakeup is lost: a process other than the first that sleeps in Wait   *)
(* has a child to wait for, and none of its children is a zombie already.  *)
NoLostWakeup ==
  \A s \in Slot \ {initproc} : SleepsInWait(s) => ZombieChildren(s) = {}

(* Wait frees zombies only: no call makes a process that is not a zombie   *)
(* disappear from the table.                                               *)
OnlyZombiesLeave ==
  [][\A s \in Slot : pid[s] # 0 /\ pid'[s] # pid[s] =>
       state[s] = "ZOMBIE" /\ pid'[s] = 0]_vars

(* A slot that Sleep(0, c) took from the free list without giving it to a  *)
(* process is lost: no later call frees it or gives it to one.             *)
LostSlotsStayLost ==
  [][\A s \in Slot : pid[s] = 0 /\ state[s] # "UNUSED" =>
       pid'[s] = 0 /\ state'[s] # "UNUSED"]_vars

(* The pids in the table and the counter are a pool of pids that are never *)
(* handed out twice, whatever happens to the slots.                        *)
Pool == INSTANCE PidPool WITH
          Capacity <- NPROC, First <- 1,
          live <- {pid[s] : s \in Slot} \ {0}, next <- nextpid

PoolSpec == Pool!Spec

-----------------------------------------------------------------------------
(* proc.c:184 "Wait for a child process to exit and return its pid".  A    *)
(* child is younger than the process it is a child of.                     *)
WaitReapsOwnChild ==
  [][\A s \in Slot : pid[s] # 0 /\ pid'[s] = 0 =>
       pid[parent[s]] < pid[s]]_vars
=============================================================================
