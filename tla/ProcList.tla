------------------------------ MODULE ProcList ------------------------------
(***************************************************************************)
(* The process queue of firstlab/proc.c and the commands of                *)
(* firstlab/main.c: a doubly linked list in order of priority, walked one  *)
(* process at a time.  enqueue_proc and kill are one action per iteration; *)
(* get_pid and find_proc, which change nothing, are operators.             *)
(*                                                                         *)
(* Processes are never freed, so a pointer to a process is its pid.  The   *)
(* state of a process, which is EMBRYO for all but kernel_proc and read by *)
(* print_proc only, and the context are not modelled.  A definition marked *)
(* "fault" is a wrong variant of the one after it.                         *)
(***************************************************************************)
EXTENDS Integers

CONSTANTS
  START_PID,   \* 1024
  MaxProcs,    \* bound: processes ever created, kernel_proc included
  Names,       \* process names
  kernel_name, \* "kernel_process"
  Priorities   \* what atoi makes of the priorities of fork commands

ASSUME ProcListAssumption ==
  /\ START_PID \in Nat \ {0}
  /\ MaxProcs \in Nat \ {0}
  /\ kernel_name \in Names
  /\ Priorities \subseteq Int

NULL == 0
kernel_proc == START_PID
Proc == START_PID..(START_PID + MaxProcs)

VARIABLES
  pid,        \* the next pid
  name, priority, parent, next, prev,  \* of each process, created or not
  pc,         \* "idle", "enqueue" or "kill"
  cur,        \* the process the loop is at, or NULL
  before,     \* enqueue_proc's prev
  target,     \* the process to enqueue, or the pid to kill
  fate,       \* "running" or "SIGSEGV"
  gone        \* history: the processes kill has taken off the list

procs == <<pid, name, priority, parent>>
links == <<next, prev, gone>>
loop  == <<pc, cur, before, target>>
vars  == <<procs, links, loop, fate>>

(* After bootstrap.                                                        *)
Init ==
  /\ pid = START_PID + 1
  /\ name = [p \in Proc |-> kernel_name]
  /\ priority = [p \in Proc |-> 0]
  /\ parent = [p \in Proc |-> IF p = kernel_proc THEN kernel_proc ELSE NULL]
  /\ next = [p \in Proc |-> NULL]
  /\ prev = [p \in Proc |-> NULL]
  /\ pc = "idle" /\ cur = NULL /\ before = NULL /\ target = NULL
  /\ fate = "running"
  /\ gone = {}

(* The k-th process from kernel_proc, or NULL.                             *)
walk[k \in Nat] ==
  IF k = 0 THEN kernel_proc
  ELSE IF walk[k - 1] = NULL THEN NULL ELSE next[walk[k - 1]]

(* In the list: created, enqueued and not killed (see AllReached).         *)
Listed ==
  ({p \in Proc : p < pid} \ gone) \ (IF pc = "enqueue" THEN {target} ELSE {})

Named(n, k) == walk[k] # NULL /\ name[walk[k]] = n

(* get_pid returns p: the first process of that name, or 0.  find_proc of  *)
(* the result is then that process, or NULL.                               *)
get_pid(n, p) ==
  \/ /\ p \in Listed
     /\ \E k \in 0..MaxProcs :
          walk[k] = p /\ Named(n, k) /\ \A j \in 0..(k - 1) : ~Named(n, j)
  \/ p = NULL /\ \A k \in 0..MaxProcs : ~Named(n, k)

Done == pc' = "idle" /\ cur' = NULL /\ before' = NULL /\ target' = NULL

-----------------------------------------------------------------------------
Accepted(prio) == prio > 0

(* forq refuses other priorities; new_proc takes the next pid, and no      *)
(* parent if there is none of that name.                                   *)
Fork(n, prio, parentname) ==
  /\ pc = "idle" /\ Accepted(prio)
  /\ pid < START_PID + MaxProcs
  /\ name' = [name EXCEPT ![pid] = n]
  /\ priority' = [priority EXCEPT ![pid] = prio]
  /\ \E p \in Proc \cup {NULL} :
       get_pid(parentname, p) /\ parent' = [parent EXCEPT ![pid] = p]
  /\ pid' = pid + 1
  /\ pc' = "enqueue" /\ cur' = kernel_proc /\ before' = NULL /\ target' = pid
  /\ UNCHANGED <<links, fate>>

(* fault: a newcomer goes before those of its priority                     *)
BelongsBeforeEqual == cur # NULL /\ priority[target] <= priority[cur]

(* The process to enqueue goes before cur.                                 *)
Belongs == cur # NULL /\ priority[target] < priority[cur]

Pass ==
  /\ pc = "enqueue" /\ cur # NULL /\ ~Belongs
  /\ before' = cur
  /\ cur' = next[cur]
  /\ UNCHANGED <<procs, links, pc, target, fate>>

(* fault: the successor does not point back                                *)
PrevAfterInsertOneWay == [prev EXCEPT ![target] = before]

PrevAfterInsert ==
  [p \in Proc |-> IF p = target THEN IF cur # NULL THEN prev[cur] ELSE before
                  ELSE IF p = cur THEN target ELSE prev[p]]

Insert ==
  /\ pc = "enqueue" /\ (Belongs \/ cur = NULL)
  /\ next' = [next EXCEPT ![before] = target, ![target] = cur]
  /\ prev' = PrevAfterInsert
  /\ Done
  /\ UNCHANGED <<procs, fate, gone>>

Kill(n) ==
  /\ pc = "idle"
  /\ \E p \in Proc \cup {NULL} : get_pid(n, p) /\ target' = p
  /\ pc' = "kill" /\ cur' = kernel_proc
  /\ UNCHANGED <<procs, links, before, fate>>

(* The loop ends at the last process without looking at it.                *)
GiveUp ==
  /\ pc = "kill" /\ next[cur] = NULL
  /\ Done
  /\ UNCHANGED <<procs, links, fate>>

(* fault: the loop goes on from where it is                                *)
KillPassStays ==
  /\ pc = "kill" /\ next[cur] # NULL /\ cur # target
  /\ UNCHANGED vars

KillPass ==
  /\ pc = "kill" /\ next[cur] # NULL /\ cur # target
  /\ cur' = next[cur]
  /\ UNCHANGED <<procs, links, pc, before, target, fate>>

(* fault: the predecessor is left as it is                                 *)
NextAfterUnlinkOneWay == next

NextAfterUnlink == [next EXCEPT ![prev[cur]] = next[cur]]

(* The kernel process has no predecessor to unlink it from.                *)
Unlink ==
  /\ pc = "kill" /\ next[cur] # NULL /\ cur = target
  /\ \/ prev[cur] = NULL /\ fate' = "SIGSEGV" /\ UNCHANGED <<links, loop>>
     \/ /\ prev[cur] # NULL
        /\ next' = NextAfterUnlink
        /\ prev' = [prev EXCEPT ![next[cur]] = prev[cur]]
        /\ gone' = gone \cup {cur}
        /\ Done
        /\ UNCHANGED fate
  /\ UNCHANGED procs

(* printprocs and printppid read the pid of the parent, printpid does not. *)
PrintParents(S) ==
  /\ pc = "idle"
  /\ \E p \in S : parent[p] = NULL
  /\ fate' = "SIGSEGV"
  /\ UNCHANGED <<procs, links, loop>>

printprocs == PrintParents(Listed)
printppid(n) == PrintParents({p \in Listed : get_pid(n, p)})

Iterate == Pass \/ Insert \/ GiveUp \/ KillPass \/ Unlink

Next ==
  /\ fate = "running"
  /\ \/ \E n \in Names, q \in Priorities, m \in Names : Fork(n, q, m)
     \/ \E n \in Names : Kill(n)
     \/ Iterate
     \/ printprocs
     \/ \E n \in Names : printppid(n)

(* A loop that can go on does.                                             *)
Spec == Init /\ [][Next]_vars /\ WF_vars(fate = "running" /\ Iterate)

-----------------------------------------------------------------------------
(* Type invariant: only kernel_proc has priority 0.                        *)
TypeOK ==
  /\ pid \in (START_PID + 1)..(START_PID + MaxProcs)
  /\ name \in [Proc -> Names]
  /\ priority \in [Proc -> Nat]
  /\ \A p \in Proc : p < pid /\ priority[p] = 0 => p = kernel_proc
  /\ parent \in [Proc -> Proc \cup {NULL}]
  /\ next \in [Proc -> Proc \cup {NULL}]
  /\ prev \in [Proc -> Proc \cup {NULL}]
  /\ pc \in {"idle", "enqueue", "kill"}
  /\ cur \in Proc \cup {NULL}
  /\ before \in Proc \cup {NULL}
  /\ target \in Proc \cup {NULL}
  /\ fate \in {"running", "SIGSEGV"}
  /\ gone \subseteq Proc

(* The two directions of the list agree, and neither leads to a process    *)
(* that was killed or is still to be enqueued.                             *)
LinksAgree ==
  \A p \in Listed :
    /\ next[p] \in Listed \cup {NULL} /\ prev[p] \in Listed \cup {NULL}
    /\ next[p] # NULL => prev[next[p]] = p
    /\ prev[p] # NULL => next[prev[p]] = p
    /\ prev[p] = NULL <=> p = kernel_proc

(* Priorities never decrease along the list, and of two neighbours of one  *)
(* priority the older comes first.                                         *)
Ordered ==
  \A p \in Listed : next[p] # NULL =>
    \/ priority[p] < priority[next[p]]
    \/ priority[p] = priority[next[p]] /\ p < next[p]

(* Every process that was not killed is found on a walk from kernel_proc.  *)
AllReached == Listed \subseteq {walk[k] : k \in 0..MaxProcs}

(* Every command is over some time.                                        *)
CommandsEnd == pc # "idle" ~> pc = "idle" \/ fate # "running"

Entry(p) == [pid |-> p, priority |-> priority[p]]

(* The processes of the list in the order of the walk.                     *)
Entries ==
  [k \in {j + 1 : j \in {i \in 0..MaxProcs : walk[i] # NULL}} |->
     Entry(walk[k - 1])]

Queue == INSTANCE PriorityQueue WITH
           First <- [pid |-> kernel_proc, priority |-> 0],
           queue <- Entries

QueueSpec == Queue!Spec
=============================================================================
