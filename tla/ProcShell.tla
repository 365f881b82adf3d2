----------------------------- MODULE ProcShell ------------------------------
(***************************************************************************)
(* The command shell of schproj/main.c: main reads a command and calls     *)
(* executeCmd, which turns it into calls on the process table.  Numbers    *)
(* come from atoi, so any command may name any process.  A command without *)
(* a pid means the current process.  What is printed is left out.          *)
(***************************************************************************)
EXTENDS ProcTable

CONSTANT MaxQuantums  \* bound: rounds of one timer command

VARIABLES
  curr_proc_id,  \* set by Setpid; no command reads it
  quantums,      \* rounds of the timer loop still to run
  done           \* has main returned?

shell == <<curr_proc_id, quantums, done>>
svars == <<vars, shell>>

SInit ==
  /\ Init
  /\ curr_proc_id = 1   \* what userinit returned
  /\ quantums = 0
  /\ done = FALSE

Current == pid[curr_proc]

(* fork time [prio [pid]].  With more parameters it prints "Error" and     *)
(* calls Fork all the same, with a pid and a priority nobody has set.      *)
forkCmd ==
  \/ Fork(Current, 1024)
  \/ \E q \in Prios : Fork(Current, q)
  \/ \E p \in Pids, q \in Prios : Fork(p, q)

waitCmd   == Wait(Current) \/ \E p \in Pids : Wait(p)
exitCmd   == Exit(Current) \/ \E p \in Pids : Exit(p)
sleepCmd  == \E c \in Chans : Sleep(Current, c) \/ \E p \in Pids : Sleep(p, c)
wakeupCmd == \E c \in Chans : Wakeup(c)

local_scheduler == scheduler

setpidCmd == \E p \in Pids : curr_proc_id' = p

timerCmd == \E n \in 0..MaxQuantums : quantums' = n

(* The timer's loop runs to its end before the next command is read.       *)
executeCmd ==
  \/ /\ quantums = 0
     /\ forkCmd \/ waitCmd \/ exitCmd \/ sleepCmd \/ wakeupCmd \/ local_scheduler
     /\ UNCHANGED shell
  \/ /\ quantums > 0 /\ local_scheduler
     /\ quantums' = quantums - 1
     /\ UNCHANGED <<curr_proc_id, done>>
  \/ /\ quantums = 0 /\ setpidCmd
     /\ UNCHANGED <<vars, quantums, done>>
  \/ /\ quantums = 0 /\ timerCmd
     /\ UNCHANGED <<vars, curr_proc_id, done>>

quit == quantums = 0 /\ done' = TRUE /\ UNCHANGED <<vars, curr_proc_id, quantums>>

SNext == fate = "running" /\ ~done /\ (executeCmd \/ quit)

ShellSpec == SInit /\ [][SNext]_svars
=============================================================================
