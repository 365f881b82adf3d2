------------------------------ MODULE ShellRun ------------------------------
(***************************************************************************)
(* The execution of lines by shellproj/sh.c: main reads a line, forks a    *)
(* child that parses it and calls runcmd, and waits.  runcmd forks further *)
(* processes and joins them by pipes.  The processes share the pipes, and  *)
(* which of them hold which end decides who meets the end of its input,    *)
(* who is killed by SIGPIPE, and who waits for whom.                       *)
(*                                                                         *)
(* The system calls and the programs that are executed are not part of the *)
(* repository: they are modelled as the code uses them.  A pipe holds a    *)
(* number of units.  A program is a source, which writes some units and    *)
(* exits, or a filter, which reads to the end of its input and writes a    *)
(* unit for each it reads; a terminal or a file is always at its end.      *)
(* Standard error, cd and the text that is printed are left out, but not   *)
(* that runcmd and the handlers of CTL-C print to standard output, which   *)
(* may be a pipe.                                                          *)
(*                                                                         *)
(* A definition marked "fault" is a wrong variant of the one after it.     *)
(***************************************************************************)
EXTENDS Integers, Sequences, FiniteSets, SequencesExt

CONSTANTS
  NPROC,     \* number of processes the system can run, the shell included
  NPIPE,     \* number of pipes it can have
  Capacity,  \* units a pipe holds
  Units,     \* units a source writes
  Sessions   \* the lines a user types, as parsecmd reads them: sequences

ASSUME ShellRunAssumption ==
  /\ NPROC \in Nat \ {0}
  /\ NPIPE \in Nat
  /\ Capacity \in Nat \ {0}
  /\ Units \in Nat

VARIABLES
  session,      \* the lines the user types
  lines,        \* the number of lines read
  pc,           \* what each process is about to do
  parent,       \* parent of each process
  job,          \* the line each process works for
  path,         \* the way from the root of its tree to the command it runs
  fd,           \* descriptors of each process
  out,          \* units a program has yet to write
  buf,          \* units in each pipe
  failed,       \* has a fork or pipe failed, or a handler left a child?
  interrupted,  \* has CTL-C been typed?
  caught        \* processes that have caught it and have yet to print that

vars == <<session, lines, pc, parent, job, path, fd, out, buf, failed, interrupted, caught>>

Proc == 1..NPROC
Pipe == 1..NPIPE
main == 1
init == 0   \* the process that adopts orphans

(* Descriptor 2 is standard error.  0 and 1 are always open and 3 and 4    *)
(* closed when runcmd calls pipe (see Connected), so that p[0] is 3 and    *)
(* p[1] is 4.                                                              *)
Fd == {0, 1, 3, 4}
P0 == 3
P1 == 4

Closed      == [kind |-> "closed", of |-> 0]
Tty         == [kind |-> "tty", of |-> 0]
File(f)     == [kind |-> "file", of |-> f]
ReadEnd(k)  == [kind |-> "read", of |-> k]
WriteEnd(k) == [kind |-> "write", of |-> k]

AllClosed == [n \in Fd |-> Closed]

Close(f, n) == [f EXCEPT ![n] = Closed]

(* The lowest closed descriptor becomes what is.                           *)
Opened(f, what) ==
  LET n == CHOOSE n \in Fd : f[n] = Closed /\ \A o \in Fd : f[o] = Closed => n <= o
  IN  [f EXCEPT ![n] = what]

Has(what) == \E p \in Proc, n \in Fd : fd[p][n] = what

Children(p) == {c \in Proc : parent[c] = p /\ pc[c] # "free"}

Node(tree, way) == FoldLeft(LAMBDA node, branch : node[branch], tree, way)
Cmd(p) == Node(session[job[p]], path[p])

Init ==
  /\ session \in Sessions
  /\ lines = 0
  /\ pc = [p \in Proc |-> IF p = main THEN "getcmd" ELSE "free"]
  /\ parent = [p \in Proc |-> init]
  /\ job = [p \in Proc |-> 0]
  /\ path = [p \in Proc |-> <<>>]
  /\ fd = [p \in Proc |-> IF p = main THEN [AllClosed EXCEPT ![0] = Tty, ![1] = Tty]
                          ELSE AllClosed]
  /\ out = [p \in Proc |-> 0]
  /\ buf = [k \in Pipe |-> 0]
  /\ failed = FALSE
  /\ interrupted = FALSE
  /\ caught = {}
-----------------------------------------------------------------------------
(* System calls.                                                           *)

Goto(p, next) == pc' = [pc EXCEPT ![p] = next]

(* The end of process p: its children are adopted, and those that have     *)
(* ended already are gone; its own end waits for its parent to see it.     *)
Exit(p) ==
  LET gone == {q \in Proc : pc[q] = "zombie" /\ parent[q] = p}
              \cup (IF parent[p] = init THEN {p} ELSE {})
  IN  /\ pc' = [q \in Proc |-> IF q \in gone THEN "free"
                               ELSE IF q = p THEN "zombie" ELSE pc[q]]
      /\ job' = [q \in Proc |-> IF q \in gone THEN 0 ELSE job[q]]
      /\ path' = [q \in Proc |-> IF q \in gone THEN <<>> ELSE path[q]]
      /\ parent' = [q \in Proc |-> IF parent[q] = p \/ q \in gone THEN init ELSE parent[q]]
      /\ fd' = [fd EXCEPT ![p] = AllClosed]
      /\ out' = [out EXCEPT ![p] = 0]

(* fork1: a child that goes on at first for line j, or a panic.            *)
fork1(p, first, j, way, next) ==
  \/ \E c \in Proc :
       /\ pc[c] = "free"
       /\ \A d \in Proc : pc[d] = "free" => c <= d
       /\ pc' = [pc EXCEPT ![p] = next, ![c] = first]
       /\ parent' = [parent EXCEPT ![c] = p]
       /\ job' = [job EXCEPT ![c] = j]
       /\ path' = [path EXCEPT ![c] = way]
       /\ fd' = [fd EXCEPT ![c] = fd[p]]
       /\ UNCHANGED <<session, lines, out, buf, failed, interrupted, caught>>
  \/ /\ failed' = TRUE
     /\ Exit(p)
     /\ UNCHANGED <<session, lines, buf, interrupted, caught>>

(* wait(NULL) takes any child that has ended, and returns at once when     *)
(* there is no child.                                                      *)
wait(p, next) ==
  \/ \E c \in Children(p) :
       /\ pc[c] = "zombie"
       /\ pc' = [pc EXCEPT ![p] = next, ![c] = "free"]
       /\ parent' = [parent EXCEPT ![c] = init]
       /\ job' = [job EXCEPT ![c] = 0]
       /\ path' = [path EXCEPT ![c] = <<>>]
  \/ Children(p) = {} /\ Goto(p, next) /\ UNCHANGED <<parent, job, path>>

Unread(p) == fd[p][1].kind = "write" /\ ~Has(ReadEnd(fd[p][1].of))

(* A write of one unit to standard output: it waits while the pipe is full *)
(* and kills a process whose pipe nobody can read.                         *)
write(p, next) ==
  LET to == fd[p][1]
  IN  \/ /\ to.kind # "write"
         /\ Goto(p, next)
         /\ UNCHANGED <<parent, job, path, fd, buf>>
      \/ /\ to.kind = "write" /\ Has(ReadEnd(to.of))
         /\ buf[to.of] < Capacity
         /\ buf' = [buf EXCEPT ![to.of] = @ + 1]
         /\ Goto(p, next)
         /\ UNCHANGED <<parent, job, path, fd>>
      \/ /\ Unread(p)
         /\ Goto(p, "exit")
         /\ UNCHANGED <<parent, job, path, fd, buf>>
-----------------------------------------------------------------------------
(* main                                                                    *)
getcmd ==
  /\ pc[main] = "getcmd"
  /\ \/ lines < Len(session) /\ lines' = lines + 1 /\ Goto(main, "fork")
     \/ lines = Len(session) /\ UNCHANGED lines /\ Goto(main, "exit")
  /\ UNCHANGED <<session, parent, job, path, fd, out, buf, failed, interrupted, caught>>

mainFork ==
  /\ pc[main] = "fork"
  /\ fork1(main, "parsecmd", lines, <<>>, "wait")

(* fault: the shell does not wait for its child                            *)
mainNoWait ==
  /\ pc[main] = "wait"
  /\ Goto(main, "getcmd")
  /\ UNCHANGED <<session, lines, parent, job, path, fd, out, buf, failed, interrupted, caught>>

mainWait ==
  /\ pc[main] = "wait"
  /\ wait(main, "getcmd")
  /\ UNCHANGED <<session, lines, fd, out, buf, failed, interrupted, caught>>

parsecmd(p) ==
  /\ pc[p] = "parsecmd"
  /\ Goto(p, IF Cmd(p).type = "PANIC" THEN "exit" ELSE "runcmd")
  /\ UNCHANGED <<session, lines, parent, job, path, fd, out, buf, failed, interrupted, caught>>
-----------------------------------------------------------------------------
(* runcmd prints the type of the command and turns to its case.            *)
runcmd(p) ==
  /\ pc[p] = "runcmd"
  /\ write(p, "switch")
  /\ UNCHANGED <<session, lines, out, failed, interrupted, caught>>

Switch(p, type) == pc[p] = "switch" /\ Cmd(p).type = type

(* runcmd calls itself for a part of the command, in the same process.     *)
Continue(p, branch) ==
  /\ Goto(p, "runcmd")
  /\ path' = [path EXCEPT ![p] = Append(@, branch)]

EXEC(p) ==
  /\ Switch(p, "EXEC")
  /\ \/ Goto(p, "exit") /\ UNCHANGED out   \* no argument, or execvp failed
     \/ /\ Cmd(p).argv # <<>>
        /\ \/ Goto(p, "source") /\ out' = [out EXCEPT ![p] = Units]
           \/ Goto(p, "filter") /\ UNCHANGED out
  /\ UNCHANGED <<session, lines, parent, job, path, fd, buf, failed, interrupted, caught>>

REDIR(p) ==
  /\ Switch(p, "REDIR")
  /\ \/ Goto(p, "exit") /\ UNCHANGED <<path, fd>>   \* open failed
     \/ /\ fd' = [fd EXCEPT ![p] = Opened(Close(@, Cmd(p).fd), File(Cmd(p).file))]
        /\ Continue(p, "cmd")
  /\ UNCHANGED <<session, lines, parent, job, out, buf, failed, interrupted, caught>>

LIST(p) == Switch(p, "LIST") /\ fork1(p, "runcmd", job[p], Append(path[p], "left"), "list wait")

listWait(p) ==
  /\ pc[p] = "list wait"
  /\ wait(p, "list right")
  /\ UNCHANGED <<session, lines, fd, out, buf, failed, interrupted, caught>>

listRight(p) ==
  /\ pc[p] = "list right"
  /\ Continue(p, "right")
  /\ UNCHANGED <<session, lines, parent, job, fd, out, buf, failed, interrupted, caught>>

PIPE(p) ==
  /\ Switch(p, "PIPE")
  /\ \/ \E k \in Pipe :
          /\ ~Has(ReadEnd(k)) /\ ~Has(WriteEnd(k))
          /\ \A j \in Pipe : ~Has(ReadEnd(j)) /\ ~Has(WriteEnd(j)) => k <= j
          /\ fd' = [fd EXCEPT ![p][P0] = ReadEnd(k), ![p][P1] = WriteEnd(k)]
          /\ buf' = [buf EXCEPT ![k] = 0]
          /\ Goto(p, "pipe left")
          /\ UNCHANGED <<parent, job, path, out, failed>>
     \/ failed' = TRUE /\ Exit(p) /\ UNCHANGED buf
  /\ UNCHANGED <<session, lines, interrupted, caught>>

pipeLeft(p) ==
  pc[p] = "pipe left" /\ fork1(p, "plumb left", job[p], Append(path[p], "left"), "pipe right")

pipeRight(p) ==
  pc[p] = "pipe right" /\ fork1(p, "plumb right", job[p], Append(path[p], "right"), "pipe close")

(* Standard descriptor n becomes the pipe end in end, and p is closed.     *)
(* fault: the child keeps the end of the pipe it does not use              *)
PlumbedOpen(f, n, end) == Close(Opened(Close(f, n), f[end]), end)

Plumbed(f, n, end) == Close(Close(Opened(Close(f, n), f[end]), P0), P1)

plumb(p) ==
  /\ \/ pc[p] = "plumb left" /\ fd' = [fd EXCEPT ![p] = Plumbed(@, 1, P1)]
     \/ pc[p] = "plumb right" /\ fd' = [fd EXCEPT ![p] = Plumbed(@, 0, P0)]
  /\ Goto(p, "runcmd")
  /\ UNCHANGED <<session, lines, parent, job, path, out, buf, failed, interrupted, caught>>

(* fault: the end the pipe is written to stays open                        *)
pipeCloseOne(p) ==
  /\ pc[p] = "pipe close"
  /\ fd' = [fd EXCEPT ![p] = Close(@, P0)]
  /\ Goto(p, "pipe wait")
  /\ UNCHANGED <<session, lines, parent, job, path, out, buf, failed, interrupted, caught>>

pipeClose(p) ==
  /\ pc[p] = "pipe close"
  /\ fd' = [fd EXCEPT ![p] = Close(Close(@, P0), P1)]
  /\ Goto(p, "pipe wait")
  /\ UNCHANGED <<session, lines, parent, job, path, out, buf, failed, interrupted, caught>>

(* fault: only one of the two is waited for                                *)
pipeWaitOne(p) ==
  /\ pc[p] = "pipe wait" /\ wait(p, "exit")
  /\ UNCHANGED <<session, lines, fd, out, buf, failed, interrupted, caught>>

pipeWait(p) ==
  /\ \/ pc[p] = "pipe wait" /\ wait(p, "pipe wait again")
     \/ pc[p] = "pipe wait again" /\ wait(p, "exit")
  /\ UNCHANGED <<session, lines, fd, out, buf, failed, interrupted, caught>>

BACK(p) == Switch(p, "BACK") /\ fork1(p, "runcmd", job[p], Append(path[p], "cmd"), "exit")

exit(p) ==
  /\ pc[p] = "exit"
  /\ Exit(p)
  /\ UNCHANGED <<session, lines, buf, failed, interrupted, caught>>
-----------------------------------------------------------------------------
(* The programs.                                                           *)
sourceWrites(p) ==
  /\ pc[p] = "source"
  /\ \/ /\ out[p] > 0
        /\ write(p, "source")
        /\ out' = [out EXCEPT ![p] = @ - 1]
     \/ /\ out[p] = 0
        /\ Goto(p, "exit")
        /\ UNCHANGED <<parent, job, path, fd, out, buf>>
  /\ UNCHANGED <<session, lines, failed, interrupted, caught>>

filterReads(p) ==
  LET from == fd[p][0]
  IN  /\ pc[p] = "filter"
      /\ \/ /\ from.kind = "read" /\ buf[from.of] > 0
            /\ buf' = [buf EXCEPT ![from.of] = @ - 1]
            /\ Goto(p, "filter write")
         \/ /\ from.kind = "read" => buf[from.of] = 0 /\ ~Has(WriteEnd(from.of))
            /\ Goto(p, "exit")
            /\ UNCHANGED buf
      /\ UNCHANGED <<session, lines, parent, job, path, fd, out, failed, interrupted, caught>>

filterWrites(p) ==
  /\ pc[p] = "filter write"
  /\ write(p, "filter")
  /\ UNCHANGED <<session, lines, out, failed, interrupted, caught>>

Programs == {"source", "filter", "filter write"}

(* CTL-C: SIGINT for every process of the terminal, background ones too.   *)
(* A program, whose signals execvp has reset, ends.  The shell's processes *)
(* catch it, and each runs its handler before anything else.  Left out are *)
(* the handlers that print to a terminal, as main's does, or to a file.    *)
Interrupt ==
  /\ ~interrupted
  /\ interrupted' = TRUE
  /\ pc' = [p \in Proc |-> IF pc[p] \in Programs THEN "exit" ELSE pc[p]]
  /\ caught' = {p \in Proc \ {main} : /\ pc[p] \notin Programs \cup {"free", "zombie"}
                                      /\ fd[p][1].kind = "write"}
  /\ UNCHANGED <<session, lines, parent, job, path, fd, out, buf, failed>>

(* The handler prints and flushes, and the process goes on where it was, a *)
(* wait included; unless nobody can read what is printed, which kills it,  *)
(* whatever it has started and was to wait for.                            *)
handler(p) ==
  /\ p \in caught
  /\ caught' = caught \ {p}
  /\ \/ ~Unread(p) /\ write(p, pc[p]) /\ UNCHANGED <<out, failed>>
     \/ /\ Unread(p)
        /\ Exit(p)
        /\ failed' = (failed \/ (pc[p] # "exit" /\ Children(p) # {}))
        /\ UNCHANGED buf
  /\ UNCHANGED <<session, lines, interrupted>>

Case(p) ==
  \/ EXEC(p) \/ REDIR(p) \/ BACK(p)
  \/ LIST(p) \/ listWait(p) \/ listRight(p)
  \/ PIPE(p) \/ pipeLeft(p) \/ pipeRight(p) \/ plumb(p) \/ pipeClose(p) \/ pipeWait(p)

Program(p) == sourceWrites(p) \/ filterReads(p) \/ filterWrites(p)

Step(p) ==
  \/ handler(p)
  \/ p \notin caught /\ (parsecmd(p) \/ runcmd(p) \/ Case(p) \/ exit(p) \/ Program(p))

Next ==
  \/ getcmd
  \/ mainFork
  \/ mainWait
  \/ \E p \in Proc : Step(p)
  \/ Interrupt

(* Every process that can go on is scheduled eventually.  Nothing is       *)
(* promised about the user.                                                *)
Fairness ==
  /\ WF_vars(mainFork)
  /\ WF_vars(mainWait)
  /\ \A p \in Proc : WF_vars(Step(p))

Spec == Init /\ [][Next]_vars /\ Fairness
-----------------------------------------------------------------------------
Live(p) == pc[p] # "free"

(* The commands on the way to the one p runs, with the branch taken at     *)
(* each.                                                                   *)
At(p, i) == Node(session[job[p]], SubSeq(path[p], 1, i - 1))
Passes(p, i, type, branch) == At(p, i).type = type /\ path[p][i] = branch

InBackground(p, from) == \E i \in from..Len(path[p]) : At(p, i).type = "BACK"

(* The two sides of a list do not overlap: while a process of its right    *)
(* side lives, nothing of its left side does, finished or not, but what    *)
(* was put into the background.  Rests on every wait of runcmd, at every   *)
(* level.  Not so once failed: a process that cannot fork, and one that    *)
(* dies of what its handler prints on CTL-C, leave what they have started. *)
ListsInOrder ==
  ~failed =>
    \A p, q \in Proc : \A i \in 1..Len(path[p]) :
      /\ Live(p) /\ Live(q) /\ job[p] = job[q]
      /\ Len(path[q]) >= i
      /\ SubSeq(path[p], 1, i - 1) = SubSeq(path[q], 1, i - 1)
      /\ Passes(p, i, "LIST", "left") /\ Passes(q, i, "LIST", "right")
      => InBackground(p, i + 1)

(* At the prompt everything the line started has ended and has been waited *)
(* for, but what was put into the background; again unless failed.         *)
PromptIsQuiet ==
  pc[main] = "getcmd" /\ ~failed =>
    \A p \in Proc \ {main} : Live(p) => InBackground(p, 1)

(* Where standard input comes from and standard output goes to: the        *)
(* innermost redirection or pipe around a command decides.                 *)
Decides(p, i, n) ==
  \/ At(p, i).type = "REDIR" /\ At(p, i).fd = n
  \/ Passes(p, i, "PIPE", IF n = 0 THEN "right" ELSE "left")

Innermost(p, n) == {i \in 1..Len(path[p]) :
  Decides(p, i, n) /\ \A j \in i + 1..Len(path[p]) : ~Decides(p, j, n)}

SamePipe(p, i, q, j) ==
  /\ job[p] = job[q]
  /\ SubSeq(path[p], 1, i - 1) = SubSeq(path[q], 1, j - 1)

Running(p) == pc[p] \in Programs \/ Switch(p, "EXEC")

(* A program starts with its standard descriptors only, each open on what  *)
(* the line says: a file, the terminal, or the pipe, and this is the pipe  *)
(* of the program on the other side, and of no other.                      *)
Connected ==
  \A p \in Proc : Running(p) =>
    /\ fd[p][P0] = Closed /\ fd[p][P1] = Closed
    /\ \A n \in {0, 1} :
         /\ Innermost(p, n) = {} => fd[p][n] = Tty
         /\ \A i \in Innermost(p, n) :
              fd[p][n].kind = IF At(p, i).type = "REDIR" THEN "file"
                              ELSE IF n = 0 THEN "read" ELSE "write"
         /\ \A i \in Innermost(p, n) :
              At(p, i).type = "REDIR" => fd[p][n] = File(At(p, i).file)
    /\ \A q \in Proc : Running(q) =>
         \A i \in Innermost(p, 1), j \in Innermost(q, 0) :
           At(p, i).type = "PIPE" /\ At(q, j).type = "PIPE" =>
             (fd[p][1].of = fd[q][0].of <=> SamePipe(p, i, q, j))

(* The shell comes back for the next line, or has come to its end, when    *)
(* programs end at the end of their input: every reader of a pipe gets to  *)
(* the end, since every end the pipe is written to is closed in time, and  *)
(* no wait waits for nothing.                                              *)
PromptReturns == pc[main] = "wait" ~> pc[main] \in {"getcmd", "free"}
=============================================================================
