--------------------------- MODULE ShellRun_proofs ---------------------------
(***************************************************************************)
(* Proofs about ShellRun, for every number of processes and pipes and all  *)
(* sessions: the sides of a list run one after the other, and at the       *)
(* prompt nothing is left of the lines before but what they put into the   *)
(* background (first part; it holds until a fork or a pipe fails, or a     *)
(* process that has a child dies of what its handler of CTL-C prints).  No *)
(* two processes work for the same command, and a program starts with the  *)
(* descriptors that its line says (second part, which holds after failures *)
(* as well).                                                               *)
(***************************************************************************)
EXTENDS ShellRun, SequenceTheorems, TLAPS

Branch == {"left", "right", "cmd"}

(* The shell proper, which works for no line, and the processes it forks.  *)
ShellPc == {"getcmd", "fork", "wait", "exit"}
RunPc == {"parsecmd", "runcmd", "switch", "list wait", "list right",
          "pipe left", "pipe right", "pipe close", "pipe wait",
          "pipe wait again", "plumb left", "plumb right", "exit", "zombie"}
         \cup Programs

Kids(p) == {r \in Proc : Live(r) /\ parent[r] = p}

(* r works for a part of the command that p works for.                     *)
Below(r, p) ==
  /\ job[r] = job[p] /\ Len(path[p]) < Len(path[r])
  /\ \A j \in 1..Len(path[p]) : path[r][j] = path[p][j]

Under(r, p) == job[r] # 0 /\ (job[p] = 0 \/ Below(r, p))

(* The branches of p's command for which there may be processes.           *)
Taken(where) ==
  CASE where \in {"list wait", "list right", "pipe right"} -> {"left"}
    [] where \in {"pipe close", "pipe wait", "pipe wait again", "exit", "zombie"} -> Branch
    [] OTHER -> {}

Typed ==
  /\ pc \in [Proc -> ShellPc \cup RunPc \cup {"free"}]
  /\ parent \in [Proc -> Proc \cup {init}]
  /\ job \in [Proc -> Nat]
  /\ path \in [Proc -> Seq(Branch)]
  /\ lines \in Nat /\ (pc[main] = "fork" => lines # 0)

(* A process either is the shell or works for a line that was read.        *)
Role(p) ==
  IF job[p] = 0
  THEN p = main /\ pc[p] \in ShellPc /\ path[p] = <<>> /\ parent[p] = init
  ELSE /\ pc[p] \in RunPc
       /\ job[p] <= lines
       /\ pc[main] = "fork" => job[p] < lines

Roles == \A p \in Proc : Live(p) => Role(p)

(* No two processes work for the same command.                             *)
Unique ==
  \A p, q \in Proc : Live(p) /\ Live(q) /\ p # q /\ job[p] = job[q] => path[p] # path[q]

(* Who has a parent works for a part of its command.                       *)
Parents ==
  \A r \in Proc : Live(r) /\ parent[r] # init =>
    Live(parent[r]) /\ pc[parent[r]] # "zombie" /\ Under(r, parent[r])

(* A branch not yet turned to has no processes.                            *)
Fresh ==
  \A p, q \in Proc : Live(p) /\ Live(q) /\ Below(q, p) =>
    path[q][Len(path[p]) + 1] \in Taken(pc[p])

One == {"wait", "list wait", "pipe right", "pipe wait again"}
Two == {"pipe close", "pipe wait"}

(* How many children a process has, which is how often it will wait.       *)
Family(p) ==
  CASE pc[p] \in One -> \A r, s \in Kids(p) : r = s
    [] pc[p] \in Two -> \E c, d \in Proc : Kids(p) \subseteq {c, d}
    [] pc[p] = "exit" -> \A r \in Kids(p) : InBackground(r, Len(path[p]) + 1)
    [] OTHER -> Kids(p) = {}

Families == \A p \in Proc : Live(p) => Family(p)

(* Who works for a part of p's command is in the background of it, or is   *)
(* waited for: by p or by those that p waits for.                          *)
Tended ==
  \A p, r \in Proc : Live(p) /\ Live(r) /\ Under(r, p) =>
    InBackground(r, Len(path[p]) + 1) \/ \E k \in Kids(p) : k = r \/ Under(r, k)

PipesAre ==
  \A p \in Proc : pc[p] \in {"pipe left", "pipe right"} => Cmd(p).type = "PIPE"

Sound ==
  /\ Typed /\ Roles /\ Unique /\ Parents /\ Fresh /\ Families /\ Tended /\ PipesAre
  /\ ListsInOrder

Gone == {"free", "zombie"}

(* Who has yet to run a handler is one of the processes main forks, and    *)
(* has not ended.                                                          *)
Catching ==
  /\ pc = [p \in Proc |-> pc[p]]
  /\ caught \subseteq Proc \ {main}
  /\ \A p \in caught : pc[p] \notin Gone

IInv == Catching /\ (~failed => Sound)
-----------------------------------------------------------------------------
LEMMA MainIs == main \in Proc /\ init \notin Proc
  BY ShellRunAssumption DEF main, init, Proc

(* Two ways that agree up to k have the same first k branches.             *)
LEMMA SameStart ==
  ASSUME NEW w \in Seq(Branch), NEW v \in Seq(Branch), NEW k \in Nat,
         k <= Len(w), k <= Len(v)
  PROVE  SubSeq(w, 1, k) = SubSeq(v, 1, k) <=> \A j \in 1..k : w[j] = v[j]
<1>1. /\ SubSeq(w, 1, k) = [j \in 1..k |-> w[j]]
      /\ SubSeq(v, 1, k) = [j \in 1..k |-> v[j]]
  OBVIOUS
<1>2. QED  BY <1>1

LEMMA SameWay ==
  ASSUME NEW w \in Seq(Branch), NEW v \in Seq(Branch), Len(w) <= Len(v),
         \A j \in 1..Len(w) : v[j] = w[j], NEW i \in 1..(Len(w) + 1)
  PROVE  SubSeq(v, 1, i - 1) = SubSeq(w, 1, i - 1)
<1>1. i - 1 \in Nat /\ i - 1 <= Len(w) /\ i - 1 <= Len(v)
  OBVIOUS
<1>2. QED  BY <1>1, SameStart

LEMMA Appended ==
  ASSUME NEW w \in Seq(Branch), NEW b \in Branch, NEW v, v = Append(w, b)
  PROVE  /\ v \in Seq(Branch) /\ Len(v) = Len(w) + 1
         /\ Len(w) \in Nat
         /\ \A j \in 1..Len(w) : v[j] = w[j]
         /\ v[Len(w) + 1] = b
  OBVIOUS

LEMMA SameAt ==
  ASSUME NEW w \in Seq(Branch), NEW v, \A j \in 1..Len(w) : v[j] = w[j],
         NEW k \in Nat, k < Len(w)
  PROVE  v[k + 1] = w[k + 1]
<1>1. k + 1 \in 1..Len(w)
  OBVIOUS
<1>2. QED  BY <1>1

LEMMA Longer ==
  ASSUME NEW w \in Seq(Branch), NEW v \in Seq(Branch), NEW u \in Seq(Branch),
         Len(v) = Len(w) + 1, \A j \in 1..Len(w) : v[j] = w[j],
         Len(v) < Len(u), \A j \in 1..Len(v) : u[j] = v[j]
  PROVE  /\ Len(w) < Len(u) /\ \A j \in 1..Len(w) : u[j] = w[j]
         /\ u[Len(w) + 1] = v[Len(w) + 1]
<1>1. Len(w) \in Nat /\ Len(v) \in Nat /\ Len(u) \in Nat
  OBVIOUS
<1>2. Len(w) + 1 \in 1..Len(v) /\ \A j \in 1..Len(w) : j \in 1..Len(v)
  BY <1>1
<1>3. QED  BY <1>1, <1>2

(* Background(j, w, from): on the way w of line j there is a "&" at the    *)
(* from-th place or later.                                                 *)
Background(j, w, from) ==
  \E i \in from..Len(w) : Node(session[j], SubSeq(w, 1, i - 1)).type = "BACK"

LEMMA InBackgroundIs ==
  ASSUME NEW p, NEW k
  PROVE  InBackground(p, k) <=> Background(job[p], path[p], k)
  BY DEF InBackground, Background, At

LEMMA BackgroundGrows ==
  ASSUME NEW w \in Seq(Branch), NEW v \in Seq(Branch), Len(w) <= Len(v),
         \A j \in 1..Len(w) : v[j] = w[j],
         NEW line, NEW from \in Nat \ {0}, NEW to \in Nat \ {0}, to <= from,
         Background(line, w, from)
  PROVE  Background(line, v, to)
<1>1. PICK i \in from..Len(w) : Node(session[line], SubSeq(w, 1, i - 1)).type = "BACK"
  BY DEF Background
<1>2. i \in to..Len(v) /\ i - 1 \in Nat /\ i - 1 <= Len(w) /\ i - 1 <= Len(v)
  BY <1>1
<1>3. SubSeq(v, 1, i - 1) = SubSeq(w, 1, i - 1)
  BY <1>2, SameStart
<1>4. QED  BY <1>1, <1>2, <1>3 DEF Background
-----------------------------------------------------------------------------
(* Where process p may go without a call that forks, waits or ends.        *)
MayGo(p, to) ==
  /\ pc[p] # "free" /\ to \in ShellPc \cup RunPc /\ to # "zombie"
  /\ IF job[p] = 0 THEN to \in ShellPc ELSE to \in RunPc
  /\ Taken(pc[p]) \subseteq Taken(to)
  /\ Kids(p) = {} \/ (pc[p] = "pipe close" /\ to = "pipe wait")
  /\ to = "pipe left" => Cmd(p).type = "PIPE"
  /\ to # "pipe right"

LEMMA GoingKeepsSound ==
  ASSUME Sound, UNCHANGED <<session, parent, job, path>>,
         pc' \in [Proc -> ShellPc \cup RunPc \cup {"free"}],
         \A p \in Proc : pc'[p] = pc[p] \/ MayGo(p, pc'[p]),
         lines' \in Nat, lines <= lines',
         pc'[main] = "fork" => pc[main] = "fork" \/ lines < lines',
         ~failed, ~failed'
  PROVE  Sound'
<1> USE DEF Sound
<1>1. \A p \in Proc : Live(p)' <=> Live(p)
  BY DEF Live, MayGo, ShellPc, RunPc, Programs
<1>2. \A p : Kids(p)' = Kids(p)
  BY <1>1 DEF Kids
<1>3. \A p, r : (Below(r, p)' <=> Below(r, p)) /\ (Under(r, p)' <=> Under(r, p))
  BY DEF Below, Under
<1>4. \A r, k : InBackground(r, k)' <=> InBackground(r, k)
  BY DEF InBackground, At
<1>5. Typed'
  BY DEF Typed
<1>6. Roles'
  <2> SUFFICES ASSUME NEW p \in Proc, Live(p)'  PROVE Role(p)'
    BY DEF Roles
  <2>1. Live(p) /\ Role(p)
    BY <1>1 DEF Roles
  <2>2. CASE job[p] = 0
    BY <2>1, <2>2 DEF Role, MayGo
  <2>3. CASE job[p] # 0
    <3>1. pc'[p] \in RunPc /\ job[p] <= lines /\ job[p] \in Nat /\ lines \in Nat
      BY <2>1, <2>3 DEF Role, MayGo, Typed
    <3>2. pc'[main] = "fork" => job[p] < lines'
      BY <2>1, <2>3, <3>1 DEF Role
    <3>3. QED  BY <2>3, <3>1, <3>2 DEF Role
  <2>4. QED  BY <2>2, <2>3
<1>7. Unique'
  BY <1>1 DEF Unique
<1>8. Parents'
  <2> SUFFICES ASSUME NEW r \in Proc, Live(r)', parent[r] # init
               PROVE  /\ Live(parent[r])' /\ pc'[parent[r]] # "zombie"
                      /\ Under(r, parent[r])
    BY <1>3 DEF Parents
  <2>1. /\ Live(parent[r]) /\ pc[parent[r]] # "zombie" /\ Under(r, parent[r])
        /\ parent[r] \in Proc
    BY <1>1 DEF Parents, Typed
  <2>2. QED  BY <1>1, <2>1 DEF MayGo
<1>9. Fresh'
  BY <1>1, <1>3 DEF Fresh, MayGo
<1>10. Families'
  <2> SUFFICES ASSUME NEW p \in Proc, Live(p)'  PROVE Family(p)'
    BY DEF Families
  <2>1. Family(p)
    BY <1>1 DEF Families
  <2>2. CASE pc'[p] = pc[p]
    BY <1>2, <1>4, <2>1, <2>2 DEF Family
  <2>3. CASE Kids(p) = {}
    BY <1>2, <2>3, MainIs DEF Family
  <2>4. CASE pc[p] = "pipe close" /\ pc'[p] = "pipe wait"
    BY <1>2, <2>1, <2>4 DEF Family, One, Two
  <2>5. QED  BY <2>2, <2>3, <2>4 DEF MayGo
<1>11. Tended'
  BY <1>1, <1>2, <1>3, <1>4 DEF Tended
<1>12. PipesAre'
  BY DEF PipesAre, MayGo, Cmd
<1>13. ListsInOrder'
  BY <1>1, <1>4 DEF ListsInOrder, Passes, At
<1>14. QED  BY <1>5, <1>6, <1>7, <1>8, <1>9, <1>10, <1>11, <1>12, <1>13

(* g forks c for branch b of its command.                                  *)
Forks(g, c, b, first, next) ==
  /\ pc[c] = "free" /\ c \in Proc
  /\ pc' = [pc EXCEPT ![g] = next, ![c] = first]
  /\ parent' = [parent EXCEPT ![c] = g]
  /\ job' = [job EXCEPT ![c] = job[g]]
  /\ path' = [path EXCEPT ![c] = Append(path[g], b)]
  /\ UNCHANGED <<session, lines>>

MayFork(g, b, first, next) ==
  /\ g \in Proc /\ Live(g) /\ job[g] # 0 /\ pc[g] # "zombie"
  /\ b \in Branch /\ b \notin Taken(pc[g])
  /\ Taken(pc[g]) \cup {b} \subseteq Taken(next)
  /\ first \in {"runcmd", "plumb left", "plumb right"}
  /\ next \in RunPc \ {"zombie"}
  /\ \/ Kids(g) = {} /\ next \in One
     \/ Kids(g) = {} /\ next = "exit" /\ Cmd(g).type = "BACK"
     \/ pc[g] = "pipe right" /\ next \in Two
  /\ b = "right" => Cmd(g).type = "PIPE"
  /\ next \in {"pipe left", "pipe right"} => Cmd(g).type = "PIPE"

(* What a fork leaves and what is new.                                     *)
LEMMA Forked ==
  ASSUME Sound, NEW g, NEW c, NEW b, NEW first, NEW next,
         MayFork(g, b, first, next), Forks(g, c, b, first, next)
  PROVE  /\ Typed'
         /\ c \in Proc /\ c # g /\ job'[c] = job[g] /\ job[g] \in Nat /\ parent'[c] = g
         /\ path'[c] \in Seq(Branch) /\ Len(path'[c]) = Len(path[g]) + 1
         /\ Len(path[g]) \in Nat
         /\ \A j \in 1..Len(path[g]) : path'[c][j] = path[g][j]
         /\ path'[c][Len(path[g]) + 1] = b
         /\ \A p \in Proc \ {c} :
              /\ job'[p] = job[p] /\ path'[p] = path[p] /\ parent'[p] = parent[p]
              /\ Live(p)' <=> Live(p)
         /\ \A p \in Proc \ {c, g} : pc'[p] = pc[p]
         /\ pc'[g] = next /\ pc'[c] = first /\ Live(c)' /\ ~Live(c)
<1> USE DEF Sound, Forks, MayFork
<1>1. c \in Proc /\ c # g /\ g \in Proc
  BY DEF Live
<1>2. /\ path[g] \in Seq(Branch) /\ b \in Branch
  BY DEF Typed
<1>3. path'[c] = Append(path[g], b) /\ job'[c] = job[g] /\ parent'[c] = g /\ job[g] \in Nat
  BY <1>1 DEF Typed
<1>4. /\ pc'[g] = next /\ pc'[c] = first /\ \A p \in Proc \ {c, g} : pc'[p] = pc[p]
  BY <1>1 DEF Typed
<1>5. next # "free" /\ first # "free" /\ first \in RunPc
  BY DEF RunPc, Programs
<1>6. \A p \in Proc \ {c} :
        /\ job'[p] = job[p] /\ path'[p] = path[p] /\ parent'[p] = parent[p]
        /\ Live(p)' <=> Live(p)
  BY <1>1, <1>4, <1>5 DEF Typed, Live
<1>7. /\ path'[c] \in Seq(Branch) /\ Len(path'[c]) = Len(path[g]) + 1
      /\ Len(path[g]) \in Nat
      /\ \A j \in 1..Len(path[g]) : path'[c][j] = path[g][j]
      /\ path'[c][Len(path[g]) + 1] = b
  <2>1. path[g] \in Seq(Branch) /\ b \in Branch /\ path'[c] = Append(path[g], b)
    BY <1>2, <1>3
  <2> HIDE DEF Sound, Forks, MayFork
  <2>2. QED  BY ONLY <2>1, Appended
<1>8. Typed'
  <2>1. path' \in [Proc -> Seq(Branch)]
    <3> DEFINE new == Append(path[g], b)
    <3>1. new \in Seq(Branch) /\ path' = [path EXCEPT ![c] = new]
      BY <1>3, <1>7
    <3>2. path \in [Proc -> Seq(Branch)]
      BY DEF Typed
    <3> HIDE DEF new, Sound, Forks, MayFork
    <3>3. QED  BY <1>1, <3>1, <3>2
  <2>2. pc'[main] = "fork" => pc[main] = "fork"
    BY <1>1, <1>4, MainIs DEF RunPc, Programs
  <2>3. QED  BY <1>1, <1>5, <2>1, <2>2 DEF Typed
<1>9. Live(c)' /\ ~Live(c)
  BY <1>4, <1>5 DEF Live
<1>10. QED  BY <1>1, <1>3, <1>4, <1>6, <1>7, <1>8, <1>9

(* What is said of commands and backgrounds depends on job and path only.  *)
LEMMA BackgroundOfUnchanged ==
  ASSUME UNCHANGED session, NEW p, job'[p] = job[p], path'[p] = path[p]
  PROVE  /\ \A k : InBackground(p, k)' <=> InBackground(p, k)
         /\ \A i : At(p, i)' = At(p, i)
         /\ Cmd(p)' = Cmd(p)
  BY DEF InBackground, At, Cmd

LEMMA BelowUnchanged ==
  ASSUME NEW p, NEW r, job'[p] = job[p], path'[p] = path[p],
         job'[r] = job[r], path'[r] = path[r]
  PROVE  (Below(r, p)' <=> Below(r, p)) /\ (Under(r, p)' <=> Under(r, p))
  BY DEF Below, Under

(* Who works for a part of a command is in the background as often as the  *)
(* process that works for the command.                                     *)
LEMMA BackgroundBelow ==
  ASSUME Typed, NEW g \in Proc, NEW r \in Proc, Under(r, g), job[g] # 0,
         NEW from \in Nat \ {0}, NEW to \in Nat \ {0}, to <= from,
         InBackground(g, from)
  PROVE  InBackground(r, to)
<1>1. /\ path[g] \in Seq(Branch) /\ path[r] \in Seq(Branch) /\ job[r] = job[g]
      /\ Len(path[g]) <= Len(path[r])
      /\ \A j \in 1..Len(path[g]) : path[r][j] = path[g][j]
  BY DEF Typed, Under, Below
<1>2. Background(job[g], path[g], from)
  BY InBackgroundIs
<1>3. Background(job[g], path[r], to)
  BY <1>1, <1>2, BackgroundGrows
<1>4. QED  BY <1>1, <1>3, InBackgroundIs

LEMMA BackgroundEarlier ==
  ASSUME Typed, NEW r \in Proc, NEW from \in Nat \ {0}, NEW to \in Nat \ {0},
         to <= from, InBackground(r, from)
  PROVE  InBackground(r, to)
  BY DEF InBackground, Typed

LEMMA UnderTrans ==
  ASSUME Typed, NEW p \in Proc, NEW g \in Proc, NEW r \in Proc,
         Under(g, p), Under(r, g), job[g] # 0
  PROVE  Under(r, p) /\ (job[p] # 0 => Below(r, p))
  BY DEF Under, Below, Typed

(* Commands on the way to a process's command are those of its ancestors.  *)
LEMMA AtBelow ==
  ASSUME Typed, NEW g \in Proc, NEW r \in Proc, Below(r, g),
         NEW i \in 1..(Len(path[g]) + 1)
  PROVE  At(r, i) = At(g, i)
<1>1. path[g] \in Seq(Branch) /\ path[r] \in Seq(Branch) /\ job[r] = job[g]
  BY DEF Typed, Below
<1>2. i - 1 \in Nat /\ i - 1 <= Len(path[g]) /\ i - 1 <= Len(path[r])
  BY <1>1 DEF Below
<1>3. SubSeq(path[r], 1, i - 1) = SubSeq(path[g], 1, i - 1)
  BY <1>1, <1>2, SameStart DEF Below
<1>4. QED  BY <1>1, <1>3 DEF At

LEMMA AtEnd ==
  ASSUME Typed, NEW g \in Proc
  PROVE  At(g, Len(path[g]) + 1) = Cmd(g)
<1>1. path[g] \in Seq(Branch)
  BY DEF Typed
<1>2. SubSeq(path[g], 1, (Len(path[g]) + 1) - 1) = path[g]
  BY <1>1
<1>3. QED  BY <1>2 DEF At, Cmd

LEMMA ForkKeepsSound ==
  ASSUME Sound, NEW g, NEW c, NEW b, NEW first, NEW next, ~failed, ~failed',
         MayFork(g, b, first, next), Forks(g, c, b, first, next)
  PROVE  Sound'
<1>1. /\ Typed' /\ g \in Proc /\ Live(g) /\ job[g] # 0 /\ b \in Branch
      /\ UNCHANGED <<session, lines>>
      /\ c \in Proc /\ c # g /\ job'[c] = job[g] /\ job[g] \in Nat /\ parent'[c] = g
      /\ path'[c] \in Seq(Branch) /\ Len(path'[c]) = Len(path[g]) + 1
      /\ Len(path[g]) \in Nat
      /\ \A j \in 1..Len(path[g]) : path'[c][j] = path[g][j]
      /\ path'[c][Len(path[g]) + 1] = b
      /\ \A p \in Proc \ {c} :
           /\ job'[p] = job[p] /\ path'[p] = path[p] /\ parent'[p] = parent[p]
           /\ Live(p)' <=> Live(p)
      /\ \A p \in Proc \ {c, g} : pc'[p] = pc[p]
      /\ pc'[g] = next /\ pc'[c] = first /\ Live(c)' /\ ~Live(c)
  <2>1. /\ Live(g) /\ job[g] # 0 /\ b \in Branch /\ UNCHANGED <<session, lines>>
        /\ g \in Proc
    BY DEF Forks, MayFork
  <2>2. QED  BY <2>1, Forked
<1>2. Typed /\ Roles /\ Unique /\ Parents /\ Fresh /\ Families /\ Tended /\ PipesAre /\ ListsInOrder
  BY DEF Sound
<1>3. \A p, r \in Proc \ {c} : (Below(r, p)' <=> Below(r, p)) /\ (Under(r, p)' <=> Under(r, p))
  BY <1>1, BelowUnchanged
<1>4. \A p \in Proc \ {c} : /\ \A k : InBackground(p, k)' <=> InBackground(p, k)
                            /\ \A i : At(p, i)' = At(p, i)
                            /\ Cmd(p)' = Cmd(p)
  BY <1>1, BackgroundOfUnchanged
<1>5. Below(c, g)' /\ Under(c, g)'
  BY <1>1 DEF Below, Under
<1>6. ASSUME NEW p \in Proc \ {c}, Live(p), Below(p, g)  PROVE path[p][Len(path[g]) + 1] # b
  BY <1>1, <1>2, <1>6 DEF Fresh, MayFork
<1>7. ASSUME NEW p \in Proc \ {c}, Live(p), Below(c, p)'  PROVE p = g \/ Below(g, p)
  <2>1. /\ job[p] = job[g] /\ path[p] \in Seq(Branch) /\ path[g] \in Seq(Branch)
        /\ Len(path[p]) <= Len(path[g])
        /\ \A j \in 1..Len(path[p]) : path[g][j] = path[p][j]
    BY <1>1, <1>2, <1>7 DEF Below, Typed
  <2>2. CASE Len(path[p]) < Len(path[g])
    BY <2>1, <2>2 DEF Below
  <2>3. CASE Len(path[p]) = Len(path[g])
    <3>1. path[p] = path[g]
      BY <2>1, <2>3
    <3>2. QED  BY <1>1, <1>2, <1>7, <2>1, <3>1 DEF Unique
  <2>4. QED  BY <2>1, <2>2, <2>3
<1>8. ASSUME NEW p \in Proc \ {c}, Live(p)  PROVE ~Below(p, c)'
  <2>1. SUFFICES ASSUME Below(p, c)'  PROVE FALSE
    OBVIOUS
  <2>2. /\ path'[p] = path[p] /\ job'[p] = job[p] /\ path[p] \in Seq(Branch)
        /\ path[g] \in Seq(Branch) /\ path'[c] \in Seq(Branch)
        /\ Len(path'[c]) = Len(path[g]) + 1
        /\ \A j \in 1..Len(path[g]) : path'[c][j] = path[g][j]
        /\ path'[c][Len(path[g]) + 1] = b
    BY <1>1, <1>2 DEF Typed
  <2>3. /\ job[p] = job[g] /\ Len(path'[c]) < Len(path[p])
        /\ \A j \in 1..Len(path'[c]) : path[p][j] = path'[c][j]
    BY <1>1, <2>1, <2>2 DEF Below
  <2>4. /\ Len(path[g]) < Len(path[p]) /\ \A j \in 1..Len(path[g]) : path[p][j] = path[g][j]
        /\ path[p][Len(path[g]) + 1] = b
    BY ONLY <2>2, <2>3, Longer
  <2>5. Below(p, g) /\ path[p][Len(path[g]) + 1] = b
    BY <2>3, <2>4 DEF Below
  <2>6. QED  BY <1>6, <1>8, <2>5
<1>9. Roles'
  <2> SUFFICES ASSUME NEW p \in Proc, Live(p)'  PROVE Role(p)'
    BY DEF Roles
  <2>1. main # g /\ pc'[main] = "fork" => pc[main] = "fork"
    BY <1>1, MainIs DEF MayFork
  <2>2. pc'[main] = "fork" => pc[main] = "fork" /\ main # c
    BY <1>1, <2>1 DEF MayFork, RunPc, Programs
  <2>3. Role(g) /\ pc[g] \in RunPc
    BY <1>1, <1>2 DEF Roles, Role
  <2>4. CASE p = c
    BY <1>1, <2>2, <2>3, <2>4 DEF Role, MayFork, RunPc
  <2>5. CASE p = g
    BY <1>1, <2>2, <2>3, <2>5 DEF Role, MayFork
  <2>6. CASE p \notin {c, g}
    BY <1>1, <1>2, <2>2, <2>6 DEF Roles, Role
  <2>7. QED  BY <2>4, <2>5, <2>6
<1>10. Unique'
  <2>1. ASSUME NEW p \in Proc \ {c}, Live(p), job[p] = job[g]  PROVE path[p] # path'[c]
    <3> SUFFICES ASSUME path[p] = path'[c]  PROVE FALSE
      OBVIOUS
    <3>1. Below(p, g) /\ path[p][Len(path[g]) + 1] = b
      BY <1>1, <2>1 DEF Below
    <3>2. QED  BY <1>6, <2>1, <3>1
  <2>2. QED  BY <1>1, <1>2, <2>1 DEF Unique
<1>11. Parents'
  <2> SUFFICES ASSUME NEW r \in Proc, Live(r)', parent'[r] # init
               PROVE  /\ Live(parent[r])' /\ (pc[parent[r]] # "zombie")'
                      /\ Under(r, parent[r])'
    BY DEF Parents
  <2>1. CASE r = c
    <3>1. next # "zombie" /\ next # "free"
      BY DEF MayFork, RunPc, Programs
    <3>2. QED  BY <1>1, <1>5, <2>1, <3>1 DEF Live, Under, Below
  <2>2. CASE r # c
    <3>1. /\ Live(parent[r]) /\ pc[parent[r]] # "zombie" /\ Under(r, parent[r])
          /\ parent[r] \in Proc /\ parent[r] # c
      BY <1>1, <1>2, <2>2 DEF Parents, Typed
    <3>2. next # "zombie" /\ parent'[r] = parent[r]
      BY <1>1, <2>2 DEF MayFork
    <3>3. Live(parent[r])' /\ pc'[parent[r]] # "zombie"
      <4>1. \A p \in Proc \ {c} : (Live(p)' <=> Live(p)) /\ (pc'[p] = pc[p] \/ pc'[p] = next)
        BY <1>1
      <4>2. QED  BY <3>1, <3>2, <4>1
    <3>4. QED  BY <1>3, <2>2, <3>1, <3>2, <3>3 DEF Under, Below
  <2>3. QED  BY <2>1, <2>2
<1>12. Fresh'
  <2> SUFFICES ASSUME NEW p \in Proc, NEW q \in Proc, Live(p)', Live(q)', Below(q, p)'
               PROVE  path'[q][Len(path'[p]) + 1] \in Taken(pc'[p])
    BY DEF Fresh
  <2>1. p # c
    <3>1. ~Below(c, c)'
      BY <1>1 DEF Below
    <3>2. QED  BY <1>1, <1>8, <3>1
  <2>2. CASE q # c
    <3>1. Live(p) /\ Live(q) /\ Below(q, p) /\ path'[p] = path[p] /\ path'[q] = path[q]
      BY <1>1, <1>3, <2>1, <2>2
    <3>2. path[q][Len(path[p]) + 1] \in Taken(pc[p])
      BY <1>2, <3>1 DEF Fresh
    <3>3. pc'[p] = pc[p] \/ (p = g /\ pc'[p] = next)
      BY <1>1, <2>1
    <3>4. QED  BY <3>1, <3>2, <3>3 DEF MayFork
  <2>3. CASE q = c /\ p = g
    BY <1>1, <2>3 DEF MayFork
  <2>4. CASE q = c /\ p # g
    <3>1. Live(p) /\ Below(g, p)
      BY <1>1, <1>7, <2>1, <2>4
    <3>2. path[g][Len(path[p]) + 1] \in Taken(pc[p])
      BY <1>1, <1>2, <2>1, <3>1 DEF Fresh
    <3>3. path'[c][Len(path[p]) + 1] = path[g][Len(path[p]) + 1]
      <4>1. Len(path[p]) < Len(path[g]) /\ Len(path[p]) \in Nat
        BY <1>2, <2>1, <3>1 DEF Below, Typed
      <4>2. path[g] \in Seq(Branch) /\ \A j \in 1..Len(path[g]) : path'[c][j] = path[g][j]
        BY <1>1, <1>2 DEF Typed
      <4>3. QED  BY ONLY <4>1, <4>2, SameAt
    <3>4. path'[p] = path[p] /\ pc'[p] = pc[p]
      BY <1>1, <2>1, <2>4
    <3>5. QED  BY <2>4, <3>2, <3>3, <3>4
  <2>5. QED  BY <2>2, <2>3, <2>4
<1>13. \A p \in Proc \ {c} : Kids(p)' = Kids(p) \cup (IF p = g THEN {c} ELSE {})
  BY <1>1 DEF Kids
<1>14. Kids(c)' = {}
  <2>1. \A r \in Proc \ {c} : Live(r) => parent[r] # c
    BY <1>1, <1>2, MainIs DEF Parents
  <2>2. QED  BY <1>1, <2>1 DEF Kids
<1>15. \A i \in 1..(Len(path[g]) + 1) : SubSeq(path'[c], 1, i - 1) = SubSeq(path[g], 1, i - 1)
  <2> DEFINE w == path[g]
             v == path'[c]
  <2>1. /\ w \in Seq(Branch) /\ v \in Seq(Branch) /\ Len(w) <= Len(v)
        /\ \A j \in 1..Len(w) : v[j] = w[j]
    BY <1>1, <1>2 DEF Typed
  <2> HIDE DEF w, v
  <2>2. \A i \in 1..(Len(w) + 1) : SubSeq(v, 1, i - 1) = SubSeq(w, 1, i - 1)
    BY ONLY <2>1, SameWay
  <2>3. QED  BY <2>2 DEF w, v
<1>16. \A i \in 1..(Len(path[g]) + 1) : At(c, i)' = At(g, i)
  BY <1>1, <1>15 DEF At
<1>17. \A k \in Nat \ {0} : InBackground(g, k) => InBackground(c, k)'
  <2> SUFFICES ASSUME NEW k \in Nat \ {0}, InBackground(g, k)  PROVE InBackground(c, k)'
    OBVIOUS
  <2>1. PICK i \in k..Len(path[g]) : At(g, i).type = "BACK"
    BY DEF InBackground
  <2>2. i \in 1..(Len(path[g]) + 1) /\ i \in k..Len(path'[c])
    BY <1>1, <2>1
  <2>3. QED  BY <1>16, <2>1, <2>2 DEF InBackground
<1>18. Families'
  <2> SUFFICES ASSUME NEW p \in Proc, Live(p)'  PROVE Family(p)'
    BY DEF Families
  <2>1. CASE p = c
    BY <1>1, <1>14, <2>1 DEF Family, One, Two, MayFork
  <2>2. CASE p \notin {c, g}
    <3>1. Family(p)
      BY <1>1, <1>2, <2>2 DEF Families
    <3>2. \A r \in Kids(p) : r \in Proc \ {c}
      BY <1>1 DEF Kids
    <3>3. QED  BY <1>1, <1>4, <1>13, <2>2, <3>1, <3>2 DEF Family
  <2>3. CASE p = g /\ Kids(g) = {} /\ next \in One
    <3>1. Kids(g)' = {c} /\ pc'[g] = next
      BY <1>1, <1>13, <2>3
    <3>2. QED  BY <2>3, <3>1 DEF Family, One, Two
  <2>4. CASE p = g /\ Kids(g) = {} /\ next = "exit" /\ Cmd(g).type = "BACK"
    <3>1. At(c, Len(path[g]) + 1)' = Cmd(g)
      BY <1>1, <1>2, <1>16, AtEnd
    <3>2. InBackground(c, Len(path[g]) + 1)'
      BY <1>1, <2>4, <3>1 DEF InBackground
    <3>3. QED  BY <1>1, <1>13, <2>4, <3>2 DEF Family, One, Two
  <2>5. CASE p = g /\ pc[g] = "pipe right" /\ next \in Two
    <3>1. \A r, s \in Kids(g) : r = s
      <4>1. Family(g)
        BY <1>1, <1>2 DEF Families
      <4>2. QED  BY <2>5, <4>1 DEF Family, One, Two
    <3>2. Kids(g) = {} \/ \E r \in Proc : Kids(g) = {r}
      <4>1. Kids(g) \subseteq Proc
        BY DEF Kids
      <4>2. QED  BY <3>1, <4>1
    <3>3. \E r \in Proc : Kids(g)' \subseteq {r, c}
      BY <1>1, <1>13, <3>2
    <3>4. QED  BY <1>1, <2>5, <3>3 DEF Family, One, Two
  <2>6. QED  BY <2>1, <2>2, <2>3, <2>4, <2>5 DEF MayFork
<1>19. Tended'
  <2> SUFFICES ASSUME NEW p \in Proc, NEW r \in Proc, Live(p)', Live(r)', Under(r, p)'
               PROVE  \/ InBackground(r, Len(path[p]) + 1)'
                      \/ \E k \in Kids(p)' : k = r \/ Under(r, k)'
    BY DEF Tended
  <2>1. p # c
    <3>1. ~Below(c, c)'
      BY <1>1 DEF Below
    <3>2. QED  BY <1>1, <1>8, <3>1 DEF Under
  <2>2. CASE r # c
    <3>1. Live(p) /\ Live(r) /\ Under(r, p)
      BY <1>1, <1>3, <2>1, <2>2
    <3>2. CASE InBackground(r, Len(path[p]) + 1)
      BY <1>1, <1>4, <2>1, <2>2, <3>2
    <3>3. CASE \E k \in Kids(p) : k = r \/ Under(r, k)
      <4>1. \A k \in Kids(p) : k \in Proc \ {c}
        BY <1>1 DEF Kids
      <4>2. QED  BY <1>3, <1>13, <2>1, <2>2, <3>3, <4>1
    <3>4. QED  BY <1>2, <3>1, <3>2, <3>3 DEF Tended
  <2>3. CASE r = c /\ p = g
    BY <1>1, <1>13, <2>3
  <2>4. CASE r = c /\ p # g
    <3>1. Live(p) /\ Under(g, p)
      BY <1>1, <1>7, <2>1, <2>4 DEF Under
    <3>2. Under(r, g)'
      BY <1>5, <2>4
    <3>3. CASE InBackground(g, Len(path[p]) + 1)
      BY <1>1, <1>2, <1>17, <2>1, <2>4, <3>3 DEF Typed
    <3>4. CASE \E k \in Kids(p) : k = g \/ Under(g, k)
      <4>1. PICK k \in Kids(p) : k = g \/ Under(g, k)
        BY <3>4
      <4>2. k \in Proc \ {c} /\ k \in Kids(p)'
        BY <1>1, <1>13, <2>1 DEF Kids
      <4>3. Under(c, k)'
        <5>1. CASE k = g
          BY <1>5, <5>1
        <5>2. CASE Under(g, k)
          <6>1. job'[c] # 0 /\ job'[k] = job[k] /\ path'[k] = path[k] /\ job'[c] = job[g]
            BY <1>1, <4>2
          <6>2. CASE job[k] = 0
            BY <6>1, <6>2 DEF Under
          <6>3. CASE job[k] # 0
            <7>1. /\ job[g] = job[k] /\ Len(path[k]) < Len(path[g])
                  /\ \A j \in 1..Len(path[k]) : path[g][j] = path[k][j]
                  /\ Len(path[k]) \in Nat
              BY <1>2, <4>2, <5>2, <6>3 DEF Under, Below, Typed
            <7>2. /\ Len(path'[c]) = Len(path[g]) + 1 /\ Len(path[g]) \in Nat
                  /\ \A j \in 1..Len(path[g]) : path'[c][j] = path[g][j]
              BY <1>1
            <7>3. \A j \in 1..Len(path[k]) : path'[c][j] = path[k][j]
              BY ONLY <7>1, <7>2
            <7>4. QED  BY <6>1, <7>1, <7>2, <7>3 DEF Under, Below
          <6>4. QED  BY <6>2, <6>3
        <5>3. QED  BY <4>1, <5>1, <5>2
      <4>4. QED  BY <2>4, <4>2, <4>3
    <3>5. QED  BY <1>1, <1>2, <3>1, <3>3, <3>4 DEF Tended
  <2>5. QED  BY <2>2, <2>3, <2>4
<1>20. PipesAre'
  <2> SUFFICES ASSUME NEW p \in Proc, pc'[p] \in {"pipe left", "pipe right"}
               PROVE  Cmd(p)'.type = "PIPE"
    BY DEF PipesAre
  <2>1. p # c
    BY <1>1 DEF MayFork
  <2>2. CASE p = g
    BY <1>1, <1>4, <2>2 DEF MayFork
  <2>3. CASE p # g
    <3>1. pc'[p] = pc[p] /\ p \in Proc \ {c}
      BY <1>1, <2>1, <2>3
    <3>2. Cmd(p).type = "PIPE"
      BY <1>2, <3>1 DEF PipesAre
    <3>3. QED  BY <1>4, <3>1, <3>2
  <2>4. QED  BY <2>2, <2>3
<1>21. ListsInOrder'
  <2> SUFFICES ASSUME NEW p \in Proc, NEW q \in Proc, NEW i \in 1..Len(path'[p]),
                      Live(p)', Live(q)', job'[p] = job'[q], Len(path'[q]) >= i,
                      SubSeq(path'[p], 1, i - 1) = SubSeq(path'[q], 1, i - 1),
                      At(p, i)'.type = "LIST", path'[p][i] = "left",
                      At(q, i)'.type = "LIST", path'[q][i] = "right"
               PROVE  InBackground(p, i + 1)'
    BY DEF ListsInOrder, Passes
  <2>0. /\ path[p] \in Seq(Branch) /\ path[q] \in Seq(Branch) /\ i \in Nat /\ p # q
        /\ path[g] \in Seq(Branch)
    BY <1>1, <1>2 DEF Typed
  <2>1. CASE p # c /\ q # c
    <3>1. InBackground(p, i + 1)
      <4>1. /\ Live(p) /\ Live(q) /\ job[p] = job[q] /\ Len(path[q]) >= i
            /\ i \in 1..Len(path[p])
            /\ SubSeq(path[p], 1, i - 1) = SubSeq(path[q], 1, i - 1)
            /\ At(p, i).type = "LIST" /\ path[p][i] = "left"
            /\ At(q, i).type = "LIST" /\ path[q][i] = "right"
        BY <1>1, <1>4, <2>1
      <4>2. QED  BY <1>2, <4>1 DEF ListsInOrder, Passes
    <3>2. QED  BY <1>4, <2>1, <3>1
  <2>2. CASE p = c /\ i <= Len(path[g])
    <3>1. SubSeq(path'[c], 1, i - 1) = SubSeq(path[g], 1, i - 1)
      <4>1. i \in 1..(Len(path[g]) + 1)
        BY <1>1, <2>0, <2>2
      <4>2. QED  BY <1>15, <4>1
    <3>2. /\ Live(g) /\ Live(q) /\ job[g] = job[q] /\ Len(path[q]) >= i
          /\ i \in 1..Len(path[g])
          /\ SubSeq(path[g], 1, i - 1) = SubSeq(path[q], 1, i - 1)
          /\ At(g, i).type = "LIST" /\ path[g][i] = "left"
          /\ At(q, i).type = "LIST" /\ path[q][i] = "right"
      BY <1>1, <1>4, <1>16, <2>0, <2>2, <3>1
    <3>3. InBackground(g, i + 1)
      BY <1>1, <1>2, <3>2 DEF ListsInOrder, Passes
    <3>4. i + 1 \in Nat \ {0}
      BY <2>0
    <3>5. QED  BY <1>17, <2>2, <3>3, <3>4
  <2>3. CASE p = c /\ i = Len(path[g]) + 1
    <3>1. Live(q) /\ q \in Proc \ {c} /\ path'[q] = path[q] /\ job[q] = job[g] /\ b = "left"
      BY <1>1, <2>0, <2>3
    <3>2. Below(q, g)
      <4>1. SubSeq(path[g], 1, i - 1) = SubSeq(path[q], 1, i - 1)
        BY <1>15, <2>3, <3>1
      <4>2. i - 1 \in Nat /\ i - 1 = Len(path[g]) /\ i - 1 <= Len(path[q])
        BY <1>1, <2>3, <3>1
      <4>3. \A j \in 1..(i - 1) : path[g][j] = path[q][j]
        BY <2>0, <4>1, <4>2, SameStart
      <4>4. QED  BY <1>1, <2>0, <2>3, <3>1, <4>2, <4>3 DEF Below
    <3>3. "right" \in Taken(pc[g])
      BY <1>1, <1>2, <2>3, <3>1, <3>2 DEF Fresh
    <3>4. b \in Taken(pc[g])
      BY <3>1, <3>3 DEF Taken, Branch
    <3>5. QED  BY <3>4 DEF MayFork
  <2>4. CASE q = c /\ i <= Len(path[g])
    <3>1. SubSeq(path'[c], 1, i - 1) = SubSeq(path[g], 1, i - 1)
      BY <1>1, <1>15, <2>0, <2>4
    <3>2. /\ Live(g) /\ Live(p) /\ job[g] = job[p] /\ Len(path[g]) >= i
          /\ i \in 1..Len(path[p]) /\ p \in Proc \ {c}
          /\ SubSeq(path[p], 1, i - 1) = SubSeq(path[g], 1, i - 1)
          /\ At(g, i).type = "LIST" /\ path[g][i] = "right"
          /\ At(p, i).type = "LIST" /\ path[p][i] = "left"
      BY <1>1, <1>4, <1>16, <2>0, <2>4, <3>1
    <3>3. InBackground(p, i + 1)
      BY <1>1, <1>2, <3>2 DEF ListsInOrder, Passes
    <3>4. QED  BY <1>4, <3>2, <3>3
  <2>5. CASE q = c /\ i = Len(path[g]) + 1
    <3>1. b = "right" /\ At(c, i)' = Cmd(g)
      BY <1>1, <1>2, <1>16, <2>5, AtEnd
    <3>2. QED  BY <2>5, <3>1 DEF MayFork
  <2>6. QED
    BY <1>1, <2>0, <2>1, <2>2, <2>3, <2>4, <2>5
<1>22. QED
  BY <1>1, <1>9, <1>10, <1>11, <1>12, <1>18, <1>19, <1>20, <1>21 DEF Sound

(* Who works for a part of the command of a child that has no children is  *)
(* in the background, seen from the parent too.                            *)
LEMMA AtRest ==
  ASSUME Typed, Roles, Parents, Tended,
         NEW p \in Proc, NEW k \in Kids(p), Kids(k) = {},
         NEW r \in Proc, Live(r), Under(r, k), Live(p)
  PROVE  InBackground(r, Len(path[p]) + 1)
<1>1. k \in Proc /\ Live(k) /\ Under(k, p)
  BY MainIs DEF Kids, Parents
<1>2. InBackground(r, Len(path[k]) + 1)
  BY <1>1 DEF Tended
<1>3. Len(path[k]) \in Nat /\ Len(path[p]) \in Nat
  BY <1>1 DEF Typed
<1>4. Len(path[p]) <= Len(path[k])
  <2>1. CASE job[p] = 0
    BY <1>3, <2>1 DEF Roles, Role
  <2>2. CASE job[p] # 0
    BY <1>1, <1>3, <2>2 DEF Under, Below
  <2>3. QED  BY <2>1, <2>2
<1>5. QED  BY <1>2, <1>3, <1>4, BackgroundEarlier

(* g sees the end of its child c.                                          *)
Reaps(g, c, next) ==
  /\ c \in Kids(g) /\ pc[c] = "zombie"
  /\ pc' = [pc EXCEPT ![g] = next, ![c] = "free"]
  /\ parent' = [parent EXCEPT ![c] = init]
  /\ job' = [job EXCEPT ![c] = 0]
  /\ path' = [path EXCEPT ![c] = <<>>]
  /\ UNCHANGED <<session, lines>>

MayReap(g, next) ==
  /\ g \in Proc /\ Live(g)
  /\ pc[g] \in One \/ (pc[g] = "pipe wait" /\ next = "pipe wait again")
  /\ IF job[g] = 0 THEN next \in ShellPc \ {"fork"} ELSE next \in RunPc \ {"zombie"}
  /\ Taken(pc[g]) \subseteq Taken(next)
  /\ next \notin {"pipe left", "pipe right"}

LEMMA WaitKeepsSound ==
  ASSUME Sound, NEW g, NEW c, NEW next, ~failed, ~failed',
         MayReap(g, next), Reaps(g, c, next)
  PROVE  Sound'
<1>1. /\ g \in Proc /\ Live(g) /\ c \in Proc /\ Live(c) /\ c # g /\ pc[c] = "zombie"
      /\ parent[c] = g /\ UNCHANGED <<session, lines>>
  BY DEF MayReap, Reaps, Kids, One
<1>2. Typed /\ Roles /\ Unique /\ Parents /\ Fresh /\ Families /\ Tended /\ PipesAre /\ ListsInOrder
  BY DEF Sound
<1>3. next \in ShellPc \cup RunPc /\ next \notin {"free", "zombie", "fork"}
  BY DEF MayReap, ShellPc, RunPc, Programs
<1>4. /\ pc'[g] = next /\ pc'[c] = "free"
      /\ \A p \in Proc \ {c, g} : pc'[p] = pc[p]
      /\ \A p \in Proc \ {c} : job'[p] = job[p] /\ path'[p] = path[p] /\ parent'[p] = parent[p]
      /\ job'[c] = 0 /\ parent'[c] = init
  BY <1>1, <1>2 DEF Reaps, Typed
<1>5. Typed'
  <2>1. <<>> \in Seq(Branch)
    OBVIOUS
  <2>2. pc'[main] = "fork" => pc[main] = "fork"
    BY <1>3, <1>4, MainIs
  <2>3. QED  BY <1>1, <1>2, <1>3, <2>1, <2>2 DEF Typed, Reaps
<1>6. ~Live(c)' /\ \A p \in Proc \ {c} : Live(p)' <=> Live(p)
  BY <1>1, <1>3, <1>4 DEF Live
<1>7. \A p, r \in Proc \ {c} : (Below(r, p)' <=> Below(r, p)) /\ (Under(r, p)' <=> Under(r, p))
  BY <1>4, BelowUnchanged
<1>8. \A p \in Proc \ {c} : /\ \A k : InBackground(p, k)' <=> InBackground(p, k)
                            /\ \A i : At(p, i)' = At(p, i)
                            /\ Cmd(p)' = Cmd(p)
  BY <1>1, <1>4, BackgroundOfUnchanged
<1>9. \A p \in Proc \ {c} : Kids(p)' = Kids(p) \ {c}
  BY <1>4, <1>6 DEF Kids
<1>10. Roles'
  <2> SUFFICES ASSUME NEW p \in Proc, Live(p)'  PROVE Role(p)'
    BY DEF Roles
  <2>1. p # c /\ Role(p)
    BY <1>2, <1>6 DEF Roles
  <2>2. pc'[main] = "fork" => pc[main] = "fork"
    BY <1>3, <1>4, MainIs
  <2>3. CASE p = g
    BY <1>1, <1>4, <2>1, <2>2, <2>3 DEF Role, MayReap
  <2>4. CASE p # g
    BY <1>1, <1>4, <2>1, <2>2, <2>4 DEF Role
  <2>5. QED  BY <2>3, <2>4
<1>11. Unique'
  BY <1>2, <1>4, <1>6 DEF Unique
<1>12. Parents'
  <2> SUFFICES ASSUME NEW r \in Proc, Live(r)', parent'[r] # init
               PROVE  /\ Live(parent[r])' /\ (pc[parent[r]] # "zombie")'
                      /\ Under(r, parent[r])'
    BY DEF Parents
  <2>1. r # c /\ parent'[r] = parent[r] /\ Live(r)
    BY <1>4, <1>6
  <2>2. /\ parent[r] \in Proc /\ Live(parent[r]) /\ pc[parent[r]] # "zombie"
        /\ Under(r, parent[r])
    BY <1>2, <2>1 DEF Parents, Typed
  <2>3. parent[r] # c
    BY <1>1, <2>2
  <2>4. Live(parent[r])' /\ pc'[parent[r]] # "zombie"
    BY <1>3, <1>4, <1>6, <2>1, <2>2, <2>3
  <2>5. QED  BY <1>7, <2>1, <2>2, <2>3, <2>4
<1>13. Fresh'
  <2> SUFFICES ASSUME NEW p \in Proc, NEW q \in Proc, Live(p)', Live(q)', Below(q, p)'
               PROVE  path'[q][Len(path'[p]) + 1] \in Taken(pc'[p])
    BY DEF Fresh
  <2>1. p # c /\ q # c /\ Live(p) /\ Live(q) /\ Below(q, p)
    BY <1>6, <1>7
  <2>2. path[q][Len(path[p]) + 1] \in Taken(pc[p])
    BY <1>2, <2>1 DEF Fresh
  <2>3. pc'[p] = pc[p] \/ (p = g /\ pc'[p] = next)
    BY <1>4, <2>1
  <2>4. QED  BY <1>4, <2>1, <2>2, <2>3 DEF MayReap
<1>14. Families'
  <2> SUFFICES ASSUME NEW p \in Proc, Live(p)'  PROVE Family(p)'
    BY DEF Families
  <2>1. p # c /\ Family(p) /\ Kids(p)' = Kids(p) \ {c}
    BY <1>2, <1>6, <1>9 DEF Families
  <2>2. CASE p # g
    <3>1. \A r \in Kids(p)' : r \in Proc \ {c}
      BY <2>1 DEF Kids
    <3>2. QED  BY <1>4, <1>8, <2>1, <2>2, <3>1 DEF Family
  <2>3. CASE p = g /\ pc[g] \in One
    <3>1. \A r, s \in Kids(g) : r = s
      BY <2>1, <2>3 DEF Family, One, Two
    <3>2. Kids(g)' = {}
      BY <1>1, <2>1, <2>3, <3>1 DEF Kids
    <3>3. QED  BY <2>3, <3>2, MainIs DEF Family
  <2>4. CASE p = g /\ pc[g] = "pipe wait" /\ next = "pipe wait again"
    <3>1. PICK x \in Proc, y \in Proc : Kids(g) \subseteq {x, y}
      BY <2>1, <2>4 DEF Family, One, Two
    <3>2. c \in Kids(g)
      BY DEF Reaps
    <3>3. \A r, s \in Kids(g)' : r = s
      BY <2>1, <2>4, <3>1, <3>2
    <3>4. QED  BY <1>4, <2>4, <3>3 DEF Family, One, Two
  <2>5. QED  BY <2>2, <2>3, <2>4 DEF MayReap
<1>15. Tended'
  <2> SUFFICES ASSUME NEW p \in Proc, NEW r \in Proc, Live(p)', Live(r)', Under(r, p)'
               PROVE  \/ InBackground(r, Len(path[p]) + 1)'
                      \/ \E k \in Kids(p)' : k = r \/ Under(r, k)'
    BY DEF Tended
  <2>1. p # c /\ r # c /\ Live(p) /\ Live(r) /\ Under(r, p)
    BY <1>6, <1>7
  <2>2. CASE InBackground(r, Len(path[p]) + 1)
    BY <1>4, <1>8, <2>1, <2>2
  <2>3. CASE \E k \in Kids(p) \ {c} : k = r \/ Under(r, k)
    <3>1. \A k \in Kids(p) : k \in Proc
      BY DEF Kids
    <3>2. QED  BY <1>7, <1>9, <2>1, <2>3, <3>1
  <2>4. CASE c \in Kids(p) /\ Under(r, c)
    <3>1. Kids(c) = {}
      BY <1>1, <1>2 DEF Families, Family, One, Two
    <3>2. InBackground(r, Len(path[p]) + 1)
      BY <1>2, <2>1, <2>4, <3>1, AtRest
    <3>3. QED  BY <1>4, <1>8, <2>1, <3>2
  <2>5. QED  BY <1>2, <2>1, <2>2, <2>3, <2>4 DEF Tended
<1>16. PipesAre'
  <2> SUFFICES ASSUME NEW p \in Proc, pc'[p] \in {"pipe left", "pipe right"}
               PROVE  Cmd(p)'.type = "PIPE"
    BY DEF PipesAre
  <2>1. p \notin {c, g} /\ pc'[p] = pc[p]
    BY <1>4 DEF MayReap
  <2>2. QED  BY <1>2, <1>8, <2>1 DEF PipesAre
<1>17. ListsInOrder'
  <2> SUFFICES ASSUME NEW p \in Proc, NEW q \in Proc, NEW i \in 1..Len(path'[p]),
                      Live(p)', Live(q)', job'[p] = job'[q], Len(path'[q]) >= i,
                      SubSeq(path'[p], 1, i - 1) = SubSeq(path'[q], 1, i - 1),
                      At(p, i)'.type = "LIST", path'[p][i] = "left",
                      At(q, i)'.type = "LIST", path'[q][i] = "right"
               PROVE  InBackground(p, i + 1)'
    BY DEF ListsInOrder, Passes
  <2>1. p # c /\ q # c /\ Live(p) /\ Live(q)
    BY <1>6
  <2>2. /\ job[p] = job[q] /\ Len(path[q]) >= i /\ i \in 1..Len(path[p])
        /\ SubSeq(path[p], 1, i - 1) = SubSeq(path[q], 1, i - 1)
        /\ At(p, i).type = "LIST" /\ path[p][i] = "left"
        /\ At(q, i).type = "LIST" /\ path[q][i] = "right"
    BY <1>4, <1>8, <2>1
  <2>3. InBackground(p, i + 1)
    BY <1>2, <2>1, <2>2 DEF ListsInOrder, Passes
  <2>4. QED  BY <1>8, <2>1, <2>3
<1>18. QED
  BY <1>5, <1>10, <1>11, <1>12, <1>13, <1>14, <1>15, <1>16, <1>17 DEF Sound

(* g turns to branch b of its command itself.                              *)
Turns(g, b) ==
  /\ pc' = [pc EXCEPT ![g] = "runcmd"]
  /\ path' = [path EXCEPT ![g] = Append(path[g], b)]
  /\ UNCHANGED <<session, lines, parent, job>>

MayTurn(g, b) ==
  /\ g \in Proc /\ Live(g) /\ job[g] # 0 /\ pc[g] # "zombie" /\ Kids(g) = {}
  /\ b \in {"cmd", "right"} /\ b \notin Taken(pc[g])

LEMMA ContinueKeepsSound ==
  ASSUME Sound, NEW g, NEW b, ~failed, ~failed', MayTurn(g, b), Turns(g, b)
  PROVE  Sound'
<1>1. /\ g \in Proc /\ Live(g) /\ job[g] # 0 /\ Kids(g) = {} /\ b \in Branch
      /\ b # "left" /\ b \notin Taken(pc[g])
      /\ UNCHANGED <<session, lines, parent, job>>
  BY DEF MayTurn, Turns, Branch
<1>2. Typed /\ Roles /\ Unique /\ Parents /\ Fresh /\ Families /\ Tended /\ PipesAre /\ ListsInOrder
  BY DEF Sound
<1>3. /\ pc'[g] = "runcmd" /\ path'[g] = Append(path[g], b)
      /\ \A p \in Proc \ {g} : pc'[p] = pc[p] /\ path'[p] = path[p]
  BY <1>1, <1>2 DEF Turns, Typed
<1>4. /\ path[g] \in Seq(Branch) /\ path'[g] \in Seq(Branch)
      /\ Len(path[g]) \in Nat /\ Len(path'[g]) = Len(path[g]) + 1
      /\ \A j \in 1..Len(path[g]) : path'[g][j] = path[g][j]
      /\ path'[g][Len(path[g]) + 1] = b
  <2>1. path[g] \in Seq(Branch)
    BY <1>1, <1>2 DEF Typed
  <2>2. QED  BY ONLY <1>1, <1>3, <2>1, Appended
<1>5. Typed'
  <2>1. path' \in [Proc -> Seq(Branch)]
    <3> DEFINE new == Append(path[g], b)
    <3>1. new \in Seq(Branch) /\ path' = [path EXCEPT ![g] = new]
      BY <1>3, <1>4 DEF Turns
    <3>2. path \in [Proc -> Seq(Branch)]
      BY <1>2 DEF Typed
    <3> HIDE DEF new
    <3>3. QED  BY <1>1, <3>1, <3>2
  <2>2. pc'[main] = "fork" => pc[main] = "fork"
    BY <1>1, <1>3, MainIs
  <2>3. QED  BY <1>1, <1>2, <2>1, <2>2 DEF Typed, RunPc, Turns
<1>6. \A p \in Proc : Live(p)' <=> Live(p)
  BY <1>1, <1>3 DEF Live
<1>7. \A p : Kids(p)' = Kids(p)
  BY <1>1, <1>6 DEF Kids
<1>8. \A p, r \in Proc \ {g} : (Below(r, p)' <=> Below(r, p)) /\ (Under(r, p)' <=> Under(r, p))
  BY <1>1, <1>3, BelowUnchanged
<1>9. \A p \in Proc \ {g} : /\ \A k : InBackground(p, k)' <=> InBackground(p, k)
                            /\ \A i : At(p, i)' = At(p, i)
                            /\ Cmd(p)' = Cmd(p)
  BY <1>1, <1>3, BackgroundOfUnchanged
<1>10. ASSUME NEW p \in Proc \ {g}, Live(p), Below(p, g)
       PROVE  path[p][Len(path[g]) + 1] # b
  BY <1>1, <1>2, <1>10 DEF Fresh
<1>11. ASSUME NEW p \in Proc, Live(p)  PROVE ~Below(p, g)'
  <2> SUFFICES ASSUME Below(p, g)'  PROVE FALSE
    OBVIOUS
  <2>1. p # g
    BY <1>4 DEF Below
  <2>2. /\ path'[p] = path[p] /\ job[p] = job[g] /\ path[p] \in Seq(Branch)
        /\ Len(path[g]) + 1 < Len(path[p])
        /\ \A j \in 1..(Len(path[g]) + 1) : path[p][j] = path'[g][j]
    BY <1>1, <1>2, <1>3, <1>4, <2>1 DEF Below, Typed
  <2>3. Below(p, g) /\ path[p][Len(path[g]) + 1] = b
    BY <1>4, <2>2 DEF Below
  <2>4. QED  BY <1>10, <1>11, <2>1, <2>3
<1>12. ASSUME NEW p \in Proc \ {g}, Live(p), Below(g, p)'  PROVE Below(g, p)
  <2>1. /\ job[p] = job[g] /\ path[p] \in Seq(Branch)
        /\ Len(path[p]) <= Len(path[g])
        /\ \A j \in 1..Len(path[p]) : path[g][j] = path[p][j]
    BY <1>1, <1>2, <1>3, <1>4, <1>12 DEF Below, Typed
  <2>2. CASE Len(path[p]) < Len(path[g])
    BY <2>1, <2>2 DEF Below
  <2>3. CASE Len(path[p]) = Len(path[g])
    <3>1. path[p] = path[g]
      BY <1>4, <2>1, <2>3
    <3>2. QED  BY <1>1, <1>2, <1>12, <2>1, <3>1 DEF Unique
  <2>4. QED  BY <1>4, <2>1, <2>2, <2>3
<1>13. \A p \in Proc \ {g} : Under(g, p) => Under(g, p)'
  BY <1>1, <1>3, <1>4 DEF Under, Below
<1>14. \A i \in 1..(Len(path[g]) + 1) : /\ SubSeq(path'[g], 1, i - 1) = SubSeq(path[g], 1, i - 1)
                                       /\ At(g, i)' = At(g, i)
  <2> DEFINE w == path[g]
             v == path'[g]
  <2>1. /\ w \in Seq(Branch) /\ v \in Seq(Branch) /\ Len(w) <= Len(v)
        /\ \A j \in 1..Len(w) : v[j] = w[j]
    BY <1>4
  <2> HIDE DEF w, v
  <2>2. \A i \in 1..(Len(w) + 1) : SubSeq(v, 1, i - 1) = SubSeq(w, 1, i - 1)
    BY ONLY <2>1, SameWay
  <2>3. \A i \in 1..(Len(path[g]) + 1) : SubSeq(path'[g], 1, i - 1) = SubSeq(path[g], 1, i - 1)
    BY <2>2 DEF w, v
  <2>4. QED  BY <1>1, <2>3 DEF At
<1>15. \A k \in Nat \ {0} : InBackground(g, k) => InBackground(g, k)'
  <2> SUFFICES ASSUME NEW k \in Nat \ {0}, InBackground(g, k)  PROVE InBackground(g, k)'
    OBVIOUS
  <2>1. PICK i \in k..Len(path[g]) : At(g, i).type = "BACK"
    BY DEF InBackground
  <2>2. i \in 1..(Len(path[g]) + 1) /\ i \in k..Len(path'[g])
    BY <1>4, <2>1
  <2>3. At(g, i)' = At(g, i)
    BY <1>14, <2>2
  <2>4. QED  BY <2>1, <2>2, <2>3 DEF InBackground
<1>16. Roles'
  <2> SUFFICES ASSUME NEW p \in Proc, Live(p)'  PROVE Role(p)'
    BY DEF Roles
  <2>1. Role(p)
    BY <1>2, <1>6 DEF Roles
  <2>2. pc'[main] = "fork" => pc[main] = "fork"
    BY <1>1, <1>3, MainIs
  <2>3. CASE p = g
    BY <1>1, <1>3, <2>1, <2>2, <2>3 DEF Role, RunPc
  <2>4. CASE p # g
    BY <1>1, <1>3, <2>1, <2>2, <2>4 DEF Role
  <2>5. QED  BY <2>3, <2>4
<1>17. Unique'
  <2>1. ASSUME NEW p \in Proc \ {g}, Live(p), job[p] = job[g]  PROVE path[p] # path'[g]
    <3> SUFFICES ASSUME path[p] = path'[g]  PROVE FALSE
      OBVIOUS
    <3>1. Below(p, g) /\ path[p][Len(path[g]) + 1] = b
      BY <1>4, <2>1 DEF Below
    <3>2. QED  BY <1>10, <2>1, <3>1
  <2>2. QED  BY <1>1, <1>2, <1>3, <1>6, <2>1 DEF Unique
<1>18. Parents'
  <2> SUFFICES ASSUME NEW r \in Proc, Live(r)', parent'[r] # init
               PROVE  /\ Live(parent[r])' /\ (pc[parent[r]] # "zombie")'
                      /\ Under(r, parent[r])'
    BY DEF Parents
  <2>1. parent'[r] = parent[r] /\ Live(r)
    BY <1>1, <1>6
  <2>2. /\ parent[r] \in Proc /\ Live(parent[r]) /\ pc[parent[r]] # "zombie"
        /\ Under(r, parent[r])
    BY <1>2, <2>1 DEF Parents, Typed
  <2>3. parent[r] # g
    BY <1>1, <2>1 DEF Kids
  <2>4. Live(parent[r])' /\ pc'[parent[r]] # "zombie"
    BY <1>3, <1>6, <2>1, <2>2, <2>3
  <2>5. Under(r, parent[r])'
    <3>1. CASE r = g
      BY <1>13, <2>1, <2>2, <2>3, <3>1
    <3>2. CASE r # g
      BY <1>8, <2>1, <2>2, <2>3, <3>2
    <3>3. QED  BY <3>1, <3>2
  <2>6. QED  BY <2>1, <2>4, <2>5
<1>19. Fresh'
  <2> SUFFICES ASSUME NEW p \in Proc, NEW q \in Proc, Live(p)', Live(q)', Below(q, p)'
               PROVE  path'[q][Len(path'[p]) + 1] \in Taken(pc'[p])
    BY DEF Fresh
  <2>1. p # g /\ Live(p) /\ Live(q) /\ path'[p] = path[p] /\ pc'[p] = pc[p]
    BY <1>3, <1>6, <1>11
  <2>2. Below(q, p)
    BY <1>8, <1>12, <2>1
  <2>3. path[q][Len(path[p]) + 1] \in Taken(pc[p])
    BY <1>2, <2>1, <2>2 DEF Fresh
  <2>4. path'[q][Len(path[p]) + 1] = path[q][Len(path[p]) + 1]
    <3>1. CASE q = g
      <4>1. Len(path[p]) < Len(path[g]) /\ Len(path[p]) \in Nat
        BY <1>2, <2>2, <3>1 DEF Below, Typed
      <4>2. path'[g][Len(path[p]) + 1] = path[g][Len(path[p]) + 1]
        BY ONLY <1>4, <4>1, SameAt
      <4>3. QED  BY <3>1, <4>2
    <3>2. CASE q # g
      BY <1>3, <3>2
    <3>3. QED  BY <3>1, <3>2
  <2>5. QED  BY <2>1, <2>3, <2>4
<1>20. Families'
  <2> SUFFICES ASSUME NEW p \in Proc, Live(p)'  PROVE Family(p)'
    BY DEF Families
  <2>1. Family(p) /\ Kids(p)' = Kids(p)
    BY <1>2, <1>6, <1>7 DEF Families
  <2>2. CASE p = g
    BY <1>1, <2>1, <2>2, MainIs DEF Family
  <2>3. CASE p # g
    <3>1. \A r \in Kids(p), k \in Nat \ {0} : InBackground(r, k) => InBackground(r, k)'
      BY <1>9, <1>15 DEF Kids
    <3>2. pc'[p] = pc[p] /\ path'[p] = path[p] /\ Len(path[p]) + 1 \in Nat \ {0}
      BY <1>2, <1>3, <2>3 DEF Typed
    <3>3. QED  BY <2>1, <3>1, <3>2 DEF Family
  <2>4. QED  BY <2>2, <2>3
<1>21. Tended'
  <2> SUFFICES ASSUME NEW p \in Proc, NEW r \in Proc, Live(p)', Live(r)', Under(r, p)'
               PROVE  \/ InBackground(r, Len(path[p]) + 1)'
                      \/ \E k \in Kids(p)' : k = r \/ Under(r, k)'
    BY DEF Tended
  <2>1. p # g /\ Live(p) /\ Live(r) /\ path'[p] = path[p] /\ Len(path[p]) + 1 \in Nat \ {0}
    BY <1>1, <1>2, <1>3, <1>6, <1>11 DEF Under, Typed
  <2>2. Under(r, p)
    BY <1>1, <1>8, <1>12, <2>1 DEF Under
  <2>3. CASE InBackground(r, Len(path[p]) + 1)
    BY <1>9, <1>15, <2>1, <2>3
  <2>4. CASE \E k \in Kids(p) \ {g} : k = r \/ Under(r, k)
    <3>1. \A k \in Kids(p) : k \in Proc
      BY DEF Kids
    <3>2. QED  BY <1>7, <1>8, <1>13, <2>4, <3>1
  <2>5. CASE g \in Kids(p) /\ g = r
    BY <1>7, <2>5
  <2>6. CASE g \in Kids(p) /\ Under(r, g) /\ r # g
    <3>1. InBackground(r, Len(path[p]) + 1)
      BY <1>1, <1>2, <2>1, <2>6, AtRest
    <3>2. QED  BY <1>9, <2>1, <2>6, <3>1
  <2>7. QED  BY <1>2, <2>1, <2>2, <2>3, <2>4, <2>5, <2>6 DEF Tended
<1>22. PipesAre'
  <2> SUFFICES ASSUME NEW p \in Proc, pc'[p] \in {"pipe left", "pipe right"}
               PROVE  Cmd(p)'.type = "PIPE"
    BY DEF PipesAre
  <2>1. p # g /\ pc'[p] = pc[p]
    BY <1>3
  <2>2. QED  BY <1>2, <1>9, <2>1 DEF PipesAre
<1>23. ListsInOrder'
  <2> SUFFICES ASSUME NEW p \in Proc, NEW q \in Proc, NEW i \in 1..Len(path'[p]),
                      Live(p)', Live(q)', job'[p] = job'[q], Len(path'[q]) >= i,
                      SubSeq(path'[p], 1, i - 1) = SubSeq(path'[q], 1, i - 1),
                      At(p, i)'.type = "LIST", path'[p][i] = "left",
                      At(q, i)'.type = "LIST", path'[q][i] = "right"
               PROVE  InBackground(p, i + 1)'
    BY DEF ListsInOrder, Passes
  <2>0. /\ path[p] \in Seq(Branch) /\ path[q] \in Seq(Branch)
        /\ path'[p] \in Seq(Branch) /\ path'[q] \in Seq(Branch)
        /\ i \in Nat /\ i + 1 \in Nat \ {0} /\ p # q /\ Live(p) /\ Live(q) /\ job[p] = job[q]
    BY <1>1, <1>2, <1>5, <1>6 DEF Typed
  <2>1. CASE i <= Len(path[p]) /\ i <= Len(path[q])
    <3>1. /\ SubSeq(path'[p], 1, i - 1) = SubSeq(path[p], 1, i - 1)
          /\ At(p, i)' = At(p, i) /\ path'[p][i] = path[p][i]
      <4>1. CASE p = g
        BY <1>4, <1>14, <2>0, <2>1, <4>1
      <4>2. CASE p # g
        BY <1>3, <1>9, <4>2
      <4>3. QED  BY <4>1, <4>2
    <3>2. /\ SubSeq(path'[q], 1, i - 1) = SubSeq(path[q], 1, i - 1)
          /\ At(q, i)' = At(q, i) /\ path'[q][i] = path[q][i]
      <4>1. CASE q = g
        BY <1>4, <1>14, <2>0, <2>1, <4>1
      <4>2. CASE q # g
        BY <1>3, <1>9, <4>2
      <4>3. QED  BY <4>1, <4>2
    <3>3. InBackground(p, i + 1)
      <4>1. /\ Len(path[q]) >= i /\ i \in 1..Len(path[p])
            /\ SubSeq(path[p], 1, i - 1) = SubSeq(path[q], 1, i - 1)
            /\ At(p, i).type = "LIST" /\ path[p][i] = "left"
            /\ At(q, i).type = "LIST" /\ path[q][i] = "right"
        BY <2>0, <2>1, <3>1, <3>2
      <4>2. QED  BY <1>2, <2>0, <4>1 DEF ListsInOrder, Passes
    <3>4. QED  BY <1>9, <1>15, <2>0, <3>3
  <2>2. CASE p = g /\ i = Len(path[g]) + 1
    BY <1>1, <1>4, <2>2
  <2>3. CASE q = g /\ i = Len(path[g]) + 1
    <3>1. path'[p] = path[p] /\ At(p, i)' = At(p, i)
      BY <1>3, <1>9, <2>0, <2>3
    <3>2. SubSeq(path[g], 1, i - 1) = SubSeq(path[p], 1, i - 1)
      BY <1>14, <2>3, <3>1
    <3>3. i - 1 \in Nat /\ i - 1 = Len(path[g]) /\ i - 1 < Len(path[p])
      BY <1>4, <2>0, <2>3, <3>1
    <3>4. \A j \in 1..(i - 1) : path[g][j] = path[p][j]
      BY <2>0, <2>3, <3>2, <3>3, SameStart
    <3>5. Under(p, g)
      BY <1>1, <2>0, <2>3, <3>3, <3>4 DEF Under, Below
    <3>6. InBackground(p, i)
      BY <1>1, <1>2, <2>0, <2>3, <3>5 DEF Tended
    <3>7. InBackground(p, i + 1)
      <4>1. PICK k \in i..Len(path[p]) : At(p, k).type = "BACK"
        BY <3>6 DEF InBackground
      <4>2. k # i
        BY <3>1, <4>1
      <4>3. k \in (i + 1)..Len(path[p])
        BY <2>0, <4>1, <4>2
      <4>4. QED  BY <4>1, <4>3 DEF InBackground
    <3>8. QED  BY <1>9, <2>0, <2>3, <3>7
  <2>4. QED
    <3>1. CASE p = g
      BY <1>3, <1>4, <2>0, <2>1, <2>2, <3>1
    <3>2. CASE q = g
      BY <1>3, <1>4, <2>0, <2>1, <2>3, <3>2
    <3>3. CASE p # g /\ q # g
      BY <1>3, <2>0, <2>1, <3>3
    <3>4. QED  BY <3>1, <3>2, <3>3
<1>24. QED
  BY <1>5, <1>16, <1>17, <1>18, <1>19, <1>20, <1>21, <1>22, <1>23 DEF Sound

LEMMA ExitKeepsSound ==
  ASSUME Sound, NEW g \in Proc, pc[g] \notin Gone, pc[g] = "exit" \/ Kids(g) = {},
         ~failed, ~failed', Exit(g), UNCHANGED <<session, lines>>
  PROVE  Sound'
<1> DEFINE gone == {q \in Proc : pc[q] = "zombie" /\ parent[q] = g}
                   \cup (IF parent[g] = init THEN {g} ELSE {})
<1>1. /\ Typed /\ Roles /\ Unique /\ Parents /\ Fresh /\ Families /\ Tended /\ PipesAre
      /\ ListsInOrder /\ Live(g) /\ UNCHANGED <<session, lines>>
  BY DEF Sound, Live, Gone
<1>2. /\ pc' = [q \in Proc |-> IF q \in gone THEN "free"
                               ELSE IF q = g THEN "zombie" ELSE pc[q]]
      /\ job' = [q \in Proc |-> IF q \in gone THEN 0 ELSE job[q]]
      /\ path' = [q \in Proc |-> IF q \in gone THEN <<>> ELSE path[q]]
      /\ parent' = [q \in Proc |-> IF parent[q] = g \/ q \in gone THEN init ELSE parent[q]]
  BY DEF Exit
<1>3. \A q \in gone : q = g \/ (pc[q] = "zombie" /\ parent[q] = g)
  OBVIOUS
<1>4. g \in gone <=> parent[g] = init
  <2>1. pc[g] # "zombie"
    BY DEF Gone
  <2>2. QED  BY <2>1
<1>5. \A q \in Proc : pc[q] = "zombie" /\ parent[q] = g => q \in gone
  OBVIOUS
<1> HIDE DEF gone
<1>6. \A q \in Proc : Live(q)' <=> Live(q) /\ q \notin gone
  BY <1>1, <1>2 DEF Live
<1>7. \A q \in Proc \ gone : /\ job'[q] = job[q] /\ path'[q] = path[q]
                             /\ parent'[q] = IF parent[q] = g THEN init ELSE parent[q]
                             /\ pc'[q] = IF q = g THEN "zombie" ELSE pc[q]
  BY <1>2
<1>8. \A p, r \in Proc \ gone : (Below(r, p)' <=> Below(r, p)) /\ (Under(r, p)' <=> Under(r, p))
  BY <1>7, BelowUnchanged
<1>9. \A p \in Proc \ gone : /\ \A k : InBackground(p, k)' <=> InBackground(p, k)
                            /\ \A i : At(p, i)' = At(p, i)
                            /\ Cmd(p)' = Cmd(p)
  BY <1>1, <1>7, BackgroundOfUnchanged
<1>10. Typed'
  <2>1. <<>> \in Seq(Branch)
    OBVIOUS
  <2>2. pc'[main] = "fork" => pc[main] = "fork"
    BY <1>2, MainIs
  <2>3. /\ pc' \in [Proc -> ShellPc \cup RunPc \cup {"free"}]
        /\ parent' \in [Proc -> Proc \cup {init}]
    BY <1>1, <1>2 DEF Typed, RunPc
  <2>4. job' \in [Proc -> Nat]
    BY <1>1, <1>2 DEF Typed
  <2>5. path' \in [Proc -> Seq(Branch)]
    <3>1. path \in [Proc -> Seq(Branch)]
      BY <1>1 DEF Typed
    <3>2. QED  BY ONLY <1>2, <2>1, <3>1
  <2>6. QED  BY <1>1, <2>2, <2>3, <2>4, <2>5 DEF Typed
<1>11. Roles'
  <2> SUFFICES ASSUME NEW p \in Proc, Live(p)'  PROVE Role(p)'
    BY DEF Roles
  <2>1. p \notin gone /\ Role(p)
    BY <1>1, <1>6 DEF Roles
  <2>2. pc'[main] = "fork" => pc[main] = "fork"
    BY <1>2, MainIs
  <2>3. job[p] = 0 => p # g
    BY <1>4, <2>1 DEF Role
  <2>4. CASE job[p] = 0
    <3>1. parent'[p] = init /\ pc'[p] = pc[p] /\ path'[p] = path[p] /\ job'[p] = 0
      BY <1>7, <2>1, <2>3, <2>4 DEF Role
    <3>2. QED  BY <2>1, <2>4, <3>1 DEF Role
  <2>5. CASE job[p] # 0
    <3>1. /\ job'[p] = job[p] /\ pc'[p] \in RunPc
      BY <1>7, <2>1, <2>5 DEF Role, RunPc
    <3>2. QED  BY <1>1, <2>1, <2>2, <2>5, <3>1 DEF Role
  <2>6. QED  BY <2>4, <2>5
<1>12. Unique'
  BY <1>1, <1>6, <1>7 DEF Unique
<1>13. Parents'
  <2> SUFFICES ASSUME NEW r \in Proc, Live(r)', parent'[r] # init
               PROVE  /\ Live(parent[r])' /\ (pc[parent[r]] # "zombie")'
                      /\ Under(r, parent[r])'
    BY DEF Parents
  <2>1. r \notin gone /\ Live(r) /\ parent'[r] = parent[r] /\ parent[r] # g
    BY <1>6, <1>7
  <2>2. /\ parent[r] \in Proc /\ Live(parent[r]) /\ pc[parent[r]] # "zombie"
        /\ Under(r, parent[r])
    BY <1>1, <2>1 DEF Parents, Typed
  <2>3. parent[r] \notin gone
    BY <1>3, <2>1, <2>2
  <2>4. Live(parent[r])' /\ pc'[parent[r]] # "zombie" /\ Under(r, parent[r])'
    BY <1>6, <1>7, <1>8, <2>1, <2>2, <2>3
  <2>5. QED  BY <2>1, <2>4
<1>14. Fresh'
  <2> SUFFICES ASSUME NEW p \in Proc, NEW q \in Proc, Live(p)', Live(q)', Below(q, p)'
               PROVE  path'[q][Len(path'[p]) + 1] \in Taken(pc'[p])
    BY DEF Fresh
  <2>1. p \notin gone /\ q \notin gone /\ Live(p) /\ Live(q) /\ Below(q, p)
    BY <1>6, <1>8
  <2>2. path[q][Len(path[p]) + 1] \in Taken(pc[p])
    BY <1>1, <2>1 DEF Fresh
  <2>3. Taken(pc[p]) \subseteq Taken(pc'[p])
    BY <1>7, <2>1 DEF Taken, Branch
  <2>4. QED  BY <1>7, <2>1, <2>2, <2>3
<1>15. \A p \in Proc : Live(p)' => Kids(p)' = IF p = g THEN {} ELSE Kids(p)
  <2> SUFFICES ASSUME NEW p \in Proc, NEW r \in Proc, Live(p)'
               PROVE  r \in Kids(p)' <=> p # g /\ r \in Kids(p)
    BY DEF Kids
  <2>1. r \in Kids(p)' <=> Live(r) /\ r \notin gone /\ parent[r] # g /\ parent[r] = p
    BY <1>6, <1>7, MainIs DEF Kids
  <2>2. p # g /\ parent[r] = p => r \notin gone
    BY <1>3, <1>4, MainIs
  <2>3. QED  BY <2>1, <2>2 DEF Kids
<1>16. \A p \in Proc : \A k \in Kids(p) : p # g => k \in Proc \ gone
  BY <1>3, <1>4, MainIs DEF Kids
<1>17. Families'
  <2> SUFFICES ASSUME NEW p \in Proc, Live(p)'  PROVE Family(p)'
    BY DEF Families
  <2>1. p \notin gone /\ Family(p)
    BY <1>1, <1>6 DEF Families
  <2>2. CASE p = g
    BY <1>7, <1>15, <2>1, <2>2 DEF Family, One, Two
  <2>3. CASE p # g
    <3>1. Kids(p)' = Kids(p) /\ pc'[p] = pc[p] /\ path'[p] = path[p]
      BY <1>7, <1>15, <2>1, <2>3
    <3>2. \A r \in Kids(p) : \A k : InBackground(r, k)' <=> InBackground(r, k)
      BY <1>9, <1>16, <2>3
    <3>3. QED  BY <2>1, <3>1, <3>2 DEF Family
  <2>4. QED  BY <2>2, <2>3
<1>18. Tended'
  <2> SUFFICES ASSUME NEW p \in Proc, NEW r \in Proc, Live(p)', Live(r)', Under(r, p)'
               PROVE  \/ InBackground(r, Len(path[p]) + 1)'
                      \/ \E k \in Kids(p)' : k = r \/ Under(r, k)'
    BY DEF Tended
  <2>1. p \notin gone /\ r \notin gone /\ Live(p) /\ Live(r) /\ Under(r, p)
    BY <1>6, <1>8
  <2>2. CASE InBackground(r, Len(path[p]) + 1)
    BY <1>7, <1>9, <2>1, <2>2
  <2>3. CASE p # g /\ \E k \in Kids(p) : k = r \/ Under(r, k)
    BY <1>8, <1>15, <1>16, <2>1, <2>3
  <2>4. CASE p = g /\ \E k \in Kids(p) : k = r \/ Under(r, k)
    <3>1. PICK k \in Kids(g) : k = r \/ Under(r, k)
      BY <2>4
    <3>2. Family(g)
      BY <1>1 DEF Families
    <3>3. InBackground(k, Len(path[g]) + 1)
      <4>1. pc[g] = "exit"
        BY <3>1
      <4>2. QED  BY <3>1, <3>2, <4>1 DEF Family, One, Two
    <3>4. k \in Proc /\ job[k] # 0 /\ Len(path[g]) + 1 \in Nat \ {0}
      BY <1>1, <3>1, MainIs DEF Kids, Parents, Under, Typed
    <3>5. InBackground(r, Len(path[g]) + 1)
      BY <1>1, <3>1, <3>3, <3>4, BackgroundBelow
    <3>6. QED  BY <2>2, <2>4, <3>5
  <2>5. QED  BY <1>1, <2>1, <2>2, <2>3, <2>4 DEF Tended
<1>19. PipesAre'
  <2> SUFFICES ASSUME NEW p \in Proc, pc'[p] \in {"pipe left", "pipe right"}
               PROVE  Cmd(p)'.type = "PIPE"
    BY DEF PipesAre
  <2>1. p \notin gone /\ pc'[p] = pc[p]
    BY <1>2
  <2>2. QED  BY <1>1, <1>9, <2>1 DEF PipesAre
<1>20. ListsInOrder'
  <2> SUFFICES ASSUME NEW p \in Proc, NEW q \in Proc, NEW i \in 1..Len(path'[p]),
                      Live(p)', Live(q)', job'[p] = job'[q], Len(path'[q]) >= i,
                      SubSeq(path'[p], 1, i - 1) = SubSeq(path'[q], 1, i - 1),
                      At(p, i)'.type = "LIST", path'[p][i] = "left",
                      At(q, i)'.type = "LIST", path'[q][i] = "right"
               PROVE  InBackground(p, i + 1)'
    BY DEF ListsInOrder, Passes
  <2>1. p \notin gone /\ q \notin gone /\ Live(p) /\ Live(q)
    BY <1>6
  <2>2. /\ path'[p] = path[p] /\ path'[q] = path[q] /\ job'[p] = job[p] /\ job'[q] = job[q]
        /\ At(p, i)' = At(p, i) /\ At(q, i)' = At(q, i)
    BY <1>7, <1>9, <2>1
  <2>3. InBackground(p, i + 1)
    BY <1>1, <2>1, <2>2 DEF ListsInOrder, Passes
  <2>4. QED  BY <1>9, <2>1, <2>3
<1>21. QED
  BY <1>10, <1>11, <1>12, <1>13, <1>14, <1>17, <1>18, <1>19, <1>20 DEF Sound

(* The shell forks a child for the line it has read: no process works for  *)
(* that line yet.                                                          *)
LEMMA ShellForkKeepsSound ==
  ASSUME Sound, NEW c \in Proc, pc[main] = "fork", pc[c] = "free", ~failed, ~failed',
         pc' = [pc EXCEPT ![main] = "wait", ![c] = "parsecmd"],
         parent' = [parent EXCEPT ![c] = main],
         job' = [job EXCEPT ![c] = lines],
         path' = [path EXCEPT ![c] = <<>>],
         UNCHANGED <<session, lines>>
  PROVE  Sound'
<1>1. /\ Typed /\ Roles /\ Unique /\ Parents /\ Fresh /\ Families /\ Tended /\ PipesAre
      /\ ListsInOrder /\ Live(main) /\ main \in Proc /\ c # main /\ ~Live(c)
  BY MainIs DEF Sound, Live
<1>2. lines \in Nat /\ lines # 0
  BY <1>1 DEF Typed
<1>3. Role(main) /\ job[main] = 0 /\ path[main] = <<>> /\ parent[main] = init
  BY <1>1 DEF Roles, Role, RunPc, Programs
<1>4. /\ pc'[main] = "wait" /\ pc'[c] = "parsecmd" /\ parent'[c] = main
      /\ job'[c] = lines /\ path'[c] = <<>>
      /\ \A p \in Proc \ {c} : job'[p] = job[p] /\ path'[p] = path[p] /\ parent'[p] = parent[p]
      /\ \A p \in Proc \ {c, main} : pc'[p] = pc[p]
  BY <1>1 DEF Typed
<1>5. Live(c)' /\ \A p \in Proc \ {c} : Live(p)' <=> Live(p)
  BY <1>1, <1>4 DEF Live
<1>6. \A p \in Proc \ {c} : Live(p) => job[p] \in Nat /\ job[p] < lines
  BY <1>1, <1>2 DEF Roles, Role, Typed
<1>7. \A p, r \in Proc \ {c} : (Below(r, p)' <=> Below(r, p)) /\ (Under(r, p)' <=> Under(r, p))
  BY <1>4, BelowUnchanged
<1>8. \A p \in Proc \ {c} : /\ \A k : InBackground(p, k)' <=> InBackground(p, k)
                            /\ \A i : At(p, i)' = At(p, i)
                            /\ Cmd(p)' = Cmd(p)
  BY <1>4, BackgroundOfUnchanged
<1>9. Typed'
  <2>1. <<>> \in Seq(Branch)
    OBVIOUS
  <2>2. QED  BY <1>1, <1>2, <1>4, <2>1 DEF Typed, ShellPc, RunPc
<1>10. Len(path'[c]) = 0 /\ ~Below(c, c)'
  BY <1>4 DEF Below
<1>11. \A p \in Proc : Live(p)' => ~Below(p, c)' /\ ~Below(c, p)'
  <2> SUFFICES ASSUME NEW p \in Proc \ {c}, Live(p)  PROVE job'[p] # job'[c]
    BY <1>5, <1>10 DEF Below
  <2>1. QED  BY <1>2, <1>4, <1>6
<1>12. Under(c, main)' /\ \A p \in Proc : Live(p)' /\ Under(c, p)' => p = main
  <2>1. Under(c, main)'
    BY <1>1, <1>2, <1>3, <1>4 DEF Under
  <2>2. ASSUME NEW p \in Proc, Live(p)', Under(c, p)'  PROVE p = main
    BY <1>1, <1>2, <1>4, <1>5, <1>11, <2>2 DEF Under, Roles, Role
  <2>3. QED  BY <2>1, <2>2
<1>13. Roles'
  <2> SUFFICES ASSUME NEW p \in Proc, Live(p)'  PROVE Role(p)'
    BY DEF Roles
  <2>1. CASE p = c
    <3>1. /\ job'[p] = lines /\ lines' = lines /\ pc'[p] = "parsecmd" /\ pc'[main] = "wait"
          /\ lines <= lines
      BY <1>2, <1>4, <2>1
    <3>2. "parsecmd" \in RunPc
      BY DEF RunPc
    <3>3. QED  BY <1>2, <3>1, <3>2 DEF Role
  <2>2. CASE p = main
    BY <1>1, <1>3, <1>4, <2>2 DEF Role, ShellPc
  <2>3. CASE p \notin {c, main}
    <3>1. Role(p)
      BY <1>1, <1>5, <2>3 DEF Roles
    <3>2. QED  BY <1>4, <2>3, <3>1 DEF Role
  <2>4. QED  BY <2>1, <2>2, <2>3
<1>14. Unique'
  <2>1. \A p \in Proc \ {c} : Live(p) => job'[p] # job'[c]
    BY <1>2, <1>4, <1>6
  <2>2. QED  BY <1>1, <1>4, <1>5, <2>1 DEF Unique
<1>15. Parents'
  <2> SUFFICES ASSUME NEW r \in Proc, Live(r)', parent'[r] # init
               PROVE  /\ Live(parent[r])' /\ (pc[parent[r]] # "zombie")'
                      /\ Under(r, parent[r])'
    BY DEF Parents
  <2>1. CASE r = c
    BY <1>1, <1>4, <1>5, <1>12, <2>1
  <2>2. CASE r # c
    <3>1. parent'[r] = parent[r] /\ Live(r)
      BY <1>4, <1>5, <2>2
    <3>2. /\ parent[r] \in Proc /\ Live(parent[r]) /\ pc[parent[r]] # "zombie"
          /\ Under(r, parent[r])
      BY <1>1, <3>1 DEF Parents, Typed
    <3>3. parent[r] # c
      BY <1>1, <3>2
    <3>4. Live(parent[r])' /\ pc'[parent[r]] # "zombie" /\ Under(r, parent[r])'
      BY <1>1, <1>4, <1>5, <1>7, <2>2, <3>1, <3>2, <3>3
    <3>5. QED  BY <3>1, <3>4
  <2>3. QED  BY <2>1, <2>2
<1>16. Fresh'
  <2> SUFFICES ASSUME NEW p \in Proc, NEW q \in Proc, Live(p)', Live(q)', Below(q, p)'
               PROVE  path'[q][Len(path'[p]) + 1] \in Taken(pc'[p])
    BY DEF Fresh
  <2>1. p # c /\ q # c
    BY <1>11
  <2>2. Live(p) /\ Live(q) /\ Below(q, p)
    BY <1>5, <1>7, <2>1
  <2>3. path[q][Len(path[p]) + 1] \in Taken(pc[p])
    BY <1>1, <2>2 DEF Fresh
  <2>4. p # main
    BY <2>3 DEF Taken
  <2>5. QED  BY <1>4, <2>1, <2>3, <2>4
<1>17. Kids(main) = {}
  BY <1>1 DEF Families, Family, One, Two
<1>18. /\ \A p \in Proc \ {c, main} : Kids(p)' = Kids(p)
       /\ Kids(main)' = {c}
  BY <1>1, <1>4, <1>5, <1>17 DEF Kids
<1>19. Kids(c)' = {}
  <2>1. \A r \in Proc \ {c} : Live(r) => parent[r] # c
    BY <1>1, MainIs DEF Parents
  <2>2. QED  BY <1>1, <1>4, <1>5, <2>1 DEF Kids
<1>20. Families'
  <2> SUFFICES ASSUME NEW p \in Proc, Live(p)'  PROVE Family(p)'
    BY DEF Families
  <2>1. CASE p = c
    BY <1>4, <1>19, <2>1 DEF Family, One, Two
  <2>2. CASE p = main
    BY <1>4, <1>18, <2>2 DEF Family, One, Two
  <2>3. CASE p \notin {c, main}
    <3>1. Family(p) /\ Kids(p)' = Kids(p) /\ pc'[p] = pc[p] /\ path'[p] = path[p]
      BY <1>1, <1>4, <1>5, <1>18, <2>3 DEF Families
    <3>2. \A r \in Kids(p) : \A k : InBackground(r, k)' <=> InBackground(r, k)
      BY <1>1, <1>8 DEF Kids
    <3>3. QED  BY <3>1, <3>2 DEF Family
  <2>4. QED  BY <2>1, <2>2, <2>3
<1>21. Tended'
  <2> SUFFICES ASSUME NEW p \in Proc, NEW r \in Proc, Live(p)', Live(r)', Under(r, p)'
               PROVE  \/ InBackground(r, Len(path[p]) + 1)'
                      \/ \E k \in Kids(p)' : k = r \/ Under(r, k)'
    BY DEF Tended
  <2>1. p # c
    BY <1>1, <1>2, <1>4, <1>11, <1>12 DEF Under
  <2>2. CASE r = c
    BY <1>12, <1>18, <2>2
  <2>3. CASE r # c
    <3>1. Live(p) /\ Live(r) /\ Under(r, p)
      BY <1>5, <1>7, <2>1, <2>3
    <3>2. CASE InBackground(r, Len(path[p]) + 1)
      BY <1>4, <1>8, <2>1, <2>3, <3>2
    <3>3. CASE \E k \in Kids(p) : k = r \/ Under(r, k)
      <4>1. Kids(p)' = Kids(p)
        BY <1>17, <1>18, <2>1, <3>3
      <4>2. \A k \in Kids(p) : k \in Proc \ {c}
        BY <1>1 DEF Kids
      <4>3. QED  BY <1>7, <2>3, <3>3, <4>1, <4>2
    <3>4. QED  BY <1>1, <3>1, <3>2, <3>3 DEF Tended
  <2>4. QED  BY <2>2, <2>3
<1>22. PipesAre'
  <2> SUFFICES ASSUME NEW p \in Proc, pc'[p] \in {"pipe left", "pipe right"}
               PROVE  Cmd(p)'.type = "PIPE"
    BY DEF PipesAre
  <2>1. p \notin {c, main} /\ pc'[p] = pc[p]
    BY <1>4
  <2>2. QED  BY <1>1, <1>8, <2>1 DEF PipesAre
<1>23. ListsInOrder'
  <2> SUFFICES ASSUME NEW p \in Proc, NEW q \in Proc, NEW i \in 1..Len(path'[p]),
                      Live(p)', Live(q)', job'[p] = job'[q], Len(path'[q]) >= i,
                      SubSeq(path'[p], 1, i - 1) = SubSeq(path'[q], 1, i - 1),
                      At(p, i)'.type = "LIST", path'[p][i] = "left",
                      At(q, i)'.type = "LIST", path'[q][i] = "right"
               PROVE  InBackground(p, i + 1)'
    BY DEF ListsInOrder, Passes
  <2>1. p # c /\ q # c /\ Live(p) /\ Live(q)
    BY <1>5, <1>10
  <2>2. /\ job[p] = job[q] /\ Len(path[q]) >= i /\ i \in 1..Len(path[p])
        /\ SubSeq(path[p], 1, i - 1) = SubSeq(path[q], 1, i - 1)
        /\ At(p, i).type = "LIST" /\ path[p][i] = "left"
        /\ At(q, i).type = "LIST" /\ path[q][i] = "right"
    BY <1>4, <1>8, <2>1
  <2>3. InBackground(p, i + 1)
    BY <1>1, <2>1, <2>2 DEF ListsInOrder, Passes
  <2>4. QED  BY <1>8, <2>1, <2>3
<1>24. QED
  BY <1>9, <1>13, <1>14, <1>15, <1>16, <1>20, <1>21, <1>22, <1>23 DEF Sound
-----------------------------------------------------------------------------
LEMMA InitSound ==
  ASSUME Init  PROVE Sound
<1>1. /\ pc = [p \in Proc |-> IF p = main THEN "getcmd" ELSE "free"]
      /\ parent = [p \in Proc |-> init] /\ job = [p \in Proc |-> 0]
      /\ path = [p \in Proc |-> <<>>] /\ lines = 0
  BY DEF Init
<1>2. \A p \in Proc : Live(p) => p = main
  BY <1>1 DEF Live
<1>3. Typed
  <2>1. <<>> \in Seq(Branch)
    OBVIOUS
  <2>2. QED  BY <1>1, <2>1, MainIs DEF Typed, ShellPc
<1>4. Roles
  BY <1>1, <1>2, MainIs DEF Roles, Role, ShellPc
<1>5. Unique /\ Parents
  BY <1>1, <1>2 DEF Unique, Parents
<1>6. \A p, q \in Proc : ~Below(p, q)
  BY <1>1 DEF Below
<1>7. Fresh /\ Tended
  BY <1>1, <1>2, <1>6 DEF Fresh, Tended, Under
<1>8. Families
  BY <1>1, MainIs DEF Families, Family, Kids, One, Two
<1>9. PipesAre
  BY <1>1 DEF PipesAre
<1>10. ListsInOrder
  BY <1>1 DEF ListsInOrder
<1>11. QED  BY <1>3, <1>4, <1>5, <1>7, <1>8, <1>9, <1>10 DEF Sound

LEMMA MainIsShell ==
  ASSUME Sound, pc[main] \in ShellPc \ {"exit"}
  PROVE  Live(main) /\ job[main] = 0
<1>1. Live(main)
  BY DEF Live, ShellPc
<1>2. pc[main] \notin RunPc
  BY DEF ShellPc, RunPc, Programs
<1>3. QED  BY <1>1, <1>2, MainIs DEF Sound, Roles, Role

LEMMA WorksForLine ==
  ASSUME Sound, NEW p \in Proc, pc[p] \in RunPc \ {"exit"}
  PROVE  Live(p) /\ job[p] # 0
<1>1. Live(p)
  BY DEF Live, RunPc, Programs
<1>2. pc[p] \notin ShellPc
  BY DEF ShellPc, RunPc, Programs
<1>3. QED  BY <1>1, <1>2 DEF Sound, Roles, Role

LEMMA Childless ==
  ASSUME Sound, NEW p \in Proc, Live(p), pc[p] \notin One \cup Two \cup {"exit"}
  PROVE  Kids(p) = {}
  BY DEF Sound, Families, Family

Alone == {"parsecmd", "runcmd", "switch", "plumb left", "plumb right"} \cup Programs

LEMMA AloneMayGo ==
  ASSUME Sound, NEW p \in Proc, pc[p] \in Alone,
         NEW to \in RunPc \ {"zombie", "pipe left", "pipe right"}
  PROVE  MayGo(p, to)
<1>1. Live(p) /\ job[p] # 0
  BY WorksForLine DEF Alone, RunPc, Programs
<1>2. Kids(p) = {}
  BY <1>1, Childless DEF Alone, Programs, One, Two
<1>3. Taken(pc[p]) = {}
  BY DEF Taken, Alone, Programs
<1>4. QED  BY <1>1, <1>2, <1>3 DEF MayGo, Live

(* The system calls.                                                       *)
LEMMA GotoKeepsSound ==
  ASSUME Sound, NEW p \in Proc, NEW to, MayGo(p, to), Goto(p, to),
         UNCHANGED <<session, parent, job, path>>,
         lines' \in Nat, lines <= lines', to = "fork" => lines < lines',
         ~failed, ~failed'
  PROVE  Sound'
<1>1. pc \in [Proc -> ShellPc \cup RunPc \cup {"free"}]
  BY DEF Sound, Typed
<1>2. to \in ShellPc \cup RunPc
  BY DEF MayGo
<1>3. pc' \in [Proc -> ShellPc \cup RunPc \cup {"free"}]
  BY <1>1, <1>2 DEF Goto
<1>4. pc'[p] = to /\ \A q \in Proc \ {p} : pc'[q] = pc[q]
  BY <1>1 DEF Goto
<1>5. \A q \in Proc : pc'[q] = pc[q] \/ MayGo(q, pc'[q])
  BY <1>4
<1>6. pc'[main] = "fork" => pc[main] = "fork" \/ lines < lines'
  BY <1>4, MainIs
<1>7. QED  BY <1>3, <1>5, <1>6, GoingKeepsSound

LEMMA WriteKeepsSound ==
  ASSUME Sound, NEW p \in Proc, NEW next, MayGo(p, next), MayGo(p, "exit"),
         write(p, next), UNCHANGED <<session, lines>>, next # "fork", ~failed, ~failed'
  PROVE  Sound'
<1>1. lines \in Nat /\ lines <= lines
  BY DEF Sound, Typed
<1>2. UNCHANGED <<parent, job, path>> /\ (Goto(p, next) \/ Goto(p, "exit"))
  BY DEF write
<1>3. QED  BY <1>1, <1>2, GotoKeepsSound

LEMMA Fork1KeepsSound ==
  ASSUME Sound, NEW g, NEW b, NEW first, NEW next, MayFork(g, b, first, next),
         fork1(g, first, job[g], Append(path[g], b), next), ~failed, ~failed'
  PROVE  Sound'
<1>1. PICK c \in Proc : Forks(g, c, b, first, next)
  BY DEF fork1, Forks
<1>2. QED  BY <1>1, ForkKeepsSound

LEMMA ReapingKeepsSound ==
  ASSUME Sound, NEW g, NEW next, MayReap(g, next), wait(g, next),
         UNCHANGED <<session, lines>>, ~failed, ~failed'
  PROVE  Sound'
<1>1. lines \in Nat /\ lines <= lines
  BY DEF Sound, Typed
<1>2. Children(g) = Kids(g)
  BY DEF Children, Kids, Live
<1>3. CASE \E c \in Kids(g) : Reaps(g, c, next)
  BY <1>3, WaitKeepsSound
<1>4. CASE Kids(g) = {} /\ Goto(g, next) /\ UNCHANGED <<parent, job, path>>
  <2>1. next # "zombie" /\ next # "fork" /\ next \in ShellPc \cup RunPc /\ g \in Proc
    BY DEF MayReap, ShellPc, RunPc, Programs
  <2>2. MayGo(g, next)
    BY <1>4, <2>1 DEF MayReap, MayGo, Live
  <2>3. QED  BY <1>1, <1>4, <2>1, <2>2, GotoKeepsSound
<1>5. QED
  <2>1. \/ \E c \in Kids(g) : Reaps(g, c, next)
        \/ Kids(g) = {} /\ Goto(g, next) /\ UNCHANGED <<parent, job, path>>
    BY <1>2 DEF wait, Reaps
  <2>2. QED  BY <1>3, <1>4, <2>1

(* The steps of main.                                                      *)
LEMMA MainKeepsSound ==
  ASSUME Sound, ~failed, ~failed', getcmd \/ mainFork \/ mainWait
  PROVE  Sound'
<1>1. main \in Proc
  BY MainIs
<1>2. lines \in Nat
  BY DEF Sound, Typed
<1>3. pc[main] \in ShellPc \ {"exit"}
  BY DEF getcmd, mainFork, mainWait, ShellPc
<1>4. Live(main) /\ job[main] = 0
  BY <1>3, MainIsShell
<1>5. CASE getcmd
  <2>1. Kids(main) = {} /\ Taken(pc[main]) = {}
    BY <1>1, <1>4, <1>5, Childless DEF getcmd, One, Two, Taken
  <2>2. MayGo(main, "fork") /\ MayGo(main, "exit")
    BY <1>4, <2>1 DEF MayGo, Live, ShellPc
  <2>3. UNCHANGED <<session, parent, job, path>>
    BY <1>5 DEF getcmd
  <2>4. CASE lines' = lines + 1 /\ Goto(main, "fork")
    BY <1>1, <1>2, <2>2, <2>3, <2>4, GotoKeepsSound
  <2>5. CASE lines' = lines /\ Goto(main, "exit")
    BY <1>1, <1>2, <2>2, <2>3, <2>5, GotoKeepsSound
  <2>6. QED  BY <1>5, <2>4, <2>5 DEF getcmd
<1>6. CASE mainFork
  <2>1. PICK c \in Proc :
          /\ pc[c] = "free"
          /\ pc' = [pc EXCEPT ![main] = "wait", ![c] = "parsecmd"]
          /\ parent' = [parent EXCEPT ![c] = main]
          /\ job' = [job EXCEPT ![c] = lines]
          /\ path' = [path EXCEPT ![c] = <<>>]
          /\ UNCHANGED <<session, lines>>
    BY <1>6 DEF mainFork, fork1
  <2>2. QED  BY <1>6, <2>1, ShellForkKeepsSound DEF mainFork
<1>7. CASE mainWait
  <2>1. MayReap(main, "getcmd")
    BY <1>1, <1>4, <1>7 DEF mainWait, MayReap, One, ShellPc, Taken
  <2>2. QED  BY <1>7, <2>1, ReapingKeepsSound DEF mainWait
<1>8. QED  BY <1>5, <1>6, <1>7

(* The steps of the processes it forks.                                    *)
LEMMA CaseKeepsSound ==
  ASSUME Sound, ~failed, ~failed', NEW p \in Proc, Case(p)
  PROVE  Sound'
<1>1. lines \in Nat /\ lines <= lines
  BY DEF Sound, Typed
<1>2. {"runcmd", "exit", "source", "filter"} \subseteq RunPc \ {"zombie", "pipe left", "pipe right"}
  BY DEF RunPc, Programs
<1>3. ASSUME pc[p] = "switch"
      PROVE  /\ Live(p) /\ job[p] # 0 /\ Kids(p) = {} /\ Taken(pc[p]) = {}
             /\ \A to \in {"runcmd", "exit", "source", "filter"} : MayGo(p, to)
  <2>1. pc[p] \in Alone /\ pc[p] \in RunPc \ {"exit"} /\ pc[p] \notin One \cup Two \cup {"exit"}
    BY <1>3 DEF Alone, RunPc, One, Two
  <2>2. Live(p) /\ job[p] # 0
    BY <2>1, WorksForLine
  <2>3. Kids(p) = {}
    BY <2>1, <2>2, Childless
  <2>4. Taken(pc[p]) = {}
    BY <1>3 DEF Taken
  <2>5. \A to \in {"runcmd", "exit", "source", "filter"} : MayGo(p, to)
    BY <1>2, <2>1, AloneMayGo
  <2>6. QED  BY <2>2, <2>3, <2>4, <2>5
<1>4. CASE EXEC(p)
  <2>1. /\ pc[p] = "switch" /\ UNCHANGED <<session, parent, job, path, lines>>
        /\ Goto(p, "exit") \/ Goto(p, "source") \/ Goto(p, "filter")
    BY <1>4 DEF EXEC, Switch
  <2>2. QED  BY <1>1, <1>3, <2>1, GotoKeepsSound
<1>5. CASE REDIR(p)
  <2>1. pc[p] = "switch" /\ UNCHANGED <<session, parent, job, lines>>
    BY <1>5 DEF REDIR, Switch
  <2>2. CASE Goto(p, "exit") /\ UNCHANGED path
    BY <1>1, <1>3, <2>1, <2>2, GotoKeepsSound
  <2>3. CASE Continue(p, "cmd")
    <3>1. Turns(p, "cmd")
      BY <2>1, <2>3 DEF Continue, Goto, Turns
    <3>2. MayTurn(p, "cmd")
      BY <1>3, <2>1 DEF MayTurn
    <3>3. QED  BY <3>1, <3>2, ContinueKeepsSound
  <2>4. QED  BY <1>5, <2>2, <2>3 DEF REDIR
<1>6. CASE LIST(p)
  <2>1. pc[p] = "switch"
    BY <1>6 DEF LIST, Switch
  <2>2. MayFork(p, "left", "runcmd", "list wait")
    BY <1>3, <2>1 DEF MayFork, Taken, Branch, One, RunPc
  <2>3. QED  BY <1>6, <2>2, Fork1KeepsSound DEF LIST
<1>7. CASE listWait(p)
  <2>1. pc[p] = "list wait" /\ wait(p, "list right") /\ UNCHANGED <<session, lines>>
    BY <1>7 DEF listWait
  <2>2. Live(p) /\ job[p] # 0
    BY <2>1, WorksForLine DEF RunPc
  <2>3. MayReap(p, "list right")
    BY <2>1, <2>2 DEF MayReap, One, RunPc, Taken
  <2>4. QED  BY <2>1, <2>3, ReapingKeepsSound
<1>8. CASE listRight(p)
  <2>1. pc[p] = "list right" /\ Turns(p, "right")
    BY <1>8 DEF listRight, Continue, Goto, Turns
  <2>2. Live(p) /\ job[p] # 0
    BY <2>1, WorksForLine DEF RunPc
  <2>3. Kids(p) = {}
    BY <2>1, <2>2, Childless DEF One, Two
  <2>4. MayTurn(p, "right")
    BY <2>1, <2>2, <2>3 DEF MayTurn, Taken
  <2>5. QED  BY <2>1, <2>4, ContinueKeepsSound
<1>9. CASE PIPE(p)
  <2>1. /\ pc[p] = "switch" /\ Cmd(p).type = "PIPE" /\ Goto(p, "pipe left")
        /\ UNCHANGED <<session, parent, job, path, lines>>
    BY <1>9 DEF PIPE, Switch
  <2>2. MayGo(p, "pipe left")
    BY <1>3, <2>1 DEF MayGo, Live, RunPc
  <2>3. QED  BY <1>1, <2>1, <2>2, GotoKeepsSound
<1>10. CASE pipeLeft(p)
  <2>1. pc[p] = "pipe left"
    BY <1>10 DEF pipeLeft
  <2>2. Live(p) /\ job[p] # 0
    BY <2>1, WorksForLine DEF RunPc
  <2>3. Kids(p) = {}
    BY <2>1, <2>2, Childless DEF One, Two
  <2>4. Cmd(p).type = "PIPE"
    BY <2>1 DEF Sound, PipesAre
  <2>5. MayFork(p, "left", "plumb left", "pipe right")
    BY <2>1, <2>2, <2>3, <2>4 DEF MayFork, Taken, Branch, One, RunPc
  <2>6. QED  BY <1>10, <2>5, Fork1KeepsSound DEF pipeLeft
<1>11. CASE pipeRight(p)
  <2>1. pc[p] = "pipe right"
    BY <1>11 DEF pipeRight
  <2>2. Live(p) /\ job[p] # 0
    BY <2>1, WorksForLine DEF RunPc
  <2>3. Cmd(p).type = "PIPE"
    BY <2>1 DEF Sound, PipesAre
  <2>4. MayFork(p, "right", "plumb right", "pipe close")
    BY <2>1, <2>2, <2>3 DEF MayFork, Taken, Branch, Two, RunPc
  <2>5. QED  BY <1>11, <2>4, Fork1KeepsSound DEF pipeRight
<1>12. CASE plumb(p)
  <2>1. /\ pc[p] \in Alone /\ Goto(p, "runcmd")
        /\ UNCHANGED <<session, parent, job, path, lines>>
    BY <1>12 DEF plumb, Alone
  <2>2. QED  BY <1>1, <1>2, <2>1, AloneMayGo, GotoKeepsSound
<1>13. CASE pipeClose(p)
  <2>1. /\ pc[p] = "pipe close" /\ Goto(p, "pipe wait")
        /\ UNCHANGED <<session, parent, job, path, lines>>
    BY <1>13 DEF pipeClose
  <2>2. Live(p) /\ job[p] # 0
    BY <2>1, WorksForLine DEF RunPc
  <2>3. MayGo(p, "pipe wait")
    BY <2>1, <2>2 DEF MayGo, RunPc, Taken
  <2>4. QED  BY <1>1, <2>1, <2>3, GotoKeepsSound
<1>14. CASE pipeWait(p)
  <2>1. /\ UNCHANGED <<session, lines>>
        /\ \/ pc[p] = "pipe wait" /\ wait(p, "pipe wait again")
           \/ pc[p] = "pipe wait again" /\ wait(p, "exit")
    BY <1>14 DEF pipeWait
  <2>2. Live(p) /\ job[p] # 0
    BY <2>1, WorksForLine DEF RunPc
  <2>3. /\ pc[p] = "pipe wait" => MayReap(p, "pipe wait again")
        /\ pc[p] = "pipe wait again" => MayReap(p, "exit")
    BY <2>2 DEF MayReap, One, RunPc, Taken
  <2>4. QED  BY <2>1, <2>3, ReapingKeepsSound
<1>15. CASE BACK(p)
  <2>1. pc[p] = "switch" /\ Cmd(p).type = "BACK"
    BY <1>15 DEF BACK, Switch
  <2>2. MayFork(p, "cmd", "runcmd", "exit")
    BY <1>3, <2>1 DEF MayFork, Taken, Branch, RunPc
  <2>3. QED  BY <1>15, <2>2, Fork1KeepsSound DEF BACK
<1>16. QED
  BY <1>4, <1>5, <1>6, <1>7, <1>8, <1>9, <1>10, <1>11, <1>12, <1>13, <1>14, <1>15 DEF Case

LEMMA HandlerKeepsSound ==
  ASSUME Sound, Catching, ~failed, ~failed', NEW p \in Proc, handler(p)
  PROVE  Sound'
<1>1. pc[p] \notin Gone /\ UNCHANGED <<session, lines>>
  BY DEF Catching, handler
<1>2. CASE ~Unread(p) /\ write(p, pc[p])
  <2>1. UNCHANGED <<parent, job, path>> /\ Goto(p, pc[p])
    BY <1>2 DEF write
  <2>2. /\ lines \in Nat /\ lines <= lines
        /\ pc \in [Proc -> ShellPc \cup RunPc \cup {"free"}]
    BY DEF Sound, Typed
  <2>3. pc' = pc
    BY <2>1, <2>2 DEF Goto
  <2>4. QED  BY <1>1, <2>1, <2>2, <2>3, GoingKeepsSound
<1>3. CASE Unread(p) /\ Exit(p) /\ (pc[p] = "exit" \/ Children(p) = {})
  <2>1. Children(p) = Kids(p)
    BY DEF Children, Kids, Live
  <2>2. QED  BY <1>1, <1>3, <2>1, ExitKeepsSound
<1>4. QED  BY <1>2, <1>3 DEF handler

LEMMA StepKeepsSound ==
  ASSUME Sound, Catching, ~failed, ~failed', NEW p \in Proc, Step(p)
  PROVE  Sound'
<1>1. lines \in Nat /\ lines <= lines
  BY DEF Sound, Typed
<1>2. {"runcmd", "switch", "exit", "source", "filter", "filter write"}
        \subseteq RunPc \ {"zombie", "pipe left", "pipe right"}
  BY DEF RunPc, Programs
<1>3. ASSUME pc[p] \in Alone
      PROVE  \A to \in {"runcmd", "switch", "exit", "source", "filter", "filter write"} :
               MayGo(p, to)
  BY <1>2, <1>3, AloneMayGo
<1>4. CASE parsecmd(p)
  <2>1. /\ pc[p] \in Alone /\ UNCHANGED <<session, parent, job, path, lines>>
        /\ Goto(p, "exit") \/ Goto(p, "runcmd")
    BY <1>4 DEF parsecmd, Alone
  <2>2. QED  BY <1>1, <1>3, <2>1, GotoKeepsSound
<1>5. CASE runcmd(p)
  <2>1. pc[p] \in Alone /\ write(p, "switch") /\ UNCHANGED <<session, lines>>
    BY <1>5 DEF runcmd, Alone
  <2>2. QED  BY <1>3, <2>1, WriteKeepsSound
<1>6. CASE exit(p)
  BY <1>6, ExitKeepsSound DEF exit, Gone
<1>7. CASE sourceWrites(p)
  <2>1. /\ pc[p] \in Alone /\ UNCHANGED <<session, lines>>
        /\ write(p, "source") \/ (Goto(p, "exit") /\ UNCHANGED <<parent, job, path>>)
    BY <1>7 DEF sourceWrites, Alone, Programs
  <2>2. CASE write(p, "source")
    BY <1>3, <2>1, <2>2, WriteKeepsSound
  <2>3. CASE Goto(p, "exit") /\ UNCHANGED <<parent, job, path>>
    BY <1>1, <1>3, <2>1, <2>3, GotoKeepsSound
  <2>4. QED  BY <2>1, <2>2, <2>3
<1>8. CASE filterReads(p)
  <2>1. /\ pc[p] \in Alone /\ UNCHANGED <<session, parent, job, path, lines>>
        /\ Goto(p, "exit") \/ Goto(p, "filter write")
    BY <1>8 DEF filterReads, Alone, Programs
  <2>2. QED  BY <1>1, <1>3, <2>1, GotoKeepsSound
<1>9. CASE filterWrites(p)
  <2>1. pc[p] \in Alone /\ write(p, "filter") /\ UNCHANGED <<session, lines>>
    BY <1>9 DEF filterWrites, Alone, Programs
  <2>2. QED  BY <1>3, <2>1, WriteKeepsSound
<1>10. QED
  BY <1>4, <1>5, <1>6, <1>7, <1>8, <1>9, CaseKeepsSound, HandlerKeepsSound DEF Step, Program

LEMMA NextKeepsSound ==
  ASSUME Sound, Catching, ~failed, ~failed', [Next]_vars
  PROVE  Sound'
<1>1. /\ lines \in Nat /\ lines <= lines
      /\ pc \in [Proc -> ShellPc \cup RunPc \cup {"free"}]
  BY DEF Sound, Typed
<1>2. CASE getcmd \/ mainFork \/ mainWait
  BY <1>2, MainKeepsSound
<1>3. CASE \E p \in Proc : Step(p)
  BY <1>3, StepKeepsSound
<1>4. CASE Interrupt
  <2>1. /\ pc' = [p \in Proc |-> IF pc[p] \in Programs THEN "exit" ELSE pc[p]]
        /\ UNCHANGED <<session, parent, job, path, lines>>
    BY <1>4 DEF Interrupt
  <2>2. "exit" \in RunPc \ {"zombie", "pipe left", "pipe right"}
    BY DEF RunPc
  <2>3. \A p \in Proc : pc[p] \in Programs => MayGo(p, "exit")
    BY <2>2, AloneMayGo DEF Alone
  <2>4. pc' \in [Proc -> ShellPc \cup RunPc \cup {"free"}]
    BY <1>1, <2>1, <2>2
  <2>5. \A p \in Proc : pc'[p] = pc[p] \/ MayGo(p, pc'[p])
    BY <2>1, <2>3
  <2>6. pc'[main] = "fork" => pc[main] = "fork"
    BY <2>1, MainIs
  <2>7. QED  BY <1>1, <2>1, <2>4, <2>5, <2>6, GoingKeepsSound
<1>5. CASE UNCHANGED vars
  BY <1>1, <1>5, GoingKeepsSound DEF vars
<1>6. QED  BY <1>2, <1>3, <1>4, <1>5 DEF Next

LEMMA FailureIsRemembered ==
  ASSUME failed, [Next]_vars  PROVE failed'
<1>1. CASE getcmd \/ mainFork \/ mainWait \/ Interrupt \/ UNCHANGED vars
  BY <1>1 DEF getcmd, mainFork, fork1, mainWait, Interrupt, vars
<1>2. ASSUME NEW p \in Proc, Case(p)  PROVE failed'
  <2>1. CASE LIST(p) \/ pipeLeft(p) \/ pipeRight(p) \/ BACK(p)
    BY <2>1 DEF LIST, pipeLeft, pipeRight, BACK, fork1
  <2>2. CASE EXEC(p) \/ REDIR(p) \/ PIPE(p)
    BY <2>2 DEF EXEC, REDIR, PIPE
  <2>3. CASE listWait(p) \/ listRight(p) \/ plumb(p) \/ pipeClose(p) \/ pipeWait(p)
    BY <2>3 DEF listWait, listRight, plumb, pipeClose, pipeWait
  <2>4. QED  BY <1>2, <2>1, <2>2, <2>3 DEF Case
<1>3. ASSUME NEW p \in Proc, Step(p)  PROVE failed'
  <2>1. CASE parsecmd(p) \/ runcmd(p) \/ exit(p) \/ handler(p)
    BY <2>1 DEF parsecmd, runcmd, exit, handler
  <2>2. CASE Program(p)
    BY <2>2 DEF Program, sourceWrites, filterReads, filterWrites
  <2>3. QED  BY <1>2, <1>3, <2>1, <2>2 DEF Step
<1>4. QED  BY <1>1, <1>3 DEF Next

(* The steps of a process move no other, but those that have ended.       *)
Moves(p) ==
  /\ pc' = [q \in Proc |-> pc'[q]]
  /\ \A q \in Proc \ {p} : pc'[q] = pc[q] \/ pc[q] \in Gone

LEMMA GotoMoves ==
  ASSUME Catching, NEW p \in Proc, NEW to, Goto(p, to)  PROVE Moves(p)
  BY DEF Catching, Goto, Moves

LEMMA WriteMoves ==
  ASSUME Catching, NEW p \in Proc, NEW to, write(p, to)  PROVE Moves(p)
  BY GotoMoves DEF write

LEMMA ExitMoves ==
  ASSUME NEW p \in Proc, Exit(p)  PROVE Moves(p)
  BY DEF Exit, Moves, Gone

LEMMA ForkMoves ==
  ASSUME Catching, NEW p \in Proc, NEW first, NEW j, NEW way, NEW next,
         fork1(p, first, j, way, next)
  PROVE  Moves(p)
<1>1. ASSUME NEW c \in Proc, pc[c] = "free", pc' = [pc EXCEPT ![p] = next, ![c] = first]
      PROVE  Moves(p)
  BY <1>1 DEF Catching, Moves, Gone
<1>2. QED  BY <1>1, ExitMoves DEF fork1

LEMMA WaitMoves ==
  ASSUME Catching, NEW p \in Proc, NEW next, wait(p, next)  PROVE Moves(p)
<1>1. ASSUME NEW c \in Children(p), pc[c] = "zombie",
             pc' = [pc EXCEPT ![p] = next, ![c] = "free"]
      PROVE  Moves(p)
  BY <1>1 DEF Catching, Moves, Gone, Children
<1>2. QED  BY <1>1, GotoMoves DEF wait

LEMMA CaseMoves ==
  ASSUME Catching, NEW p \in Proc, Case(p)  PROVE Moves(p) /\ caught' = caught
<1>1. CASE EXEC(p) \/ REDIR(p) \/ listRight(p) \/ plumb(p) \/ pipeClose(p)
  BY <1>1, GotoMoves DEF EXEC, REDIR, listRight, plumb, pipeClose, Continue
<1>2. CASE LIST(p) \/ BACK(p) \/ pipeLeft(p) \/ pipeRight(p)
  <2>1. caught' = caught
    BY <1>2 DEF LIST, BACK, pipeLeft, pipeRight, fork1
  <2>2. QED  BY <1>2, <2>1, ForkMoves DEF LIST, BACK, pipeLeft, pipeRight
<1>3. CASE listWait(p) \/ pipeWait(p)
  BY <1>3, WaitMoves DEF listWait, pipeWait
<1>4. CASE PIPE(p)
  BY <1>4, GotoMoves, ExitMoves DEF PIPE
<1>5. QED  BY <1>1, <1>2, <1>3, <1>4 DEF Case

LEMMA NextKeepsCatching ==
  ASSUME Catching, [Next]_vars  PROVE Catching'
<1>1. ASSUME NEW p \in Proc, Moves(p), caught' \subseteq caught, p \notin caught'
      PROVE  Catching'
  BY <1>1 DEF Catching, Moves
<1>2. main \in Proc /\ main \notin caught
  BY MainIs DEF Catching
<1>3. CASE getcmd \/ mainFork \/ mainWait
  <2>1. caught' = caught
    BY <1>3 DEF getcmd, mainFork, fork1, mainWait
  <2>2. Moves(main)
    BY <1>2, <1>3, GotoMoves, ForkMoves, WaitMoves DEF getcmd, mainFork, mainWait
  <2>3. QED  BY <1>1, <1>2, <2>1, <2>2
<1>4. ASSUME NEW p \in Proc, handler(p)  PROVE Catching'
  <2>1. Moves(p)
    BY <1>4, WriteMoves, ExitMoves DEF handler
  <2>2. QED  BY <1>1, <1>4, <2>1 DEF handler
<1>5. ASSUME NEW p \in Proc, p \notin caught, Case(p)  PROVE Catching'
  BY <1>1, <1>5, CaseMoves
<1>6. ASSUME NEW p \in Proc, p \notin caught, parsecmd(p) \/ runcmd(p) \/ exit(p) \/ Program(p)
      PROVE  Catching'
  <2>1. caught' = caught
    BY <1>6 DEF parsecmd, runcmd, exit, Program, sourceWrites, filterReads, filterWrites
  <2>2. Moves(p)
    BY <1>6, GotoMoves, WriteMoves, ExitMoves
       DEF parsecmd, runcmd, exit, Program, sourceWrites, filterReads, filterWrites
  <2>3. QED  BY <1>1, <1>6, <2>1, <2>2
<1>7. CASE Interrupt
  <2>1. /\ pc' = [p \in Proc |-> IF pc[p] \in Programs THEN "exit" ELSE pc[p]]
        /\ \A p \in caught' : p \in Proc \ {main} /\ pc[p] \notin Programs \cup Gone
    BY <1>7 DEF Interrupt, Gone
  <2>2. QED  BY <2>1 DEF Catching
<1>8. CASE UNCHANGED vars
  BY <1>8 DEF Catching, vars
<1>9. QED  BY <1>3, <1>4, <1>5, <1>6, <1>7, <1>8 DEF Next, Step

(* Until a fork or a pipe fails, or a handler that cannot print leaves a   *)
(* child behind, the processes of a line are the tree that runcmd builds:  *)
(* every process works for a command of its own, below that of its parent, *)
(* and is waited for or in the background.                                 *)
THEOREM IInvInvariant == Spec => []IInv
<1>1. Init => IInv
  <2>1. Init => Catching
    BY DEF Init, Catching
  <2>2. QED  BY <2>1, InitSound DEF IInv
<1>2. IInv /\ [Next]_vars => IInv'
  BY NextKeepsSound, NextKeepsCatching, FailureIsRemembered DEF IInv
<1>3. QED  BY <1>1, <1>2, PTL DEF Spec

(* The two sides of a list run one after the other, at every level of a    *)
(* line: a child whose end wait reports has left nothing in the            *)
(* foreground.  Rests on how often each case of runcmd calls wait, and on  *)
(* no process of the shell ending before it has waited: which is what      *)
(* failed excepts.                                                         *)
THEOREM ListsRunInOrder == Spec => []ListsInOrder
<1>1. IInv => ListsInOrder
  BY DEF IInv, Sound, ListsInOrder
<1>2. QED  BY <1>1, IInvInvariant, PTL

(* At the prompt nothing is left of the lines before but their background, *)
(* with the same exceptions.                                               *)
THEOREM PromptQuiet == Spec => []PromptIsQuiet
<1>1. ASSUME Sound, pc[main] = "getcmd", NEW p \in Proc \ {main}, Live(p)
      PROVE  InBackground(p, 1)
  <2>1. Live(main) /\ job[main] = 0 /\ main \in Proc
    BY <1>1, MainIsShell, MainIs DEF ShellPc
  <2>2. path[main] = <<>>
    BY <1>1, <2>1 DEF Sound, Roles, Role
  <2>3. Kids(main) = {}
    BY <1>1, <2>1, Childless DEF One, Two
  <2>4. Under(p, main)
    BY <1>1, <2>1 DEF Sound, Roles, Role, Under
  <2>5. InBackground(p, Len(path[main]) + 1)
    BY <1>1, <2>1, <2>3, <2>4 DEF Sound, Tended
  <2>6. QED  BY <2>2, <2>5
<1>2. IInv => PromptIsQuiet
  BY <1>1 DEF IInv, PromptIsQuiet
<1>3. QED  BY <1>2, IInvInvariant, PTL

-----------------------------------------------------------------------------
(* What also holds once failed.                                            *)
Base == Typed /\ Roles /\ Unique /\ Fresh

(* Of the processes but c, those that are left work for the same commands  *)
(* and take no branch back.                                                *)
StayBut(c) ==
  \A q \in Proc \ {c} : Live(q)' =>
    /\ Live(q) /\ job'[q] = job[q] /\ path'[q] = path[q]
    /\ Taken(pc[q]) \subseteq Taken(pc'[q])

Stay == \A c \in {init} : StayBut(c)

(* Where process p may go, whatever its children do.                       *)
MayPass(p, to) ==
  /\ Live(p) /\ IF job[p] = 0 THEN to \in ShellPc ELSE to \in RunPc
  /\ Taken(pc[p]) \subseteq Taken(to)

LEMMA StayingKeepsApart == ASSUME Base, Stay PROVE Unique' /\ Fresh'
<1>1. \A q \in Proc : Live(q)' =>
        /\ Live(q) /\ job'[q] = job[q] /\ path'[q] = path[q]
        /\ Taken(pc[q]) \subseteq Taken(pc'[q])
  BY MainIs DEF Stay, StayBut
<1>2. Unique'
  BY <1>1 DEF Base, Unique
<1>3. Fresh'
  <2> SUFFICES ASSUME NEW p \in Proc, NEW q \in Proc, Live(p)', Live(q)', Below(q, p)'
               PROVE  path'[q][Len(path'[p]) + 1] \in Taken(pc'[p])
    BY DEF Fresh
  <2>1. Below(q, p)
    BY <1>1 DEF Below
  <2>2. path[q][Len(path[p]) + 1] \in Taken(pc[p])
    BY <1>1, <2>1 DEF Base, Fresh
  <2>3. QED  BY <2>2, <1>1
<1>4. QED  BY <1>2, <1>3

(* Process c comes to work for a command nobody works for.                 *)
LEMMA ComingKeepsApart ==
  ASSUME Base, NEW c \in Proc, StayBut(c),
         \A q \in Proc \ {c} : Live(q) /\ job[q] = job'[c] =>
           /\ path[q] # path'[c]
           /\ ~(/\ Len(path'[c]) < Len(path[q])
                /\ \A j \in 1..Len(path'[c]) : path[q][j] = path'[c][j])
           /\ /\ Len(path[q]) < Len(path'[c])
              /\ \A j \in 1..Len(path[q]) : path'[c][j] = path[q][j]
              => path'[c][Len(path[q]) + 1] \in Taken(pc'[q])
  PROVE  Unique' /\ Fresh'
<1>1. \A q \in Proc \ {c} : Live(q)' =>
        /\ Live(q) /\ job'[q] = job[q] /\ path'[q] = path[q]
        /\ Taken(pc[q]) \subseteq Taken(pc'[q])
  BY DEF StayBut
<1>2. Unique'
  BY <1>1 DEF Base, Unique
<1>3. Fresh'
  <2> SUFFICES ASSUME NEW p \in Proc, NEW q \in Proc, Live(p)', Live(q)', Below(q, p)'
               PROVE  path'[q][Len(path'[p]) + 1] \in Taken(pc'[p])
    BY DEF Fresh
  <2>1. /\ job'[q] = job'[p] /\ Len(path'[p]) < Len(path'[q])
        /\ \A j \in 1..Len(path'[p]) : path'[q][j] = path'[p][j]
    BY DEF Below
  <2>2. CASE p # c /\ q # c
    <3>1. Below(q, p)
      BY <1>1, <2>1, <2>2 DEF Below
    <3>2. path[q][Len(path[p]) + 1] \in Taken(pc[p])
      BY <1>1, <2>2, <3>1 DEF Base, Fresh
    <3>3. QED  BY <3>2, <2>2, <1>1
  <2>3. CASE q = c /\ p # c
    BY <1>1, <2>1, <2>3
  <2>4. CASE p = c /\ q # c
    BY <1>1, <2>1, <2>4
  <2>5. CASE p = c /\ q = c
    <3>1. path'[c] = path'[p] /\ path'[c] = path'[q]
      BY <2>5
    <3>2. ~(Len(path'[c]) < Len(path'[c]))
      OBVIOUS
    <3>3. QED  BY <2>1, <3>1, <3>2
  <2>6. QED  BY <2>2, <2>3, <2>4, <2>5
<1>4. QED  BY <1>2, <1>3

(* A branch that g has not turned to leads to a command nobody works for.  *)
New(g, b, v, q) ==
  /\ path[q] # v
  /\ ~(Len(v) < Len(path[q]) /\ \A j \in 1..Len(v) : path[q][j] = v[j])
  /\ Len(path[q]) < Len(v) /\ (\A j \in 1..Len(path[q]) : v[j] = path[q][j])
     => IF q = g THEN v[Len(path[q]) + 1] = b
        ELSE v[Len(path[q]) + 1] \in Taken(pc[q])

LEMMA BranchIsNew ==
  ASSUME Base, NEW g \in Proc, Live(g), NEW b \in Branch, b \notin Taken(pc[g]),
         NEW q \in Proc, Live(q), job[q] = job[g]
  PROVE  New(g, b, Append(path[g], b), q)
<1> DEFINE w == path[g]
           u == path[q]
           v == Append(w, b)
<1>1. w \in Seq(Branch) /\ u \in Seq(Branch)
  BY DEF Base, Typed
<1>2. /\ v \in Seq(Branch) /\ Len(v) = Len(w) + 1 /\ Len(w) \in Nat
      /\ \A j \in 1..Len(w) : v[j] = w[j]
      /\ v[Len(w) + 1] = b
  BY <1>1, Appended
<1> HIDE DEF v
<1>3. Below(q, g) => u[Len(w) + 1] \in Taken(pc[g])
  BY DEF Base, Fresh
<1>4. u # v
  <2> SUFFICES ASSUME u = v  PROVE FALSE
    OBVIOUS
  <2>1. Below(q, g)
    BY <1>2 DEF Below
  <2>2. QED  BY <2>1, <1>2, <1>3
<1>5. ~(Len(v) < Len(u) /\ \A j \in 1..Len(v) : u[j] = v[j])
  <2> SUFFICES ASSUME Len(v) < Len(u), \A j \in 1..Len(v) : u[j] = v[j]  PROVE FALSE
    OBVIOUS
  <2> HIDE DEF w, u
  <2>1. Len(w) < Len(u) /\ (\A j \in 1..Len(w) : u[j] = w[j]) /\ u[Len(w) + 1] = v[Len(w) + 1]
    BY <1>1, <1>2, Longer
  <2>2. Below(q, g)
    BY <2>1 DEF Below, w, u
  <2>3. QED  BY <2>1, <2>2, <1>2, <1>3
<1>6. ASSUME Len(u) < Len(v), \A j \in 1..Len(u) : v[j] = u[j]
      PROVE  IF q = g THEN v[Len(u) + 1] = b ELSE v[Len(u) + 1] \in Taken(pc[q])
  <2>1. CASE q = g
    BY <2>1, <1>2
  <2>2. CASE q # g
    <3>1. Len(u) \in Nat
      BY <1>1
    <3> HIDE DEF w, u
    <3>2. \A j \in 1..Len(u) : j \in 1..Len(w) /\ w[j] = u[j]
      BY <3>1, <1>2, <1>6
    <3>3. Len(u) # Len(w)
      <4> SUFFICES ASSUME Len(u) = Len(w)  PROVE FALSE
        OBVIOUS
      <4>1. u = w
        BY <3>2, <1>1, SeqEqual
      <4>2. QED  BY <4>1, <2>2 DEF Base, Unique, u, w
    <3>4. Below(g, q)
      BY <3>1, <3>2, <3>3, <1>2, <1>6 DEF Below, w, u
    <3>5. w[Len(u) + 1] \in Taken(pc[q])
      BY <3>4 DEF Base, Fresh, w, u
    <3>6. Len(u) + 1 \in 1..Len(w)
      BY <3>1, <3>3, <1>2, <1>6
    <3>7. QED  BY <2>2, <3>5, <3>6, <1>2
  <2>3. QED  BY <2>1, <2>2
<1>7. QED  BY <1>4, <1>5, <1>6 DEF New, v

LEMMA GoingKeepsBase ==
  ASSUME Base, UNCHANGED <<parent, job, path>>,
         pc' \in [Proc -> ShellPc \cup RunPc \cup {"free"}],
         \A q \in Proc : pc'[q] = pc[q] \/ MayPass(q, pc'[q]),
         lines' \in Nat, lines <= lines',
         pc'[main] = "fork" => pc[main] = "fork" \/ lines < lines'
  PROVE  Base'
<1>1. \A q \in Proc : Live(q)' =>
        /\ Live(q) /\ Taken(pc[q]) \subseteq Taken(pc'[q])
        /\ pc'[q] = pc[q] \/ (IF job[q] = 0 THEN pc'[q] \in ShellPc ELSE pc'[q] \in RunPc)
  BY DEF MayPass, Live
<1>2. Unique' /\ Fresh'
  BY <1>1, StayingKeepsApart DEF Stay, StayBut
<1>3. lines \in Nat /\ (pc[main] = "fork" => lines # 0)
  BY DEF Base, Typed
<1>4. Typed'
  <2>1. pc'[main] = "fork" => lines' # 0
    BY <1>3
  <2>2. QED  BY <2>1 DEF Base, Typed
<1>5. Roles'
  <2> SUFFICES ASSUME NEW q \in Proc, Live(q)'  PROVE Role(q)'
    BY DEF Roles
  <2>1. Role(q)
    BY <1>1 DEF Base, Roles
  <2>2. CASE job[q] = 0
    BY <2>1, <2>2, <1>1 DEF Role
  <2>3. CASE job[q] # 0
    <3>1. pc'[q] \in RunPc
      BY <2>1, <2>3, <1>1 DEF Role
    <3>2. job[q] \in Nat /\ job[q] <= lines /\ (pc[main] = "fork" => job[q] < lines)
      BY <2>1, <2>3 DEF Role, Base, Typed
    <3>3. job[q] <= lines' /\ (pc'[main] = "fork" => job[q] < lines')
      BY <3>2, <1>3
    <3>4. QED  BY <2>3, <3>1, <3>3 DEF Role
  <2>4. QED  BY <2>2, <2>3
<1>6. QED  BY <1>2, <1>4, <1>5 DEF Base

LEMMA GotoKeepsBase ==
  ASSUME Base, NEW p \in Proc, NEW to, MayPass(p, to), Goto(p, to),
         UNCHANGED <<parent, job, path>>,
         lines' \in Nat, lines <= lines', to = "fork" => lines < lines'
  PROVE  Base'
<1>1. pc \in [Proc -> ShellPc \cup RunPc \cup {"free"}]
  BY DEF Base, Typed
<1>2. to \in ShellPc \cup RunPc
  BY DEF MayPass
<1>3. pc' \in [Proc -> ShellPc \cup RunPc \cup {"free"}]
  BY <1>1, <1>2 DEF Goto
<1>4. pc'[p] = to /\ \A q \in Proc \ {p} : pc'[q] = pc[q]
  BY <1>1 DEF Goto
<1>5. \A q \in Proc : pc'[q] = pc[q] \/ MayPass(q, pc'[q])
  BY <1>4
<1>6. pc'[main] = "fork" => pc[main] = "fork" \/ lines < lines'
  BY <1>4, MainIs
<1>7. QED  BY <1>3, <1>5, <1>6, GoingKeepsBase

LEMMA WriteKeepsBase ==
  ASSUME Base, NEW p \in Proc, NEW next, MayPass(p, next), MayPass(p, "exit"),
         write(p, next), UNCHANGED lines, next # "fork"
  PROVE  Base'
<1>1. lines \in Nat /\ lines <= lines
  BY DEF Base, Typed
<1>2. UNCHANGED <<parent, job, path>> /\ (Goto(p, next) \/ Goto(p, "exit"))
  BY DEF write
<1>3. QED  BY <1>1, <1>2, GotoKeepsBase

LEMMA ExitKeepsBase ==
  ASSUME Base, NEW p \in Proc, Live(p), Exit(p), UNCHANGED lines
  PROVE  Base'
<1> DEFINE gone == {q \in Proc : pc[q] = "zombie" /\ parent[q] = p}
                   \cup (IF parent[p] = init THEN {p} ELSE {})
<1>1. /\ pc' = [q \in Proc |-> IF q \in gone THEN "free" ELSE IF q = p THEN "zombie" ELSE pc[q]]
      /\ job' = [q \in Proc |-> IF q \in gone THEN 0 ELSE job[q]]
      /\ path' = [q \in Proc |-> IF q \in gone THEN <<>> ELSE path[q]]
      /\ parent' = [q \in Proc |-> IF parent[q] = p \/ q \in gone THEN init ELSE parent[q]]
  BY DEF Exit
<1>2. Typed
  BY DEF Base
<1> HIDE DEF gone
<1>3. \A q \in Proc :
        IF q \in gone THEN pc'[q] = "free"
        ELSE /\ job'[q] = job[q] /\ path'[q] = path[q] /\ parent'[q] \in {parent[q], init}
             /\ pc'[q] = IF q = p THEN "zombie" ELSE pc[q]
  BY <1>1
<1>4. \A q \in Proc : Taken(pc[q]) \subseteq Taken("zombie")
  <2>1. Taken("zombie") = Branch
    BY DEF Taken
  <2>2. QED  BY <2>1 DEF Taken, Branch
<1>5. \A q \in Proc : Live(q)' =>
        /\ q \notin gone /\ Live(q) /\ job'[q] = job[q] /\ path'[q] = path[q]
        /\ Taken(pc[q]) \subseteq Taken(pc'[q])
  BY <1>3, <1>4 DEF Live
<1>6. Unique' /\ Fresh'
  BY <1>5, StayingKeepsApart DEF Stay, StayBut
<1>7. pc'[main] = "fork" => pc[main] = "fork"
  BY <1>3, MainIs
<1>8. Typed'
  <2>1. <<>> \in Seq(Branch) /\ "zombie" \in RunPc
    BY DEF RunPc
  <2>2. QED  BY <2>1, <1>1, <1>2, <1>7 DEF Typed
<1>9. job[p] = 0 => p \in gone
  BY DEF Base, Roles, Role, gone
<1>10. Roles'
  <2> SUFFICES ASSUME NEW q \in Proc, Live(q)'  PROVE Role(q)'
    BY DEF Roles
  <2>1. Role(q) /\ q \notin gone
    BY <1>5 DEF Base, Roles
  <2>2. QED  BY <2>1, <1>3, <1>7, <1>9 DEF Role, RunPc
<1>11. QED  BY <1>6, <1>8, <1>10 DEF Base

(* A process that waits is not the one waited for.                         *)
LEMMA WaitKeepsBase ==
  ASSUME Base, NEW p \in Proc, NEW next, MayPass(p, next), pc[p] # "zombie",
         next # "fork", wait(p, next), UNCHANGED lines
  PROVE  Base'
<1>1. lines \in Nat /\ lines <= lines
  BY DEF Base, Typed
<1>2. CASE Goto(p, next) /\ UNCHANGED <<parent, job, path>>
  BY <1>1, <1>2, GotoKeepsBase
<1>3. ASSUME NEW c \in Proc, pc[c] = "zombie",
             pc' = [pc EXCEPT ![p] = next, ![c] = "free"],
             parent' = [parent EXCEPT ![c] = init],
             job' = [job EXCEPT ![c] = 0],
             path' = [path EXCEPT ![c] = <<>>]
      PROVE  Base'
  <2>1. Typed /\ next \in ShellPc \cup RunPc
    BY DEF Base, MayPass
  <2>2. /\ c # p /\ pc'[p] = next /\ pc'[c] = "free"
        /\ \A q \in Proc \ {c, p} : pc'[q] = pc[q]
        /\ \A q \in Proc \ {c} : job'[q] = job[q] /\ path'[q] = path[q] /\ parent'[q] = parent[q]
    BY <1>3, <2>1 DEF Typed
  <2>3. \A q \in Proc : Live(q)' =>
          /\ q # c /\ Live(q) /\ job'[q] = job[q] /\ path'[q] = path[q]
          /\ parent'[q] = parent[q] /\ Taken(pc[q]) \subseteq Taken(pc'[q])
          /\ pc'[q] = pc[q] \/ (IF job[q] = 0 THEN pc'[q] \in ShellPc ELSE pc'[q] \in RunPc)
    BY <2>2 DEF Live, MayPass
  <2>4. Unique' /\ Fresh'
    BY <2>3, StayingKeepsApart DEF Stay, StayBut
  <2>5. pc'[main] = "fork" => pc[main] = "fork"
    BY <2>2, MainIs
  <2>6. Typed'
    <3>1. <<>> \in Seq(Branch)
      OBVIOUS
    <3>2. QED  BY <3>1, <1>3, <2>1, <2>5 DEF Typed
  <2>7. Roles'
    <3> SUFFICES ASSUME NEW q \in Proc, Live(q)'  PROVE Role(q)'
      BY DEF Roles
    <3>1. Role(q)
      BY <2>3 DEF Base, Roles
    <3>2. QED  BY <3>1, <2>3, <2>5 DEF Role
  <2>8. QED  BY <2>4, <2>6, <2>7 DEF Base
<1>4. QED  BY <1>2, <1>3 DEF wait, Children

(* g forks c for a branch of its command.                                  *)
MayBranch(g, b, first, next) ==
  /\ g \in Proc /\ Live(g) /\ job[g] # 0
  /\ b \in Branch \ Taken(pc[g]) /\ Taken(pc[g]) \cup {b} \subseteq Taken(next)
  /\ first \in RunPc /\ next \in RunPc

LEMMA BranchKeepsBase ==
  ASSUME Base, NEW g, NEW c, NEW b, NEW first, NEW next,
         MayBranch(g, b, first, next), Forks(g, c, b, first, next)
  PROVE  Base'
<1> DEFINE v == Append(path[g], b)
<1>1. /\ g \in Proc /\ c \in Proc /\ c # g /\ Live(g) /\ job[g] # 0 /\ pc[c] = "free"
      /\ b \in Branch /\ b \notin Taken(pc[g]) /\ lines' = lines
  BY DEF MayBranch, Forks, Live
<1>2. Typed
  BY DEF Base
<1>3. v \in Seq(Branch)
  BY <1>1, <1>2 DEF Typed
<1>4. /\ pc'[g] = next /\ pc'[c] = first /\ job'[c] = job[g] /\ path'[c] = v
      /\ \A q \in Proc \ {c, g} : pc'[q] = pc[q]
      /\ \A q \in Proc \ {c} : job'[q] = job[q] /\ path'[q] = path[q] /\ parent'[q] = parent[q]
  BY <1>1, <1>2 DEF Forks, Typed
<1>5. StayBut(c)
  BY <1>1, <1>4 DEF StayBut, Live, MayBranch
<1>6. ASSUME NEW q \in Proc \ {c}, Live(q), job[q] = job'[c]
      PROVE  /\ path[q] # path'[c]
             /\ ~(/\ Len(path'[c]) < Len(path[q])
                  /\ \A j \in 1..Len(path'[c]) : path[q][j] = path'[c][j])
             /\ /\ Len(path[q]) < Len(path'[c])
                /\ \A j \in 1..Len(path[q]) : path'[c][j] = path[q][j]
                => path'[c][Len(path[q]) + 1] \in Taken(pc'[q])
  <2>1. job[q] = job[g] /\ Live(q) /\ q \in Proc
    BY <1>4, <1>6
  <2>2. New(g, b, v, q)
    BY <1>1, <2>1, BranchIsNew
  <2> HIDE DEF v
  <2>3. b \in Taken(pc'[g]) /\ (q # g => pc'[q] = pc[q])
    BY <1>4 DEF MayBranch
  <2>4. QED  BY <2>2, <2>3, <1>4 DEF New
<1>7. Unique' /\ Fresh'
  BY <1>1, <1>5, <1>6, ComingKeepsApart
<1>8. pc'[main] = "fork" => pc[main] = "fork"
  BY <1>4, MainIs DEF MayBranch, RunPc, Programs
<1>9. Typed'
  BY <1>1, <1>2, <1>3, <1>8 DEF Typed, Forks, MayBranch
<1>10. Roles'
  <2> SUFFICES ASSUME NEW q \in Proc, Live(q)'  PROVE Role(q)'
    BY DEF Roles
  <2>1. Role(g) /\ (q # c => Live(q) /\ Role(q))
    BY <1>1, <1>5 DEF Base, Roles, StayBut
  <2>2. CASE q = c
    BY <2>1, <2>2, <1>1, <1>4, <1>8 DEF Role, MayBranch
  <2>3. CASE q # c
    BY <2>1, <2>3, <1>1, <1>4, <1>8 DEF Role, MayBranch
  <2>4. QED  BY <2>2, <2>3
<1>11. QED  BY <1>7, <1>9, <1>10 DEF Base

(* The shell forks c for the line it has read.                             *)
LEMMA LineKeepsBase ==
  ASSUME Base, NEW c \in Proc, pc[main] = "fork", pc[c] = "free",
         pc' = [pc EXCEPT ![main] = "wait", ![c] = "parsecmd"],
         parent' = [parent EXCEPT ![c] = main],
         job' = [job EXCEPT ![c] = lines],
         path' = [path EXCEPT ![c] = <<>>],
         UNCHANGED lines
  PROVE  Base'
<1>1. Typed /\ main \in Proc /\ c # main /\ Live(main) /\ lines \in Nat \ {0}
  BY MainIs DEF Base, Typed, Live
<1>2. /\ pc'[main] = "wait" /\ pc'[c] = "parsecmd" /\ job'[c] = lines /\ path'[c] = <<>>
      /\ \A q \in Proc \ {c, main} : pc'[q] = pc[q]
      /\ \A q \in Proc \ {c} : job'[q] = job[q] /\ path'[q] = path[q] /\ parent'[q] = parent[q]
  BY <1>1 DEF Typed
<1>3. StayBut(c)
  <2>1. Taken(pc[main]) = {}
    BY DEF Taken
  <2>2. QED  BY <2>1, <1>1, <1>2 DEF StayBut, Live
<1>4. \A q \in Proc : Live(q) => Role(q)
  BY DEF Base, Roles
<1>5. \A q \in Proc : Live(q) => job[q] # lines
  BY <1>1, <1>4 DEF Role, Typed
<1>6. Unique' /\ Fresh'
  BY <1>2, <1>3, <1>5, ComingKeepsApart
<1>7. Typed'
  <2>1. <<>> \in Seq(Branch)
    OBVIOUS
  <2>2. QED  BY <2>1, <1>1, <1>2 DEF Typed, ShellPc, RunPc
<1>8. Roles'
  <2> SUFFICES ASSUME NEW q \in Proc, Live(q)'  PROVE Role(q)'
    BY DEF Roles
  <2>1. CASE q = c
    <3>1. pc'[c] \in RunPc /\ pc'[main] # "fork"
      BY <1>2 DEF RunPc
    <3>2. job'[c] # 0 /\ job'[c] <= lines'
      BY <1>1, <1>2
    <3>3. QED  BY <2>1, <3>1, <3>2 DEF Role
  <2>2. CASE q = main
    <3>1. Role(main)
      BY <1>1, <1>4
    <3>2. job[main] = 0
      BY <3>1 DEF Role, RunPc, Programs
    <3>3. QED  BY <2>2, <3>1, <3>2, <1>1, <1>2 DEF Role, ShellPc
  <2>3. CASE q # c /\ q # main
    <3>1. Live(q) /\ Role(q)
      BY <2>3, <1>3, <1>4 DEF StayBut
    <3>2. QED  BY <2>3, <3>1, <1>2 DEF Role
  <2>4. QED  BY <2>1, <2>2, <2>3
<1>9. QED  BY <1>6, <1>7, <1>8 DEF Base

(* g goes on with a branch of its command itself.                          *)
LEMMA TurnKeepsBase ==
  ASSUME Base, NEW g \in Proc, Live(g), job[g] # 0, NEW b \in Branch \ Taken(pc[g]),
         Continue(g, b), UNCHANGED <<lines, parent, job>>
  PROVE  Base'
<1> DEFINE v == Append(path[g], b)
<1>1. Typed /\ v \in Seq(Branch)
  BY DEF Base, Typed
<1>2. /\ pc'[g] = "runcmd" /\ path'[g] = v
      /\ \A q \in Proc \ {g} : pc'[q] = pc[q] /\ path'[q] = path[q]
  BY <1>1 DEF Continue, Goto, Typed
<1>3. StayBut(g)
  BY <1>2 DEF StayBut, Live
<1>4. ASSUME NEW q \in Proc \ {g}, Live(q), job[q] = job'[g]
      PROVE  /\ path[q] # path'[g]
             /\ ~(/\ Len(path'[g]) < Len(path[q])
                  /\ \A j \in 1..Len(path'[g]) : path[q][j] = path'[g][j])
             /\ /\ Len(path[q]) < Len(path'[g])
                /\ \A j \in 1..Len(path[q]) : path'[g][j] = path[q][j]
                => path'[g][Len(path[q]) + 1] \in Taken(pc'[q])
  <2>1. New(g, b, v, q)
    BY <1>4, BranchIsNew
  <2> HIDE DEF v
  <2>2. QED  BY <2>1, <1>2 DEF New
<1>5. Unique' /\ Fresh'
  BY <1>3, <1>4, ComingKeepsApart
<1>6. Typed'
  BY <1>1, <1>2, MainIs DEF Typed, Continue, Goto, RunPc
<1>7. Roles'
  <2> SUFFICES ASSUME NEW q \in Proc, Live(q)'  PROVE Role(q)'
    BY DEF Roles
  <2>1. Role(q)
    BY <1>3 DEF Base, Roles, StayBut
  <2>2. QED  BY <2>1, <1>2, MainIs DEF Role, RunPc
<1>8. QED  BY <1>5, <1>6, <1>7 DEF Base

LEMMA Fork1KeepsBase ==
  ASSUME Base, NEW p, NEW b, NEW first, NEW next, MayBranch(p, b, first, next),
         fork1(p, first, job[p], Append(path[p], b), next)
  PROVE  Base'
<1>1. CASE \E c \in Proc : Forks(p, c, b, first, next)
  BY <1>1, BranchKeepsBase
<1>2. CASE Exit(p) /\ UNCHANGED lines
  BY <1>2, ExitKeepsBase DEF MayBranch
<1>3. QED  BY <1>1, <1>2 DEF fork1, Forks

LEMMA Works ==
  ASSUME Base, NEW p \in Proc, pc[p] \in RunPc \ {"exit"}
  PROVE  Live(p) /\ job[p] # 0
<1>1. Live(p)
  BY DEF Live, RunPc, Programs
<1>2. pc[p] \notin ShellPc
  BY DEF ShellPc, RunPc, Programs
<1>3. QED  BY <1>1, <1>2 DEF Base, Roles, Role

LEMMA AloneMayPass ==
  ASSUME Base, NEW p \in Proc, pc[p] \in Alone
  PROVE  /\ Live(p) /\ job[p] # 0 /\ Taken(pc[p]) = {}
         /\ \A to \in RunPc : MayPass(p, to)
<1>1. Live(p) /\ job[p] # 0
  BY Works DEF Alone, RunPc, Programs
<1>2. Taken(pc[p]) = {}
  BY DEF Taken, Alone, Programs
<1>3. QED  BY <1>1, <1>2 DEF MayPass

LEMMA MainKeepsBase ==
  ASSUME Base, getcmd \/ mainFork \/ mainWait
  PROVE  Base'
<1>1. main \in Proc /\ lines \in Nat
  BY MainIs DEF Base, Typed
<1>2. pc[main] \in {"getcmd", "fork", "wait"}
  BY DEF getcmd, mainFork, mainWait
<1>3. /\ Live(main) /\ job[main] = 0 /\ Taken(pc[main]) = {}
      /\ \A to \in ShellPc : MayPass(main, to)
  <2>1. Live(main) /\ pc[main] \notin RunPc
    BY <1>2 DEF Live, RunPc, Programs
  <2>2. job[main] = 0
    BY <2>1, <1>1 DEF Base, Roles, Role
  <2>3. Taken(pc[main]) = {}
    BY <1>2 DEF Taken
  <2>4. QED  BY <2>1, <2>2, <2>3 DEF MayPass
<1>4. CASE getcmd
  <2>1. /\ UNCHANGED <<parent, job, path>>
        /\ \/ lines' = lines + 1 /\ Goto(main, "fork")
           \/ lines' = lines /\ Goto(main, "exit")
    BY <1>4 DEF getcmd
  <2>2. MayPass(main, "fork") /\ MayPass(main, "exit")
    BY <1>3 DEF ShellPc
  <2>3. QED  BY <2>1, <2>2, <1>1, GotoKeepsBase
<1>5. CASE mainFork
  <2>1. pc[main] = "fork" /\ fork1(main, "parsecmd", lines, <<>>, "wait")
    BY <1>5 DEF mainFork
  <2>2. CASE Exit(main) /\ UNCHANGED lines
    BY <2>2, <1>1, <1>3, ExitKeepsBase
  <2>3. CASE \E c \in Proc :
               /\ pc[c] = "free"
               /\ pc' = [pc EXCEPT ![main] = "wait", ![c] = "parsecmd"]
               /\ parent' = [parent EXCEPT ![c] = main]
               /\ job' = [job EXCEPT ![c] = lines]
               /\ path' = [path EXCEPT ![c] = <<>>]
               /\ UNCHANGED lines
    BY <2>1, <2>3, LineKeepsBase
  <2>4. QED  BY <2>1, <2>2, <2>3 DEF fork1
<1>6. CASE mainWait
  <2>1. pc[main] = "wait" /\ wait(main, "getcmd") /\ UNCHANGED lines
    BY <1>6 DEF mainWait
  <2>2. MayPass(main, "getcmd")
    BY <1>3 DEF ShellPc
  <2>3. QED  BY <2>1, <2>2, <1>1, WaitKeepsBase
<1>7. QED  BY <1>4, <1>5, <1>6

LEMMA HandlerKeepsBase ==
  ASSUME Base, Catching, NEW p \in Proc, handler(p)
  PROVE  Base'
<1>1. Live(p) /\ UNCHANGED lines
  BY DEF Catching, handler, Live, Gone
<1>2. CASE write(p, pc[p]) /\ ~Unread(p)
  <2>1. UNCHANGED <<parent, job, path>> /\ Goto(p, pc[p])
    BY <1>2 DEF write
  <2>2. /\ lines \in Nat /\ lines <= lines
        /\ pc \in [Proc -> ShellPc \cup RunPc \cup {"free"}]
    BY DEF Base, Typed
  <2>3. pc' = pc
    BY <2>1, <2>2 DEF Goto
  <2>4. QED  BY <1>1, <2>1, <2>2, <2>3, GoingKeepsBase
<1>3. QED  BY <1>1, <1>2, ExitKeepsBase DEF handler

LEMMA StepKeepsBase ==
  ASSUME Base, Catching, NEW p \in Proc, Step(p)
  PROVE  Base'
<1>1. lines \in Nat /\ lines <= lines
  BY DEF Base, Typed
<1>2. {"runcmd", "switch", "exit", "pipe left", "source", "filter", "filter write"} \subseteq RunPc
  BY DEF RunPc, Programs
<1>3. ASSUME pc[p] \in Alone
      PROVE  /\ Live(p) /\ job[p] # 0 /\ Taken(pc[p]) = {}
             /\ \A to \in {"runcmd", "switch", "exit", "pipe left", "source", "filter",
                           "filter write"} : MayPass(p, to)
  BY <1>2, <1>3, AloneMayPass
<1>4. CASE /\ pc[p] \in Alone /\ UNCHANGED <<parent, job, path, lines>>
           /\ \E to \in {"runcmd", "switch", "exit", "pipe left", "source", "filter",
                         "filter write"} : Goto(p, to)
  BY <1>1, <1>3, <1>4, GotoKeepsBase
<1>5. CASE /\ pc[p] \in Alone /\ UNCHANGED lines
           /\ write(p, "switch") \/ write(p, "source") \/ write(p, "filter")
  BY <1>3, <1>5, WriteKeepsBase
<1>6. ASSUME pc[p] = "switch"  PROVE pc[p] \in Alone
  BY <1>6 DEF Alone
<1>7. CASE parsecmd(p) \/ runcmd(p) \/ Program(p)
  BY <1>4, <1>5, <1>7
     DEF parsecmd, runcmd, Program, sourceWrites, filterReads, filterWrites, Alone, Programs
<1>8. CASE exit(p)
  BY <1>8, ExitKeepsBase DEF exit, Live
<1>9. CASE EXEC(p)
  BY <1>4, <1>6, <1>9 DEF EXEC, Switch
<1>10. CASE REDIR(p)
  <2>1. CASE Goto(p, "exit") /\ UNCHANGED path
    BY <1>4, <1>6, <1>10, <2>1 DEF REDIR, Switch
  <2>2. CASE Continue(p, "cmd")
    <3>1. pc[p] \in Alone /\ UNCHANGED <<lines, parent, job>>
      BY <1>6, <1>10 DEF REDIR, Switch
    <3>2. "cmd" \in Branch \ Taken(pc[p])
      BY <3>1, <1>3 DEF Branch
    <3>3. QED  BY <2>2, <3>1, <3>2, <1>3, TurnKeepsBase
  <2>3. QED  BY <1>10, <2>1, <2>2 DEF REDIR
<1>11. CASE LIST(p) \/ BACK(p)
  <2>1. pc[p] = "switch" /\ Live(p) /\ job[p] # 0 /\ Taken(pc[p]) = {}
    BY <1>3, <1>6, <1>11 DEF LIST, BACK, Switch
  <2>2. MayBranch(p, "left", "runcmd", "list wait") /\ MayBranch(p, "cmd", "runcmd", "exit")
    BY <2>1 DEF MayBranch, Taken, Branch, RunPc
  <2>3. QED  BY <1>11, <2>2, Fork1KeepsBase DEF LIST, BACK
<1>12. CASE listWait(p) \/ pipeWait(p)
  <2>1. /\ UNCHANGED lines /\ pc[p] \in {"list wait", "pipe wait", "pipe wait again"}
        /\ \/ pc[p] = "list wait" /\ wait(p, "list right")
           \/ pc[p] = "pipe wait" /\ wait(p, "pipe wait again")
           \/ pc[p] = "pipe wait again" /\ wait(p, "exit")
    BY <1>12 DEF listWait, pipeWait
  <2>2. Live(p) /\ job[p] # 0
    BY <2>1, Works DEF RunPc
  <2>3. /\ pc[p] = "list wait" => MayPass(p, "list right")
        /\ pc[p] = "pipe wait" => MayPass(p, "pipe wait again")
        /\ pc[p] = "pipe wait again" => MayPass(p, "exit")
    BY <2>2 DEF MayPass, Taken, RunPc
  <2>4. QED  BY <2>1, <2>3, WaitKeepsBase
<1>13. CASE listRight(p)
  <2>1. pc[p] = "list right" /\ Continue(p, "right") /\ UNCHANGED <<lines, parent, job>>
    BY <1>13 DEF listRight
  <2>2. Live(p) /\ job[p] # 0 /\ "right" \in Branch \ Taken(pc[p])
    BY <2>1, Works DEF RunPc, Branch, Taken
  <2>3. QED  BY <2>1, <2>2, TurnKeepsBase
<1>14. CASE PIPE(p)
  <2>1. CASE Exit(p)
    BY <1>3, <1>6, <1>14, <2>1, ExitKeepsBase DEF PIPE, Switch
  <2>2. CASE Goto(p, "pipe left") /\ UNCHANGED <<parent, job, path>>
    BY <1>4, <1>6, <1>14, <2>2 DEF PIPE, Switch
  <2>3. QED  BY <1>14, <2>1, <2>2 DEF PIPE
<1>15. CASE pipeLeft(p) \/ pipeRight(p)
  <2>1. pc[p] \in {"pipe left", "pipe right"}
    BY <1>15 DEF pipeLeft, pipeRight
  <2>2. Live(p) /\ job[p] # 0
    BY <2>1, Works DEF RunPc
  <2>3. /\ pc[p] = "pipe left" => MayBranch(p, "left", "plumb left", "pipe right")
        /\ pc[p] = "pipe right" => MayBranch(p, "right", "plumb right", "pipe close")
    BY <2>2 DEF MayBranch, Taken, Branch, RunPc
  <2>4. QED  BY <1>15, <2>3, Fork1KeepsBase DEF pipeLeft, pipeRight
<1>16. CASE plumb(p)
  BY <1>4, <1>16 DEF plumb, Alone
<1>17. CASE pipeClose(p)
  <2>1. pc[p] = "pipe close" /\ Goto(p, "pipe wait") /\ UNCHANGED <<parent, job, path, lines>>
    BY <1>17 DEF pipeClose
  <2>2. Live(p) /\ job[p] # 0
    BY <2>1, Works DEF RunPc
  <2>3. MayPass(p, "pipe wait")
    BY <2>1, <2>2 DEF MayPass, RunPc, Taken
  <2>4. QED  BY <2>1, <2>3, <1>1, GotoKeepsBase
<1>18. QED
  BY <1>7, <1>8, <1>9, <1>10, <1>11, <1>12, <1>13, <1>14, <1>15, <1>16, <1>17,
     HandlerKeepsBase DEF Step, Case

LEMMA NextKeepsBase == Base /\ Catching /\ [Next]_vars => Base'
<1> SUFFICES ASSUME Base, Catching, [Next]_vars  PROVE Base'
  OBVIOUS
<1>1. /\ lines \in Nat /\ lines <= lines
      /\ pc \in [Proc -> ShellPc \cup RunPc \cup {"free"}]
  BY DEF Base, Typed
<1>2. CASE Interrupt
  <2>1. /\ pc' = [p \in Proc |-> IF pc[p] \in Programs THEN "exit" ELSE pc[p]]
        /\ UNCHANGED <<parent, job, path, lines>>
    BY <1>2 DEF Interrupt
  <2>2. "exit" \in RunPc
    BY DEF RunPc
  <2>3. \A p \in Proc : pc[p] \in Programs => MayPass(p, "exit")
    BY <2>2, AloneMayPass DEF Alone
  <2>4. pc' \in [Proc -> ShellPc \cup RunPc \cup {"free"}]
    BY <1>1, <2>1, <2>2
  <2>5. \A p \in Proc : pc'[p] = pc[p] \/ MayPass(p, pc'[p])
    BY <2>1, <2>3
  <2>6. pc'[main] = "fork" => pc[main] = "fork"
    BY <2>1, MainIs
  <2>7. QED  BY <1>1, <2>1, <2>4, <2>5, <2>6, GoingKeepsBase
<1>3. CASE UNCHANGED vars
  BY <1>1, <1>3, GoingKeepsBase DEF vars
<1>4. QED  BY <1>2, <1>3, MainKeepsBase, StepKeepsBase DEF Next

(* Also once failed, no two processes work for the same command, and none  *)
(* for a branch before it is turned to.                                    *)
THEOREM OneCommandEach == Spec => []Base
<1>1. Init => Base
  BY InitSound DEF Sound, Base
<1>2. IInv => Catching
  BY DEF IInv
<1>3. QED  BY <1>1, <1>2, NextKeepsBase, IInvInvariant, PTL DEF Spec

-----------------------------------------------------------------------------
(* Descriptors.  node and the branch b taken at it decide what standard    *)
(* descriptor n is.                                                        *)
Sets(node, b, n) ==
  \/ node.type = "REDIR" /\ node.fd = n
  \/ node.type = "PIPE" /\ b = IF n = 0 THEN "right" ELSE "left"

Above(tree, w, i) == Node(tree, SubSeq(w, 1, i - 1))
SetAt(tree, w, i, n) == Sets(Above(tree, w, i), w[i], n)
LastSetAt(tree, w, i, n) ==
  SetAt(tree, w, i, n) /\ \A k \in i + 1..Len(w) : ~SetAt(tree, w, k, n)

End(n, k) == IF n = 0 THEN ReadEnd(k) ELSE WriteEnd(k)

(* A pipe end is of a pipe that is for a command on the way.               *)
OnWay(own, j, w, k) == \E i \in 1..Len(w) : own[k] = <<j, SubSeq(w, 1, i - 1)>>

FromAbove(own, j, w, e) ==
  \A k : e \in {ReadEnd(k), WriteEnd(k)} => k \in Pipe /\ OnWay(own, j, w, k)

(* Descriptor n is e, as the way w in the tree of line j says.  own[k] is  *)
(* the command that pipe k is for: its line and the way to it.             *)
Standard(own, tree, j, w, n, e) ==
  /\ e # Closed /\ FromAbove(own, j, w, e)
  /\ (\A i \in 1..Len(w) : ~LastSetAt(tree, w, i, n)) => e = Tty
  /\ \A i \in 1..Len(w) : LastSetAt(tree, w, i, n) =>
       IF Above(tree, w, i).type = "REDIR" THEN e = File(Above(tree, w, i).file)
       ELSE \E k \in Pipe : own[k] = <<j, SubSeq(w, 1, i - 1)>> /\ e = End(n, k)

(* The way w leads to a command of the tree.                               *)
Parts(type) ==
  CASE type \in {"LIST", "PIPE"} -> {"left", "right"}
    [] type \in {"REDIR", "BACK"} -> {"cmd"}
    [] OTHER -> {}

Leads(tree, w) == \A i \in 1..Len(w) : w[i] \in Parts(Above(tree, w, i).type)

(* The descriptors f at a command, without a pipe and with the command's.  *)
Plain(own, tree, j, w, f) ==
  /\ Leads(tree, w)
  /\ \A n \in 0..1 : Standard(own, tree, j, w, n, f[n])
  /\ f[P0] = Closed /\ f[P1] = Closed

Joined(own, tree, j, w, f) ==
  /\ Leads(tree, w) /\ Node(tree, w).type = "PIPE"
  /\ \A n \in 0..1 : Standard(own, tree, j, w, n, f[n])
  /\ \E k \in Pipe : own[k] = <<j, w>> /\ f[P0] = ReadEnd(k) /\ f[P1] = WriteEnd(k)

(* Who has the pipe of its own command open, and who that of its parent's. *)
Piping == {"pipe left", "pipe right", "pipe close"}
Plumbing == {"plumb left", "plumb right"}
Listing == {"list wait", "list right"}
(* The descriptors f of a process that is at pc on the way given.          *)
Wired(own, tree, j, at, way, f) ==
  /\ at \in Gone => f = AllClosed
  /\ at \in Piping => Joined(own, tree, j, way, f)
  /\ at \in Plumbing =>
       \E w \in Seq(Branch) : /\ way = Append(w, IF at = "plumb left" THEN "left" ELSE "right")
                              /\ Joined(own, tree, j, w, f)
  /\ at \notin Gone \cup Piping \cup Plumbing => Plain(own, tree, j, way, f)
  /\ at \in Listing => Node(tree, way).type = "LIST"

Whole(f) == f = [n \in Fd |-> f[n]]

Uses(f, k) == \E n \in Fd : f[n] \in {ReadEnd(k), WriteEnd(k)}
Follows(g, f) == Whole(g) /\ \A k : Uses(g, k) => Uses(f, k)
Used(k) == \E p \in Proc : Uses(fd[p], k)

Descriptors == fd = [p \in Proc |-> [n \in Fd |-> fd[p][n]]]

(* A command has one pipe.                                                 *)
Pipes(own) ==
  /\ own \in [Pipe -> Nat \X Seq(Branch)]
  /\ \A p \in Proc : Wired(own, session[job[p]], job[p], pc[p], path[p], fd[p])
  /\ \A k, l \in Pipe : Used(k) /\ Used(l) /\ own[k] = own[l] => k = l

WInv == /\ Descriptors /\ session \in Sessions /\ lines <= Len(session)
        /\ \E own : Pipes(own)

(* The redirections of parseredirs are of standard input and output.       *)
StandardRedirections ==
  \A s \in Sessions :
    /\ Len(s) \in Nat
    /\ \A j \in 1..Len(s), w \in Seq(Branch) :
         Leads(s[j], w) /\ Node(s[j], w).type = "REDIR" => Node(s[j], w).fd \in 0..1

LEMMA Ends ==
  /\ 0 \in Fd /\ 1 \in Fd /\ P0 \in Fd /\ P1 \in Fd
  /\ P0 \notin 0..1 /\ P1 \notin 0..1 /\ P0 # P1
  /\ \A n \in Fd : n \in 0..1 \/ n = P0 \/ n = P1
  /\ \A k : /\ ReadEnd(k) # Closed /\ WriteEnd(k) # Closed
            /\ ReadEnd(k) # Tty /\ WriteEnd(k) # Tty
            /\ \A l : /\ ReadEnd(k) # WriteEnd(l) /\ ReadEnd(k) # File(l) /\ WriteEnd(k) # File(l)
                      /\ (ReadEnd(k) = ReadEnd(l) <=> k = l)
                      /\ (WriteEnd(k) = WriteEnd(l) <=> k = l)
  /\ Tty # Closed /\ \A l : File(l) # Closed /\ File(l) # Tty
<1>1. /\ 0 \in Fd /\ 1 \in Fd /\ P0 \in Fd /\ P1 \in Fd
      /\ P0 \notin 0..1 /\ P1 \notin 0..1 /\ P0 # P1
      /\ \A n \in Fd : n \in 0..1 \/ n = P0 \/ n = P1
  BY DEF Fd, P0, P1
<1>2. /\ \A k : ReadEnd(k).kind = "read" /\ WriteEnd(k).kind = "write"
      /\ \A k : ReadEnd(k).of = k /\ WriteEnd(k).of = k
      /\ Tty.kind = "tty" /\ Closed.kind = "closed" /\ \A l : File(l).kind = "file"
  BY DEF ReadEnd, WriteEnd, Closed, Tty, File
<1>3. QED  BY <1>1, <1>2

(* A process with no descriptors uses no pipe.                             *)
LEMMA NoneUsed == \A k : ~Uses(AllClosed, k)
<1>1. \A n \in Fd : AllClosed[n] = Closed
  BY DEF AllClosed
<1>2. QED  BY <1>1, Ends DEF Uses

(* The way v goes one branch further than w.                               *)
Further(tree, w, b, v) ==
  /\ v \in Seq(Branch) /\ Len(v) = Len(w) + 1 /\ Len(w) \in Nat
  /\ v[Len(v)] = b /\ SubSeq(v, 1, Len(v) - 1) = w
  /\ Above(tree, v, Len(v)) = Node(tree, w)
  /\ \A i \in 1..Len(w) : /\ v[i] = w[i]
                          /\ Above(tree, v, i) = Above(tree, w, i)
                          /\ SubSeq(v, 1, i - 1) = SubSeq(w, 1, i - 1)

LEMMA OneFurther ==
  ASSUME NEW w \in Seq(Branch), NEW b \in Branch, NEW tree, NEW v, v = Append(w, b)
  PROVE  Further(tree, w, b, v)
<1>1. /\ v \in Seq(Branch) /\ Len(v) = Len(w) + 1 /\ Len(w) \in Nat
      /\ \A j \in 1..Len(w) : v[j] = w[j]
      /\ v[Len(w) + 1] = b
  BY Appended
<1>2. SubSeq(v, 1, Len(v) - 1) = w
  <2>1. SubSeq(v, 1, Len(w)) = [j \in 1..Len(w) |-> v[j]]
    BY <1>1
  <2>2. w = [j \in 1..Len(w) |-> w[j]]
    OBVIOUS
  <2>3. Len(v) - 1 = Len(w)
    BY <1>1
  <2>4. QED  BY <2>1, <2>2, <2>3, <1>1
<1>3. \A i \in 1..Len(w) : SubSeq(v, 1, i - 1) = SubSeq(w, 1, i - 1)
  <2> SUFFICES ASSUME NEW i \in 1..Len(w)  PROVE SubSeq(v, 1, i - 1) = SubSeq(w, 1, i - 1)
    OBVIOUS
  <2>1. i \in 1..(Len(w) + 1) /\ Len(w) <= Len(v)
    BY <1>1
  <2>2. QED  BY <2>1, <1>1, SameWay
<1>4. /\ \A i \in 1..Len(w) : Above(tree, v, i) = Above(tree, w, i)
      /\ Above(tree, v, Len(v)) = Node(tree, w)
  BY <1>2, <1>3 DEF Above
<1>5. v[Len(v)] = b
  BY <1>1
<1>6. QED  BY <1>1, <1>2, <1>3, <1>4, <1>5 DEF Further

LEMMA SetFurther ==
  ASSUME NEW w, NEW b, NEW tree, NEW v, Further(tree, w, b, v), NEW n
  PROVE  /\ \A i \in 1..Len(w) : SetAt(tree, v, i, n) <=> SetAt(tree, w, i, n)
         /\ SetAt(tree, v, Len(v), n) <=> Sets(Node(tree, w), b, n)
<1>1. /\ v[Len(v)] = b /\ Above(tree, v, Len(v)) = Node(tree, w)
      /\ \A i \in 1..Len(w) : v[i] = w[i] /\ Above(tree, v, i) = Above(tree, w, i)
  BY DEF Further
<1>2. QED  BY <1>1 DEF SetAt

LEMMA LeadsOn ==
  ASSUME NEW w \in Seq(Branch), NEW b \in Branch, NEW tree,
         Leads(tree, w), b \in Parts(Node(tree, w).type)
  PROVE  Leads(tree, Append(w, b))
<1>1. PICK v : v = Append(w, b) /\ Further(tree, w, b, v)
  BY OneFurther
<1>2. /\ Len(v) = Len(w) + 1 /\ Len(w) \in Nat /\ v[Len(v)] = b
      /\ \A i \in 1..Len(w) : v[i] = w[i] /\ Above(tree, v, i) = Above(tree, w, i)
      /\ Above(tree, v, Len(v)) = Node(tree, w)
  BY <1>1 DEF Further
<1>3. ASSUME NEW i \in 1..Len(v)  PROVE v[i] \in Parts(Above(tree, v, i).type)
  <2>1. i \in 1..Len(w) \/ i = Len(v)
    BY <1>2
  <2>2. CASE i \in 1..Len(w)
    BY <2>2, <1>2 DEF Leads
  <2>3. CASE i = Len(v)
    BY <2>3, <1>2
  <2>4. QED  BY <2>1, <2>2, <2>3
<1>4. QED  BY <1>1, <1>3 DEF Leads

(* A branch that decides nothing.                                          *)
LEMMA StandardPassesOn ==
  ASSUME NEW w \in Seq(Branch), NEW b \in Branch, NEW tree, NEW n, NEW own, NEW j, NEW e,
         Standard(own, tree, j, w, n, e), ~Sets(Node(tree, w), b, n)
  PROVE  Standard(own, tree, j, Append(w, b), n, e)
<1>0. PICK v : v = Append(w, b) /\ Further(tree, w, b, v)
  BY OneFurther
<1>1. /\ Len(v) = Len(w) + 1 /\ Len(w) \in Nat
      /\ \A i \in 1..Len(w) : /\ SetAt(tree, v, i, n) <=> SetAt(tree, w, i, n)
                              /\ Above(tree, v, i) = Above(tree, w, i)
                              /\ SubSeq(v, 1, i - 1) = SubSeq(w, 1, i - 1)
      /\ ~SetAt(tree, v, Len(v), n)
  BY <1>0, SetFurther DEF Further
<1>2. \A i \in 1..Len(w) : i \in 1..Len(v)
  BY <1>1
<1>3. ASSUME NEW i \in 1..Len(w)
      PROVE  LastSetAt(tree, v, i, n) <=> LastSetAt(tree, w, i, n)
  <2>1. \A k \in i + 1..Len(w) : k \in 1..Len(w) /\ k \in i + 1..Len(v)
    BY <1>1
  <2>2. \A k \in i + 1..Len(v) : k \in i + 1..Len(w) \/ k = Len(v)
    BY <1>1
  <2>3. QED  BY <2>1, <2>2, <1>1 DEF LastSetAt
<1>4. \A i \in 1..Len(v) : LastSetAt(tree, v, i, n) => i \in 1..Len(w)
  BY <1>1 DEF LastSetAt
<1>5. /\ (\A i \in 1..Len(v) : ~LastSetAt(tree, v, i, n)) => e = Tty
      /\ \A i \in 1..Len(v) : LastSetAt(tree, v, i, n) =>
           IF Above(tree, v, i).type = "REDIR" THEN e = File(Above(tree, v, i).file)
           ELSE \E k \in Pipe : own[k] = <<j, SubSeq(v, 1, i - 1)>> /\ e = End(n, k)
  BY <1>1, <1>2, <1>3, <1>4 DEF Standard
<1>6. FromAbove(own, j, v, e)
  <2>1. \A k : OnWay(own, j, w, k) => OnWay(own, j, v, k)
    BY <1>1, <1>2 DEF OnWay
  <2>2. FromAbove(own, j, w, e)
    BY DEF Standard
  <2>3. QED  BY <2>1, <2>2 DEF FromAbove
<1>7. e # Closed
  BY DEF Standard
<1>8. QED  BY <1>0, <1>5, <1>6, <1>7 DEF Standard

(* A branch that decides.                                                  *)
LEMMA StandardIsSet ==
  ASSUME NEW w \in Seq(Branch), NEW b \in Branch, NEW tree, NEW n, NEW own, NEW j, NEW e,
         e # Closed, Sets(Node(tree, w), b, n),
         IF Node(tree, w).type = "REDIR" THEN e = File(Node(tree, w).file)
         ELSE \E k \in Pipe : own[k] = <<j, w>> /\ e = End(n, k)
  PROVE  Standard(own, tree, j, Append(w, b), n, e)
<1>0. PICK v : v = Append(w, b) /\ Further(tree, w, b, v)
  BY OneFurther
<1>1. /\ Len(v) = Len(w) + 1 /\ Len(w) \in Nat
      /\ SubSeq(v, 1, Len(v) - 1) = w /\ Above(tree, v, Len(v)) = Node(tree, w)
      /\ SetAt(tree, v, Len(v), n)
  BY <1>0, SetFurther DEF Further
<1>2. Len(v) \in 1..Len(v)
  BY <1>1
<1>3. \A i \in 1..Len(v) : LastSetAt(tree, v, i, n) <=> i = Len(v)
  BY <1>1, <1>2 DEF LastSetAt
<1>4. FromAbove(own, j, v, e)
  <2>1. Node(tree, w).type = "REDIR" => \A k : e \notin {ReadEnd(k), WriteEnd(k)}
    BY Ends
  <2>2. \A k, l : (e = End(n, k) /\ e \in {ReadEnd(l), WriteEnd(l)}) => k = l
    BY Ends DEF End
  <2>3. QED  BY <2>1, <2>2, <1>1, <1>2 DEF FromAbove, OnWay
<1>5. \A i \in 1..Len(v) :
        LastSetAt(tree, v, i, n) =>
          IF Above(tree, v, i).type = "REDIR" THEN e = File(Above(tree, v, i).file)
          ELSE \E k \in Pipe : own[k] = <<j, SubSeq(v, 1, i - 1)>> /\ e = End(n, k)
  BY <1>1, <1>3
<1>6. ~\A i \in 1..Len(v) : ~LastSetAt(tree, v, i, n)
  BY <1>2, <1>3
<1>7. QED  BY <1>0, <1>4, <1>5, <1>6 DEF Standard

(* Nothing but the terminal before the first branch.                       *)
LEMMA StandardAtStart ==
  ASSUME NEW tree, NEW n, NEW own, NEW j, NEW e
  PROVE  Standard(own, tree, j, <<>>, n, e) <=> e = Tty
<1>1. 1..Len(<<>>) = {}
  OBVIOUS
<1>2. FromAbove(own, j, <<>>, Tty)
  BY Ends DEF FromAbove
<1>3. QED  BY <1>1, <1>2, Ends DEF Standard

(* The descriptors of one process, as it goes on.                          *)
LEMMA PlainGoesOn ==
  ASSUME NEW own, NEW tree, NEW j, NEW w, NEW f, NEW to,
         Plain(own, tree, j, w, f), to \notin Gone \cup Piping \cup Plumbing,
         to \in Listing => Node(tree, w).type = "LIST"
  PROVE  Wired(own, tree, j, to, w, f)
BY DEF Wired

(* Where a process has no other descriptors than the standard ones.        *)
LEMMA PlainAt ==
  ASSUME NEW own, NEW tree, NEW j, NEW at, NEW w, NEW f,
         Wired(own, tree, j, at, w, f), at \notin Gone \cup Piping \cup Plumbing
  PROVE  Plain(own, tree, j, w, f)
BY DEF Wired

(* A pipe that is not used may be given to another command.                *)
LEMMA StandardElsewhere ==
  ASSUME NEW own, NEW own2, NEW tree, NEW j, NEW w, NEW n \in 0..1, NEW e, NEW k0,
         \A k \in Pipe \ {k0} : own2[k] = own[k], e # ReadEnd(k0), e # WriteEnd(k0),
         Standard(own, tree, j, w, n, e)
  PROVE  Standard(own2, tree, j, w, n, e)
<1>1. \A k : e \in {ReadEnd(k), WriteEnd(k)} => k # k0
  OBVIOUS
<1>2. \A k \in Pipe : e = End(n, k) => own2[k] = own[k]
  BY <1>1 DEF End
<1>3. FromAbove(own2, j, w, e)
  BY <1>1 DEF Standard, FromAbove, OnWay
<1>4. QED  BY <1>2, <1>3 DEF Standard

LEMMA WiredElsewhere ==
  ASSUME NEW own, NEW own2, NEW tree, NEW j, NEW at, NEW way, NEW f, NEW k0,
         \A k \in Pipe \ {k0} : own2[k] = own[k], ~Uses(f, k0),
         Wired(own, tree, j, at, way, f)
  PROVE  Wired(own2, tree, j, at, way, f)
<1>1. \A n \in Fd : f[n] # ReadEnd(k0) /\ f[n] # WriteEnd(k0)
  BY DEF Uses
<1>2. \A w : \A n \in 0..1 :
        Standard(own, tree, j, w, n, f[n]) => Standard(own2, tree, j, w, n, f[n])
  <2>1. \A n \in 0..1 : n \in Fd
    BY DEF Fd
  <2>2. QED  BY <1>1, <2>1, StandardElsewhere
<1>3. \A k : f[P0] = ReadEnd(k) => k # k0
  BY <1>1, Ends
<1>4. \A w : Joined(own, tree, j, w, f) => Joined(own2, tree, j, w, f)
  BY <1>2, <1>3 DEF Joined
<1>5. \A w : Plain(own, tree, j, w, f) => Plain(own2, tree, j, w, f)
  BY <1>2 DEF Plain
<1>6. QED  BY <1>4, <1>5 DEF Wired

(* A pipe that is used is one of the pipes, and it is for the command of   *)
(* the process or for one above it.                                        *)
LEMMA UsedFromAbove ==
  ASSUME NEW own, NEW tree, NEW j, NEW at, NEW way \in Seq(Branch), NEW f, NEW k,
         Wired(own, tree, j, at, way, f), Uses(f, k)
  PROVE  /\ k \in Pipe /\ at \notin Gone
         /\ (at \in Piping /\ own[k] = <<j, way>>) \/ OnWay(own, j, way, k)
<1>1. at \notin Gone
  BY NoneUsed DEF Wired
<1>2. PICK n \in Fd : f[n] \in {ReadEnd(k), WriteEnd(k)}
  BY DEF Uses
<1>3. n \in 0..1 \/ n = P0 \/ n = P1
  BY Ends
<1>4. CASE at \notin Piping \cup Plumbing
  <2>1. Plain(own, tree, j, way, f)
    BY <1>1, <1>4, PlainAt
  <2>2. n \in 0..1
    BY <2>1, <1>2, <1>3, Ends DEF Plain
  <2>3. FromAbove(own, j, way, f[n])
    BY <2>1, <2>2 DEF Plain, Standard
  <2>4. QED  BY <2>3, <1>1, <1>2 DEF FromAbove
<1>5. ASSUME NEW w, Joined(own, tree, j, w, f)
      PROVE  k \in Pipe /\ (own[k] = <<j, w>> \/ OnWay(own, j, w, k))
  <2>1. CASE n \in 0..1
    <3>1. FromAbove(own, j, w, f[n])
      BY <1>5, <2>1 DEF Joined, Standard
    <3>2. QED  BY <3>1, <1>2 DEF FromAbove
  <2>2. CASE n = P0 \/ n = P1
    <3>1. PICK l \in Pipe : own[l] = <<j, w>> /\ f[P0] = ReadEnd(l) /\ f[P1] = WriteEnd(l)
      BY <1>5 DEF Joined
    <3>2. k = l
      BY <3>1, <2>2, <1>2, Ends
    <3>3. QED  BY <3>1, <3>2
  <2>3. QED  BY <2>1, <2>2, <1>3
<1>6. CASE at \in Piping
  <2>1. Joined(own, tree, j, way, f)
    BY <1>6 DEF Wired
  <2>2. QED  BY <2>1, <1>1, <1>5, <1>6
<1>7. CASE at \in Plumbing
  <2>1. PICK w \in Seq(Branch) : /\ way = Append(w, IF at = "plumb left" THEN "left" ELSE "right")
                                 /\ Joined(own, tree, j, w, f)
    BY <1>7 DEF Wired
  <2> DEFINE b == IF at = "plumb left" THEN "left" ELSE "right"
  <2>2. b \in Branch /\ way = Append(w, b)
    BY <2>1 DEF Branch
  <2> HIDE DEF b
  <2>3. /\ Len(way) = Len(w) + 1 /\ Len(w) \in Nat /\ SubSeq(way, 1, Len(way) - 1) = w
        /\ \A i \in 1..Len(w) : SubSeq(way, 1, i - 1) = SubSeq(w, 1, i - 1)
    <3>1. Further(tree, w, b, way)
      BY <2>2, OneFurther
    <3>2. QED  BY <3>1 DEF Further
  <2>4. \A i \in 1..Len(w) : i \in 1..Len(way)
    BY <2>3
  <2>5. Len(way) \in 1..Len(way)
    BY <2>3
  <2>6. k \in Pipe /\ (own[k] = <<j, w>> \/ OnWay(own, j, w, k))
    BY <2>1, <1>5
  <2>7. QED  BY <2>3, <2>4, <2>5, <2>6, <1>1 DEF OnWay
<1>8. QED  BY <1>4, <1>6, <1>7

(* The standard descriptors are open, wherever a process is.               *)
LEMMA Lowest ==
  ASSUME NEW f, Whole(f), NEW n \in 0..1, f[0] # Closed, f[1] # Closed,
         NEW e
  PROVE  Opened(Close(f, n), e) = [f EXCEPT ![n] = e]
<1> DEFINE g == Close(f, n)
           Is(m) == m \in Fd /\ g[m] = Closed /\ \A o \in Fd : g[o] = Closed => m <= o
<1>1. n \in Fd /\ n \in Int /\ \A o \in Fd : o \in Int /\ o >= 0
  BY DEF Fd
<1>2. g[n] = Closed /\ \A o \in Fd \ {n} : g[o] = f[o]
  BY <1>1 DEF Close, Whole
<1>3. \A o \in Fd : g[o] = Closed => n <= o
  <2>1. \A o \in Fd : o = 0 \/ o = 1 \/ o >= 3
    BY DEF Fd
  <2>2. QED  BY <2>1, <1>1, <1>2
<1> HIDE DEF g
<1>4. Is(n) /\ \A m : Is(m) => m = n
  <2>1. Is(n)
    BY <1>1, <1>2, <1>3
  <2>2. ASSUME NEW m, Is(m)  PROVE m = n
    <3>1. m <= n /\ n <= m /\ m \in Int
      BY <2>1, <2>2, <1>1
    <3>2. QED  BY <3>1, <1>1
  <2>3. QED  BY <2>1, <2>2
<1>5. (CHOOSE m \in Fd : g[m] = Closed /\ \A o \in Fd : g[o] = Closed => m <= o) = n
  BY <1>4
<1>6. Opened(g, e) = [g EXCEPT ![n] = e]
  BY <1>5 DEF Opened
<1>7. [Close(f, n) EXCEPT ![n] = e] = [f EXCEPT ![n] = e]
  <2>1. Close(f, n) = [m \in Fd |-> IF m = n THEN Closed ELSE f[m]]
    BY <1>1 DEF Close, Whole
  <2>2. [f EXCEPT ![n] = e] = [m \in Fd |-> IF m = n THEN e ELSE f[m]]
    BY <1>1 DEF Whole
  <2>3. QED  BY <2>1, <2>2
<1>8. QED  BY <1>6, <1>7 DEF g

(* The processes that go on as they were, those that are gone, and those   *)
(* that come with descriptors of pipes that somebody has already.          *)
Rests(q) == pc'[q] = pc[q] /\ job'[q] = job[q] /\ path'[q] = path[q] /\ fd'[q] = fd[q]
Leaves(q) == pc[q] \in Gone /\ pc'[q] \in Gone /\ fd'[q] = fd[q]
Drops(q) == pc'[q] \in Gone /\ fd'[q] = AllClosed
Comes(own, q) ==
  /\ Wired(own, session[job'[q]], job'[q], pc'[q], path'[q], fd'[q])
  /\ \A k : Uses(fd'[q], k) => Used(k)

(* Who is gone has no descriptors.                                         *)
LEMMA GoneIsWired ==
  ASSUME NEW own, NEW tree, NEW j, NEW at \in Gone, NEW way
  PROVE  Wired(own, tree, j, at, way, AllClosed)
<1>1. at \notin Piping /\ at \notin Plumbing /\ at \notin Listing
  BY DEF Gone, Piping, Plumbing, Listing
<1>2. QED  BY <1>1 DEF Wired

LEMMA PipesMove ==
  ASSUME NEW own, Pipes(own), UNCHANGED session,
         \A q \in Proc : Rests(q) \/ Leaves(q) \/ Drops(q) \/ Comes(own, q)
  PROVE  Pipes(own)'
<1>1. ASSUME NEW q \in Proc
      PROVE  /\ Wired(own, session'[job'[q]], job'[q], pc'[q], path'[q], fd'[q])
             /\ \A k : Uses(fd'[q], k) => Used(k)
  <2>1. Wired(own, session[job[q]], job[q], pc[q], path[q], fd[q])
    BY DEF Pipes
  <2>2. CASE Rests(q)
    BY <2>1, <2>2 DEF Rests, Used
  <2>3. CASE Leaves(q)
    <3>1. pc[q] \in Gone /\ pc'[q] \in Gone /\ fd'[q] = fd[q]
      BY <2>3 DEF Leaves
    <3>2. fd'[q] = AllClosed
      BY <2>1, <3>1 DEF Wired
    <3>3. QED  BY <3>1, <3>2, GoneIsWired, NoneUsed
  <2>4. CASE Drops(q)
    BY <2>4, GoneIsWired, NoneUsed DEF Drops
  <2>5. CASE Comes(own, q)
    BY <2>5 DEF Comes
  <2>6. QED  BY <2>2, <2>3, <2>4, <2>5
<1>2. \A k : Used(k)' => Used(k)
  BY <1>1 DEF Used
<1>3. QED  BY <1>1, <1>2 DEF Pipes

(* A process that goes on with the descriptors it has.                     *)
LEMMA GoesWired ==
  ASSUME NEW own, Pipes(own), NEW q \in Proc,
         pc[q] \notin Gone \cup Piping \cup Plumbing,
         pc'[q] \notin Gone \cup Piping \cup Plumbing,
         job'[q] = job[q], path'[q] = path[q], fd'[q] = fd[q],
         pc'[q] \in Listing => Node(session[job[q]], path[q]).type = "LIST"
  PROVE  Comes(own, q)
<1>1. Wired(own, session[job[q]], job[q], pc[q], path[q], fd[q])
  BY DEF Pipes
<1>2. Plain(own, session[job[q]], job[q], path[q], fd[q])
  BY <1>1, PlainAt
<1>3. Wired(own, session[job[q]], job[q], pc'[q], path[q], fd[q])
  BY <1>2, PlainGoesOn
<1>4. QED  BY <1>3 DEF Comes, Used

(* A process that has ended.                                               *)
LEMMA ExitKeepsPipes ==
  ASSUME NEW own, Pipes(own), Descriptors, Typed, UNCHANGED session, NEW p \in Proc, Exit(p)
  PROVE  Pipes(own)' /\ Descriptors'
<1> DEFINE gone == {q \in Proc : pc[q] = "zombie" /\ parent[q] = p}
                   \cup (IF parent[p] = init THEN {p} ELSE {})
<1>1. /\ pc' = [q \in Proc |-> IF q \in gone THEN "free" ELSE IF q = p THEN "zombie" ELSE pc[q]]
      /\ job' = [q \in Proc |-> IF q \in gone THEN 0 ELSE job[q]]
      /\ path' = [q \in Proc |-> IF q \in gone THEN <<>> ELSE path[q]]
      /\ fd' = [fd EXCEPT ![p] = AllClosed]
  BY DEF Exit
<1>2. \A q \in gone : q = p \/ pc[q] = "zombie"
  OBVIOUS
<1> HIDE DEF gone
<1>3. fd'[p] = AllClosed /\ \A q \in Proc \ {p} : fd'[q] = fd[q]
  BY <1>1 DEF Descriptors
<1>4. Drops(p)
  BY <1>1, <1>3 DEF Drops, Gone
<1>5. ASSUME NEW q \in Proc \ {p}  PROVE Rests(q) \/ Leaves(q)
  BY <1>1, <1>2, <1>3 DEF Rests, Leaves, Gone
<1>6. Pipes(own)'
  BY <1>4, <1>5, PipesMove
<1>7. Descriptors'
  <2>1. AllClosed = [n \in Fd |-> AllClosed[n]]
    BY DEF AllClosed
  <2>2. fd' = [q \in Proc |-> IF q = p THEN AllClosed ELSE fd[q]]
    BY <1>1 DEF Descriptors
  <2>3. \A q \in Proc : fd[q] = [n \in Fd |-> fd[q][n]]
    BY DEF Descriptors
  <2>4. \A q \in Proc : fd'[q] = [n \in Fd |-> fd'[q][n]]
    BY <1>3, <2>1, <2>3
  <2>5. QED  BY <2>2, <2>4 DEF Descriptors
<1>8. QED  BY <1>6, <1>7

(* A process that goes somewhere else and leaves the descriptors alone.    *)
LEMMA GotoKeepsPipes ==
  ASSUME NEW own, Pipes(own), Typed, UNCHANGED <<session, job, path, fd>>,
         NEW p \in Proc, NEW to, Goto(p, to),
         pc[p] \notin Gone \cup Piping \cup Plumbing, to \notin Gone \cup Piping \cup Plumbing,
         to \in Listing => Cmd(p).type = "LIST"
  PROVE  Pipes(own)'
<1>1. pc'[p] = to /\ \A q \in Proc \ {p} : pc'[q] = pc[q]
  BY DEF Goto, Typed
<1>2. Comes(own, p)
  BY <1>1, GoesWired DEF Cmd
<1>3. \A q \in Proc \ {p} : Rests(q)
  BY <1>1 DEF Rests
<1>4. QED  BY <1>2, <1>3, PipesMove

(* A process that waits.                                                   *)
LEMMA WaitKeepsPipes ==
  ASSUME NEW own, Pipes(own), Typed, UNCHANGED <<session, fd>>,
         NEW p \in Proc, NEW next, wait(p, next),
         pc[p] \notin Gone \cup Piping \cup Plumbing, next \notin Gone \cup Piping \cup Plumbing,
         next \in Listing => Cmd(p).type = "LIST"
  PROVE  Pipes(own)'
<1>1. CASE Goto(p, next) /\ UNCHANGED <<parent, job, path>>
  BY <1>1, GotoKeepsPipes
<1>2. ASSUME NEW c \in Proc, pc[c] = "zombie",
             pc' = [pc EXCEPT ![p] = next, ![c] = "free"],
             job' = [job EXCEPT ![c] = 0],
             path' = [path EXCEPT ![c] = <<>>]
      PROVE  Pipes(own)'
  <2>1. c # p
    BY <1>2 DEF Gone
  <2>2. /\ pc'[p] = next /\ pc'[c] = "free"
        /\ \A q \in Proc \ {c, p} : pc'[q] = pc[q]
        /\ \A q \in Proc \ {c} : job'[q] = job[q] /\ path'[q] = path[q]
    BY <1>2, <2>1 DEF Typed
  <2>3. Comes(own, p)
    BY <2>1, <2>2, GoesWired DEF Cmd
  <2>4. Leaves(c)
    BY <1>2, <2>2 DEF Leaves, Gone
  <2>5. \A q \in Proc \ {c, p} : Rests(q)
    BY <2>2 DEF Rests
  <2>6. QED  BY <2>3, <2>4, <2>5, PipesMove
<1>3. QED  BY <1>1, <1>2 DEF wait, Children

(* A child has the descriptors of its parent.                              *)
LEMMA Fork1KeepsPipes ==
  ASSUME NEW own, Pipes(own), Descriptors, Typed, UNCHANGED session,
         NEW p \in Proc, pc[p] # "free", NEW first, NEW j, NEW way, NEW next,
         fork1(p, first, j, way, next),
         Wired(own, session[j], j, first, way, fd[p]),
         Wired(own, session[job[p]], job[p], next, path[p], fd[p])
  PROVE  Pipes(own)' /\ Descriptors'
<1>1. CASE Exit(p)
  BY <1>1, ExitKeepsPipes
<1>2. ASSUME NEW c \in Proc, pc[c] = "free",
             pc' = [pc EXCEPT ![p] = next, ![c] = first],
             job' = [job EXCEPT ![c] = j],
             path' = [path EXCEPT ![c] = way],
             fd' = [fd EXCEPT ![c] = fd[p]]
      PROVE  Pipes(own)' /\ Descriptors'
  <2>1. c # p
    BY <1>2
  <2>2. fd' = [q \in Proc |-> IF q = c THEN fd[p] ELSE fd[q]]
    BY <1>2 DEF Descriptors
  <2>3. /\ pc'[p] = next /\ pc'[c] = first /\ job'[c] = j /\ path'[c] = way /\ fd'[c] = fd[p]
        /\ \A q \in Proc \ {c, p} : pc'[q] = pc[q]
        /\ \A q \in Proc \ {c} : job'[q] = job[q] /\ path'[q] = path[q] /\ fd'[q] = fd[q]
    BY <1>2, <2>1, <2>2 DEF Typed
  <2>4. Comes(own, p)
    BY <2>1, <2>3 DEF Comes, Used
  <2>5. Comes(own, c)
    BY <2>3 DEF Comes, Used
  <2>6. \A q \in Proc \ {c, p} : Rests(q)
    BY <2>3 DEF Rests
  <2>7. Pipes(own)'
    BY <2>4, <2>5, <2>6, PipesMove
  <2>8. \A q \in Proc : fd'[q] = [n \in Fd |-> fd'[q][n]]
    BY <2>2 DEF Descriptors
  <2>9. QED  BY <2>2, <2>7, <2>8 DEF Descriptors
<1>3. QED  BY <1>1, <1>2 DEF fork1

(* A process that opens or closes descriptors for itself.                  *)
LEMMA PlumbingKeepsPipes ==
  ASSUME NEW own, Pipes(own), Descriptors, Typed, UNCHANGED <<session, job>>,
         NEW p \in Proc, NEW to, NEW way, NEW f,
         Goto(p, to), fd' = [fd EXCEPT ![p] = f], path' = [path EXCEPT ![p] = way],
         Wired(own, session[job[p]], job[p], to, way, f), Follows(f, fd[p])
  PROVE  Pipes(own)' /\ Descriptors'
<1>1. fd' = [q \in Proc |-> IF q = p THEN f ELSE fd[q]]
  BY DEF Descriptors
<1>2. /\ pc'[p] = to /\ path'[p] = way /\ fd'[p] = f
      /\ \A q \in Proc \ {p} : pc'[q] = pc[q] /\ path'[q] = path[q] /\ fd'[q] = fd[q]
  BY <1>1 DEF Goto, Typed
<1>3. Comes(own, p)
  BY <1>2 DEF Comes, Used, Follows
<1>4. \A q \in Proc \ {p} : Rests(q)
  BY <1>2 DEF Rests
<1>5. Pipes(own)'
  BY <1>3, <1>4, PipesMove
<1>6. \A q \in Proc : fd'[q] = [n \in Fd |-> fd'[q][n]]
  BY <1>2 DEF Descriptors, Follows, Whole
<1>7. QED  BY <1>1, <1>5, <1>6 DEF Descriptors

(* One branch down, where the branch sets no descriptor.                   *)
LEMMA PlainGoesDown ==
  ASSUME NEW own, NEW tree, NEW j, NEW w \in Seq(Branch), NEW b \in Branch, NEW f,
         Plain(own, tree, j, w, f),
         \/ Node(tree, w).type = "LIST" /\ b \in {"left", "right"}
         \/ Node(tree, w).type = "BACK" /\ b = "cmd"
  PROVE  Plain(own, tree, j, Append(w, b), f)
<1>1. Leads(tree, Append(w, b))
  <2>1. b \in Parts(Node(tree, w).type)
    BY DEF Parts
  <2>2. Leads(tree, w)
    BY DEF Plain
  <2>3. QED  BY <2>1, <2>2, LeadsOn
<1>2. \A n \in 0..1 : Standard(own, tree, j, Append(w, b), n, f[n])
  <2>1. Node(tree, w).type # "REDIR" /\ Node(tree, w).type # "PIPE"
    OBVIOUS
  <2>2. \A n \in 0..1 : ~Sets(Node(tree, w), b, n)
    BY <2>1 DEF Sets
  <2>3. QED  BY <2>2, StandardPassesOn DEF Plain
<1>3. QED  BY <1>1, <1>2 DEF Plain

(* open takes the place of the descriptor that was closed.                 *)
LEMMA PlainRedirected ==
  ASSUME NEW own, NEW tree, NEW j, NEW w \in Seq(Branch), NEW f, Whole(f),
         Plain(own, tree, j, w, f), Node(tree, w).type = "REDIR", Node(tree, w).fd \in 0..1,
         NEW g, g = Opened(Close(f, Node(tree, w).fd), File(Node(tree, w).file))
  PROVE  Plain(own, tree, j, Append(w, "cmd"), g) /\ Follows(g, f)
<1> DEFINE m == Node(tree, w).fd
           e == File(Node(tree, w).file)
<1>1. f[0] # Closed /\ f[1] # Closed
  BY DEF Plain, Standard
<1>2. g = [f EXCEPT ![m] = e]
  BY <1>1, Lowest
<1>3. m \in 0..1 /\ m \in Fd /\ e # Closed /\ P0 # m /\ P1 # m /\ P0 \in Fd /\ P1 \in Fd
  BY Ends DEF Fd
<1>4. \A k : e # ReadEnd(k) /\ e # WriteEnd(k)
  BY Ends
<1>5. e = File(Node(tree, w).file) /\ m = Node(tree, w).fd
  OBVIOUS
<1> HIDE DEF e, m
<1>6. g = [n \in Fd |-> IF n = m THEN e ELSE f[n]]
  BY <1>2, <1>3 DEF Whole
<1>7. g[m] = e /\ \A n \in Fd \ {m} : g[n] = f[n]
  BY <1>3, <1>6
<1>8. \A k : Uses(g, k) => Uses(f, k)
  BY <1>3, <1>4, <1>7 DEF Uses
<1>9. "cmd" \in Branch
  BY DEF Branch
<1>10. Leads(tree, Append(w, "cmd"))
  <2>1. "cmd" \in Parts(Node(tree, w).type)
    BY DEF Parts
  <2>2. QED  BY <2>1, <1>9, LeadsOn DEF Plain
<1>11. \A n \in 0..1 : Standard(own, tree, j, Append(w, "cmd"), n, g[n])
  <2> SUFFICES ASSUME NEW n \in 0..1  PROVE Standard(own, tree, j, Append(w, "cmd"), n, g[n])
    OBVIOUS
  <2>1. CASE n = m
    <3>1. Sets(Node(tree, w), "cmd", n)
      BY <2>1, <1>5 DEF Sets
    <3>2. g[n] = e
      BY <2>1, <1>7
    <3>3. QED  BY <3>1, <3>2, <1>3, <1>5, <1>9, StandardIsSet
  <2>2. CASE n # m
    <3>1. ~Sets(Node(tree, w), "cmd", n)
      BY <2>2, <1>5 DEF Sets
    <3>2. n \in Fd /\ g[n] = f[n]
      BY <2>2, <1>7 DEF Fd
    <3>3. Standard(own, tree, j, w, n, g[n])
      BY <3>2 DEF Plain
    <3>4. QED  BY <3>1, <3>3, <1>9, StandardPassesOn
  <2>3. QED  BY <2>1, <2>2
<1>12. g[P0] = Closed /\ g[P1] = Closed
  BY <1>3, <1>7 DEF Plain
<1>13. Whole(g)
  BY <1>6 DEF Whole
<1>14. QED  BY <1>8, <1>10, <1>11, <1>12, <1>13 DEF Plain, Follows

(* The child of a pipe is plumbed.                                         *)
LEMMA PlainPlumbed ==
  ASSUME NEW own, NEW tree, NEW j, NEW w \in Seq(Branch), NEW f, Whole(f),
         Joined(own, tree, j, w, f), NEW n \in 0..1, NEW end, end = IF n = 0 THEN P0 ELSE P1,
         NEW b, b = IF n = 0 THEN "right" ELSE "left",
         NEW g, g = Plumbed(f, n, end)
  PROVE  Plain(own, tree, j, Append(w, b), g) /\ Follows(g, f)
<1>1. PICK k \in Pipe : own[k] = <<j, w>> /\ f[P0] = ReadEnd(k) /\ f[P1] = WriteEnd(k)
  BY DEF Joined
<1>2. f[0] # Closed /\ f[1] # Closed
  BY DEF Joined, Standard
<1>3. f[end] = End(n, k)
  BY <1>1 DEF End
<1>4. Opened(Close(f, n), f[end]) = [f EXCEPT ![n] = End(n, k)]
  BY <1>2, <1>3, Lowest
<1>5. n \in Fd /\ n # P0 /\ n # P1 /\ P0 \in Fd /\ P1 \in Fd /\ end \in Fd
  BY DEF Fd, P0, P1
<1>6. g = [m \in Fd |-> IF m = P0 \/ m = P1 THEN Closed ELSE IF m = n THEN End(n, k) ELSE f[m]]
  BY <1>4, <1>5 DEF Plumbed, Close, Whole
<1>7. /\ g[n] = End(n, k) /\ g[P0] = Closed /\ g[P1] = Closed
      /\ \A m \in Fd \ {n, P0, P1} : g[m] = f[m]
  BY <1>5, <1>6
<1>8. \A l : Uses(g, l) => Uses(f, l)
  <2> SUFFICES ASSUME NEW l, NEW m \in Fd, g[m] \in {ReadEnd(l), WriteEnd(l)}
               PROVE  Uses(f, l)
    BY DEF Uses
  <2>1. m # P0 /\ m # P1
    BY <1>7, Ends
  <2>2. CASE m = n
    BY <2>2, <1>3, <1>5, <1>7 DEF Uses
  <2>3. CASE m # n
    BY <2>1, <2>3, <1>7 DEF Uses
  <2>4. QED  BY <2>2, <2>3
<1>9. b \in Branch /\ b \in {"left", "right"}
  BY DEF Branch
<1>10. Leads(tree, Append(w, b))
  <2>1. b \in Parts(Node(tree, w).type)
    BY <1>9 DEF Parts, Joined
  <2>2. QED  BY <2>1, <1>9, LeadsOn DEF Joined
<1>11. \A m \in 0..1 : Standard(own, tree, j, Append(w, b), m, g[m])
  <2> SUFFICES ASSUME NEW m \in 0..1  PROVE Standard(own, tree, j, Append(w, b), m, g[m])
    OBVIOUS
  <2>1. CASE m = n
    <3>1. Sets(Node(tree, w), b, m)
      BY <2>1 DEF Sets, Joined
    <3>2. g[m] = End(m, k) /\ g[m] # Closed
      BY <2>1, <1>7, Ends DEF End
    <3>3. Node(tree, w).type # "REDIR"
      BY DEF Joined
    <3>4. QED  BY <3>1, <3>2, <3>3, <1>1, <1>9, StandardIsSet
  <2>2. CASE m # n
    <3>1. ~Sets(Node(tree, w), b, m)
      BY <2>2 DEF Sets, Joined
    <3>2. m \in Fd /\ m # P0 /\ m # P1
      BY DEF Fd, P0, P1
    <3>3. g[m] = f[m]
      BY <2>2, <3>2, <1>7
    <3>4. Standard(own, tree, j, w, m, g[m])
      BY <3>3 DEF Joined
    <3>5. QED  BY <3>1, <3>4, <1>9, StandardPassesOn
  <2>3. QED  BY <2>1, <2>2
<1>12. Whole(g)
  BY <1>6 DEF Whole
<1>13. QED  BY <1>7, <1>8, <1>10, <1>11, <1>12 DEF Plain, Follows

(* The parent closes the ends of the pipe.                                 *)
LEMMA PlainUnplumbed ==
  ASSUME NEW own, NEW tree, NEW j, NEW w, NEW f, Whole(f),
         Joined(own, tree, j, w, f),
         NEW g, g = Close(Close(f, P0), P1)
  PROVE  Plain(own, tree, j, w, g) /\ Follows(g, f)
<1>1. P0 \in Fd /\ P1 \in Fd /\ \A n \in 0..1 : n \in Fd /\ n # P0 /\ n # P1
  BY DEF Fd, P0, P1
<1>2. g = [m \in Fd |-> IF m = P0 \/ m = P1 THEN Closed ELSE f[m]]
  BY <1>1 DEF Close, Whole
<1>3. g[P0] = Closed /\ g[P1] = Closed /\ \A m \in Fd \ {P0, P1} : g[m] = f[m]
  BY <1>1, <1>2
<1>4. \A k : Uses(g, k) => Uses(f, k)
  <2> SUFFICES ASSUME NEW k, NEW m \in Fd, g[m] \in {ReadEnd(k), WriteEnd(k)}
               PROVE  Uses(f, k)
    BY DEF Uses
  <2>1. m # P0 /\ m # P1
    BY <1>3, Ends
  <2>2. QED  BY <2>1, <1>3 DEF Uses
<1>5. \A n \in 0..1 : Standard(own, tree, j, w, n, g[n])
  BY <1>1, <1>3 DEF Joined
<1>6. Whole(g)
  BY <1>2 DEF Whole
<1>7. QED  BY <1>3, <1>4, <1>5, <1>6 DEF Plain, Joined, Follows

(* A pipe is for the command of a process that has turned to no branch:    *)
(* then no process has the pipe but it.                                    *)
LEMMA NoPipeYet ==
  ASSUME Base, NEW own, Pipes(own), NEW p \in Proc, pc[p] = "switch", NEW k, Used(k)
  PROVE  k \in Pipe /\ own[k] # <<job[p], path[p]>>
<1>1. PICK q \in Proc : Uses(fd[q], k)
  BY DEF Used
<1>2. /\ Wired(own, session[job[q]], job[q], pc[q], path[q], fd[q])
      /\ path[q] \in Seq(Branch) /\ path[p] \in Seq(Branch)
  BY DEF Pipes, Base, Typed
<1>3. /\ k \in Pipe /\ pc[q] \notin Gone
      /\ (pc[q] \in Piping /\ own[k] = <<job[q], path[q]>>) \/ OnWay(own, job[q], path[q], k)
  BY <1>1, <1>2, UsedFromAbove
<1>4. Live(q) /\ Live(p)
  BY <1>3 DEF Live, Gone
<1>5. Taken(pc[p]) = {}
  BY DEF Taken
<1>6. ASSUME pc[q] \in Piping, job[q] = job[p], path[q] = path[p]  PROVE FALSE
  <2>1. p = q
    BY <1>4, <1>6 DEF Base, Unique
  <2>2. QED  BY <2>1, <1>6 DEF Piping
<1>7. ASSUME NEW i \in 1..Len(path[q]), job[q] = job[p], SubSeq(path[q], 1, i - 1) = path[p]
      PROVE  FALSE
  <2>1. Len(path[p]) = i - 1 /\ \A m \in 1..Len(path[p]) : path[q][m] = path[p][m]
    <3> DEFINE u == path[q]
               w == path[p]
    <3>1. u \in Seq(Branch) /\ w = SubSeq(u, 1, i - 1) /\ i \in 1..Len(u)
      BY <1>2, <1>7
    <3> HIDE DEF u, w
    <3>2. Len(w) = i - 1 /\ \A m \in 1..Len(w) : u[m] = w[m]
      BY <3>1
    <3>3. QED  BY <3>2 DEF u, w
  <2>2. Below(q, p)
    BY <2>1, <1>2, <1>7 DEF Below
  <2>3. QED  BY <2>2, <1>4, <1>5 DEF Base, Fresh
<1>8. own[k] # <<job[p], path[p]>>
  BY <1>3, <1>6, <1>7 DEF OnWay
<1>9. QED  BY <1>3, <1>8

(* The pipe that p opens is for its command.                               *)
LEMMA OpeningKeepsPipes ==
  ASSUME Base, NEW own, Pipes(own), Descriptors, UNCHANGED <<session, job, path>>,
         NEW p \in Proc, pc[p] = "switch", Cmd(p).type = "PIPE",
         NEW k \in Pipe, ~Has(ReadEnd(k)), ~Has(WriteEnd(k)),
         fd' = [fd EXCEPT ![p][P0] = ReadEnd(k), ![p][P1] = WriteEnd(k)],
         NEW to \in Piping, to \notin Gone \cup Plumbing \cup Listing, Goto(p, to)
  PROVE  (\E o : Pipes(o)') /\ Descriptors'
<1> DEFINE g == [n \in Fd |-> IF n = P0 THEN ReadEnd(k) ELSE IF n = P1 THEN WriteEnd(k)
                              ELSE fd[p][n]]
<1>1. PICK o : o = [own EXCEPT ![k] = <<job[p], path[p]>>]
  OBVIOUS
<1>2. Typed
  BY DEF Base
<1>3. o \in [Pipe -> Nat \X Seq(Branch)]
  BY <1>1, <1>2 DEF Typed, Pipes
<1>4. o[k] = <<job[p], path[p]>> /\ \A l \in Pipe \ {k} : o[l] = own[l]
  BY <1>1 DEF Pipes
<1>5. \A q \in Proc : fd[q] = [n \in Fd |-> fd[q][n]]
  BY DEF Descriptors
<1>6. P0 \in Fd /\ P1 \in Fd /\ P0 # P1
  BY DEF Fd, P0, P1
<1>7. fd' = [q \in Proc |-> IF q = p THEN g ELSE fd[q]]
  <2>1. fd' = [fd EXCEPT ![p] = [[fd[p] EXCEPT ![P0] = ReadEnd(k)] EXCEPT ![P1] = WriteEnd(k)]]
    BY DEF Descriptors
  <2>2. [[fd[p] EXCEPT ![P0] = ReadEnd(k)] EXCEPT ![P1] = WriteEnd(k)] = g
    BY <1>5, <1>6
  <2>3. QED  BY <2>1, <2>2 DEF Descriptors
<1>8. /\ g = [n \in Fd |-> g[n]] /\ g[P0] = ReadEnd(k) /\ g[P1] = WriteEnd(k)
      /\ \A n \in Fd \ {P0, P1} : g[n] = fd[p][n]
  BY <1>6
<1> HIDE DEF g
<1>9. /\ fd'[p] = g /\ pc'[p] = to
      /\ \A q \in Proc \ {p} : fd'[q] = fd[q] /\ pc'[q] = pc[q]
  BY <1>2, <1>7 DEF Goto, Typed
<1>10. ~Used(k)
  BY DEF Used, Uses, Has
<1>11. \A q \in Proc : Wired(own, session[job[q]], job[q], pc[q], path[q], fd[q]) /\ ~Uses(fd[q], k)
  BY <1>10 DEF Pipes, Used
<1>12. \A q \in Proc : Wired(o, session[job[q]], job[q], pc[q], path[q], fd[q])
  BY <1>4, <1>11, WiredElsewhere
<1>13. Wired(o, session[job[p]], job[p], to, path[p], g)
  <2>1. Wired(o, session[job[p]], job[p], "switch", path[p], fd[p])
    BY <1>12
  <2>2. "switch" \notin Gone \cup Piping \cup Plumbing
    BY DEF Gone, Piping, Plumbing
  <2>3. Plain(o, session[job[p]], job[p], path[p], fd[p])
    BY <2>1, <2>2, PlainAt
  <2>4. \A n \in 0..1 : n \in Fd \ {P0, P1}
    BY DEF Fd, P0, P1
  <2>5. Node(session[job[p]], path[p]).type = "PIPE"
    BY DEF Cmd
  <2>6. Joined(o, session[job[p]], job[p], path[p], g)
    BY <2>3, <2>4, <2>5, <1>4, <1>8 DEF Plain, Joined
  <2>7. QED  BY <2>6 DEF Wired
<1>14. \A q \in Proc : Wired(o, session'[job'[q]], job'[q], pc'[q], path'[q], fd'[q])
  BY <1>9, <1>12, <1>13
<1>15. \A l : Used(l)' => l = k \/ Used(l)
  <2> SUFFICES ASSUME NEW l, NEW q \in Proc, Uses(fd'[q], l)  PROVE l = k \/ Used(l)
    BY DEF Used
  <2>1. CASE q # p
    BY <2>1, <1>9 DEF Used
  <2>2. CASE q = p
    <3>1. PICK n \in Fd : g[n] \in {ReadEnd(l), WriteEnd(l)}
      BY <2>2, <1>9 DEF Uses
    <3>2. CASE n = P0 \/ n = P1
      BY <3>1, <3>2, <1>8, Ends
    <3>3. CASE n \notin {P0, P1}
      BY <3>1, <3>3, <1>8, <2>2 DEF Used, Uses
    <3>4. QED  BY <3>2, <3>3
  <2>3. QED  BY <2>1, <2>2
<1>16. \A l \in Pipe : Used(l) => o[l] # o[k]
  BY <1>4, <1>10, NoPipeYet
<1>17. ASSUME NEW l \in Pipe, NEW m \in Pipe, Used(l)', Used(m)', o[l] = o[m]
       PROVE  l = m
  <2>1. CASE l # k /\ m # k
    BY <2>1, <1>4, <1>15, <1>17 DEF Pipes
  <2>2. CASE l = k \/ m = k
    BY <2>2, <1>15, <1>16, <1>17
  <2>3. QED  BY <2>1, <2>2
<1>18. Pipes(o)'
  BY <1>3, <1>14, <1>17 DEF Pipes
<1>19. Descriptors'
  <2>1. \A q \in Proc : fd'[q] = [n \in Fd |-> fd'[q][n]]
    BY <1>5, <1>8, <1>9
  <2>2. QED  BY <2>1, <1>7 DEF Descriptors
<1>20. QED  BY <1>18, <1>19

(* Where a process has no pipe of a command.                               *)
Straight == {"getcmd", "fork", "wait", "parsecmd", "runcmd", "switch", "exit",
             "list wait", "list right", "pipe wait", "pipe wait again"} \cup Programs

LEMMA StraightIs ==
  ASSUME NEW at \in Straight
  PROVE  at \notin Gone \cup Piping \cup Plumbing
BY DEF Straight, Programs, Gone, Piping, Plumbing

LEMMA PlaceIs ==
  /\ \A at \in {"getcmd", "fork", "wait", "parsecmd", "runcmd", "switch", "exit",
                "source", "filter", "filter write", "pipe wait", "pipe wait again"} :
       at \in Straight /\ at \notin Listing
  /\ \A at \in Listing : at \in Straight
BY DEF Straight, Programs, Listing

LEMMA PlainAtStraight ==
  ASSUME NEW own, Pipes(own), NEW p \in Proc, pc[p] \in Straight
  PROVE  Plain(own, session[job[p]], job[p], path[p], fd[p])
<1>1. Wired(own, session[job[p]], job[p], pc[p], path[p], fd[p])
  BY DEF Pipes
<1>2. QED  BY <1>1, StraightIs, PlainAt

LEMMA StraightIsWired ==
  ASSUME NEW own, NEW tree, NEW j, NEW w, NEW f, NEW to \in Straight,
         Plain(own, tree, j, w, f), to \in Listing => Node(tree, w).type = "LIST"
  PROVE  Wired(own, tree, j, to, w, f)
BY StraightIs, PlainGoesOn

(* A process goes on to a place that has the same descriptors.             *)
LEMMA StraightKeepsPipes ==
  ASSUME NEW own, Pipes(own), Descriptors, Typed, UNCHANGED <<session, job, path, fd>>,
         NEW p \in Proc, NEW to, Goto(p, to), pc[p] \in Straight, to \in Straight \ Listing
  PROVE  Pipes(own)' /\ Descriptors'
<1>1. Pipes(own)'
  BY StraightIs, GotoKeepsPipes
<1>2. QED  BY <1>1 DEF Descriptors

LEMMA WaitingKeepsPipes ==
  ASSUME NEW own, Pipes(own), Descriptors, Typed, UNCHANGED <<session, fd>>,
         NEW p \in Proc, NEW next, wait(p, next), pc[p] \in Straight, next \in Straight,
         next \in Listing => Cmd(p).type = "LIST"
  PROVE  Pipes(own)' /\ Descriptors'
<1>1. Pipes(own)'
  BY StraightIs, WaitKeepsPipes
<1>2. QED  BY <1>1 DEF Descriptors

(* The shell has the terminal, and so has the process it forks for a line. *)
LEMMA PlainAtStart ==
  ASSUME NEW own, NEW tree, NEW j, NEW f, Plain(own, tree, j, <<>>, f), NEW line, NEW i
  PROVE  Plain(own, line, i, <<>>, f)
<1>1. \A n \in 0..1 : Standard(own, line, i, <<>>, n, f[n])
  BY StandardAtStart DEF Plain
<1>2. Leads(line, <<>>)
  <2>1. 1..Len(<<>>) = {}
    OBVIOUS
  <2>2. QED  BY <2>1 DEF Leads
<1>3. QED  BY <1>1, <1>2 DEF Plain

LEMMA MainKeepsPipes ==
  ASSUME Base, NEW own, Pipes(own), Descriptors, getcmd \/ mainFork \/ mainWait
  PROVE  Pipes(own)' /\ Descriptors'
<1>1. main \in Proc /\ Typed
  BY MainIs DEF Base
<1>2. pc[main] \in {"getcmd", "fork", "wait"}
  BY DEF getcmd, mainFork, mainWait
<1>3. pc[main] \in Straight
  BY <1>2, PlaceIs
<1>4. CASE getcmd
  <2>1. UNCHANGED <<session, job, path, fd>> /\ (Goto(main, "fork") \/ Goto(main, "exit"))
    BY <1>4 DEF getcmd
  <2>2. "fork" \in Straight \ Listing /\ "exit" \in Straight \ Listing
    BY PlaceIs
  <2>3. QED  BY <2>1, <2>2, <1>1, <1>3, StraightKeepsPipes
<1>5. CASE mainFork
  <2>1. pc[main] = "fork" /\ fork1(main, "parsecmd", lines, <<>>, "wait")
    BY <1>5 DEF mainFork
  <2>2. path[main] = <<>>
    <3>1. Live(main) /\ pc[main] \notin RunPc
      BY <2>1 DEF Live, RunPc, Programs
    <3>2. QED  BY <3>1, <1>1 DEF Base, Roles, Role
  <2>3. UNCHANGED session
    BY <2>1 DEF fork1
  <2>4. Plain(own, session[job[main]], job[main], path[main], fd[main])
    BY <1>1, <1>3, PlainAtStraight
  <2>5. Plain(own, session[lines], lines, <<>>, fd[main])
    BY <2>2, <2>4, PlainAtStart
  <2>6. /\ "parsecmd" \in Straight /\ "parsecmd" \notin Listing
        /\ "wait" \in Straight /\ "wait" \notin Listing
    BY PlaceIs
  <2>7. /\ Wired(own, session[lines], lines, "parsecmd", <<>>, fd[main])
        /\ Wired(own, session[job[main]], job[main], "wait", path[main], fd[main])
    BY <2>4, <2>5, <2>6, StraightIsWired
  <2>8. QED  BY <2>1, <2>3, <2>7, <1>1, Fork1KeepsPipes
<1>6. CASE mainWait
  <2>1. wait(main, "getcmd") /\ UNCHANGED <<session, fd>>
    BY <1>6 DEF mainWait
  <2>2. "getcmd" \in Straight /\ "getcmd" \notin Listing
    BY PlaceIs
  <2>3. QED  BY <2>1, <2>2, <1>1, <1>3, WaitingKeepsPipes
<1>7. QED  BY <1>4, <1>5, <1>6

LEMMA RedirectionIsStandard ==
  ASSUME StandardRedirections, Base, session \in Sessions, lines <= Len(session),
         NEW own, Pipes(own), NEW p \in Proc, Switch(p, "REDIR")
  PROVE  Cmd(p).fd \in 0..1
<1>1. pc[p] = "switch" /\ Node(session[job[p]], path[p]).type = "REDIR"
  BY DEF Switch, Cmd
<1>2. Live(p) /\ job[p] # 0
  <2>1. "switch" \in RunPc \ {"exit"}
    BY DEF RunPc
  <2>2. QED  BY <1>1, <2>1, Works
<1>3. job[p] <= lines /\ job[p] \in Nat /\ lines \in Nat /\ path[p] \in Seq(Branch)
  BY <1>2 DEF Base, Roles, Role, Typed
<1>4. Len(session) \in Nat
  BY DEF StandardRedirections
<1>5. job[p] \in 1..Len(session)
  BY <1>2, <1>3, <1>4
<1>6. Leads(session[job[p]], path[p])
  BY <1>1, PlaceIs, PlainAtStraight DEF Plain
<1>7. QED  BY <1>1, <1>3, <1>5, <1>6 DEF StandardRedirections, Cmd

LEMMA CaseRedirKeepsPipes ==
  ASSUME StandardRedirections, Base, session \in Sessions, lines <= Len(session),
         NEW own, Pipes(own), Descriptors, NEW p \in Proc, REDIR(p)
  PROVE  Pipes(own)' /\ Descriptors'
<1>1. Switch(p, "REDIR") /\ UNCHANGED <<session, job>>
  BY DEF REDIR
<1>2. pc[p] = "switch" /\ Cmd(p).type = "REDIR" /\ Typed
  BY <1>1 DEF Switch, Base
<1>3. pc[p] \in Straight
  BY <1>2, PlaceIs
<1>4. CASE Goto(p, "exit") /\ UNCHANGED <<path, fd>>
  <2>1. "exit" \in Straight \ Listing
    BY PlaceIs
  <2>2. QED  BY <1>1, <1>2, <1>3, <1>4, <2>1, StraightKeepsPipes
<1>5. CASE /\ fd' = [fd EXCEPT ![p] = Opened(Close(@, Cmd(p).fd), File(Cmd(p).file))]
           /\ Continue(p, "cmd")
  <2> DEFINE f == fd[p]
             w == path[p]
             tree == session[job[p]]
             j == job[p]
             g == Opened(Close(f, Cmd(p).fd), File(Cmd(p).file))
  <2>1. /\ Goto(p, "runcmd") /\ fd' = [fd EXCEPT ![p] = g]
        /\ path' = [path EXCEPT ![p] = Append(w, "cmd")]
    BY <1>5 DEF Continue
  <2>2. Whole(f)
    BY DEF Descriptors, Whole
  <2>3. Plain(own, tree, j, w, f)
    BY <1>3, PlainAtStraight
  <2>4. Node(tree, w).type = "REDIR" /\ Node(tree, w).fd \in 0..1 /\ w \in Seq(Branch)
    BY <1>1, <1>2, RedirectionIsStandard DEF Cmd, Typed
  <2>5. g = Opened(Close(f, Node(tree, w).fd), File(Node(tree, w).file))
    BY DEF Cmd
  <2>6. fd[p] = f /\ path[p] = w /\ session[job[p]] = tree /\ job[p] = j
    OBVIOUS
  <2> HIDE DEF f, w, tree, j, g
  <2>7. Plain(own, tree, j, Append(w, "cmd"), g) /\ Follows(g, f)
    BY <2>2, <2>3, <2>4, <2>5, PlainRedirected
  <2>8. "runcmd" \in Straight /\ "runcmd" \notin Listing
    BY PlaceIs
  <2>9. Wired(own, tree, j, "runcmd", Append(w, "cmd"), g)
    BY <2>7, <2>8, StraightIsWired
  <2>10. /\ Wired(own, session[job[p]], job[p], "runcmd", Append(w, "cmd"), g)
         /\ Follows(g, fd[p])
    BY <2>6, <2>7, <2>9
  <2>11. QED  BY <2>1, <2>10, <1>1, <1>2, PlumbingKeepsPipes
<1>6. QED  BY <1>4, <1>5 DEF REDIR

(* A child for a branch, and the parent after it, have what p has.         *)
LEMMA CaseForkKeepsPipes ==
  ASSUME Base, NEW own, Pipes(own), Descriptors, NEW p \in Proc, LIST(p) \/ BACK(p)
  PROVE  Pipes(own)' /\ Descriptors'
<1>1. pc[p] = "switch" /\ Typed
  BY DEF LIST, BACK, Switch, Base
<1>2. Plain(own, session[job[p]], job[p], path[p], fd[p]) /\ path[p] \in Seq(Branch)
  BY <1>1, PlaceIs, PlainAtStraight DEF Typed
<1>3. pc[p] # "free"
  BY <1>1
<1>4. "left" \in Branch /\ "cmd" \in Branch
  BY DEF Branch
<1>5. /\ "runcmd" \in Straight /\ "runcmd" \notin Listing
      /\ "exit" \in Straight /\ "exit" \notin Listing
  BY PlaceIs
<1>6. ASSUME NEW next \in Listing, Cmd(p).type = "LIST",
             fork1(p, "runcmd", job[p], Append(path[p], "left"), next)
      PROVE  Pipes(own)' /\ Descriptors'
  <2>1. Node(session[job[p]], path[p]).type = "LIST" /\ next \in Straight
    BY <1>6, PlaceIs DEF Cmd
  <2>2. Plain(own, session[job[p]], job[p], Append(path[p], "left"), fd[p])
    BY <2>1, <1>2, <1>4, PlainGoesDown
  <2>3. Wired(own, session[job[p]], job[p], "runcmd", Append(path[p], "left"), fd[p])
    BY <2>2, <1>5, StraightIsWired
  <2>4. Wired(own, session[job[p]], job[p], next, path[p], fd[p])
    BY <2>1, <1>2, StraightIsWired
  <2>5. UNCHANGED session
    BY <1>6 DEF fork1
  <2>6. QED  BY <2>3, <2>4, <2>5, <1>1, <1>3, <1>6, Fork1KeepsPipes
<1>7. ASSUME Cmd(p).type = "BACK",
             fork1(p, "runcmd", job[p], Append(path[p], "cmd"), "exit")
      PROVE  Pipes(own)' /\ Descriptors'
  <2>1. Node(session[job[p]], path[p]).type = "BACK"
    BY <1>7 DEF Cmd
  <2>2. Plain(own, session[job[p]], job[p], Append(path[p], "cmd"), fd[p])
    BY <2>1, <1>2, <1>4, PlainGoesDown
  <2>3. Wired(own, session[job[p]], job[p], "runcmd", Append(path[p], "cmd"), fd[p])
    BY <2>2, <1>5, StraightIsWired
  <2>4. Wired(own, session[job[p]], job[p], "exit", path[p], fd[p])
    BY <1>2, <1>5, StraightIsWired
  <2>5. UNCHANGED session
    BY <1>7 DEF fork1
  <2>6. QED  BY <2>3, <2>4, <2>5, <1>1, <1>3, <1>7, Fork1KeepsPipes
<1>8. "list wait" \in Listing
  BY DEF Listing
<1>9. QED  BY <1>6, <1>7, <1>8 DEF LIST, BACK, Switch

(* What comes after a list's left side, in the same process.               *)
LEMMA CaseListKeepsPipes ==
  ASSUME Base, NEW own, Pipes(own), Descriptors, NEW p \in Proc, listWait(p) \/ listRight(p)
  PROVE  Pipes(own)' /\ Descriptors'
<1>1. pc[p] \in Listing /\ UNCHANGED <<session, fd>> /\ Typed
  BY DEF listWait, listRight, Listing, Base
<1>2. pc[p] \in Straight
  BY <1>1, PlaceIs
<1>3. Cmd(p).type = "LIST"
  <2>1. Wired(own, session[job[p]], job[p], pc[p], path[p], fd[p])
    BY DEF Pipes
  <2>2. QED  BY <1>1, <2>1 DEF Wired, Cmd
<1>4. ASSUME NEW next \in Listing, wait(p, next)
      PROVE  Pipes(own)' /\ Descriptors'
  <2>1. next \in Straight
    BY PlaceIs
  <2>2. QED  BY <2>1, <1>1, <1>2, <1>3, <1>4, WaitingKeepsPipes
<1>5. ASSUME Continue(p, "right"), UNCHANGED job
      PROVE  Pipes(own)' /\ Descriptors'
  <2>1. fd' = [fd EXCEPT ![p] = fd[p]] /\ Follows(fd[p], fd[p])
    BY <1>1 DEF Descriptors, Follows, Whole
  <2>2. Goto(p, "runcmd") /\ path' = [path EXCEPT ![p] = Append(path[p], "right")]
    BY <1>5 DEF Continue
  <2>3. Plain(own, session[job[p]], job[p], path[p], fd[p]) /\ path[p] \in Seq(Branch)
    BY <1>1, <1>2, PlainAtStraight DEF Typed
  <2>4. Node(session[job[p]], path[p]).type = "LIST" /\ "right" \in Branch
    BY <1>3 DEF Cmd, Branch
  <2>5. Plain(own, session[job[p]], job[p], Append(path[p], "right"), fd[p])
    BY <2>3, <2>4, PlainGoesDown
  <2>6. "runcmd" \in Straight /\ "runcmd" \notin Listing
    BY PlaceIs
  <2>7. Wired(own, session[job[p]], job[p], "runcmd", Append(path[p], "right"), fd[p])
    BY <2>5, <2>6, StraightIsWired
  <2>8. QED  BY <2>1, <2>2, <2>7, <1>1, <1>5, PlumbingKeepsPipes
<1>6. "list right" \in Listing
  BY DEF Listing
<1>7. QED  BY <1>4, <1>5, <1>6 DEF listWait, listRight

LEMMA CasePipeKeepsPipes ==
  ASSUME Base, NEW own, Pipes(own), Descriptors, NEW p \in Proc, PIPE(p)
  PROVE  (\E o : Pipes(o)') /\ Descriptors'
<1>1. pc[p] = "switch" /\ Cmd(p).type = "PIPE" /\ UNCHANGED session /\ Typed
  BY DEF PIPE, Switch, Base
<1>2. CASE Exit(p)
  <2>1. Pipes(own)' /\ Descriptors'
    BY <1>1, <1>2, ExitKeepsPipes
  <2>2. QED  BY <2>1
<1>3. ASSUME NEW k \in Pipe, NEW to \in Piping, to \notin Gone \cup Plumbing \cup Listing,
             ~Has(ReadEnd(k)), ~Has(WriteEnd(k)), Goto(p, to), UNCHANGED <<job, path>>,
             fd' = [fd EXCEPT ![p][P0] = ReadEnd(k), ![p][P1] = WriteEnd(k)]
      PROVE  (\E o : Pipes(o)') /\ Descriptors'
  BY <1>1, <1>3, OpeningKeepsPipes
<1>4. "pipe left" \in Piping /\ "pipe left" \notin Gone \cup Plumbing \cup Listing
  BY DEF Piping, Gone, Plumbing, Listing
<1>5. QED  BY <1>2, <1>3, <1>4 DEF PIPE

(* Both children of a pipe and their parent have its two ends.             *)
LEMMA CaseSideKeepsPipes ==
  ASSUME Base, NEW own, Pipes(own), Descriptors, NEW p \in Proc, pipeLeft(p) \/ pipeRight(p)
  PROVE  Pipes(own)' /\ Descriptors'
<1>1. pc[p] \in Piping /\ pc[p] # "free" /\ Typed
  BY DEF pipeLeft, pipeRight, Piping, Base
<1>2. Wired(own, session[job[p]], job[p], pc[p], path[p], fd[p]) /\ path[p] \in Seq(Branch)
  BY <1>1 DEF Pipes, Typed
<1>3. Joined(own, session[job[p]], job[p], path[p], fd[p])
  BY <1>1, <1>2 DEF Wired
<1>4. ASSUME NEW first \in Plumbing, NEW b, b = IF first = "plumb left" THEN "left" ELSE "right",
             NEW next \in Piping, fork1(p, first, job[p], Append(path[p], b), next)
      PROVE  Pipes(own)' /\ Descriptors'
  <2>1. /\ first \notin Gone \cup Piping \cup Listing
        /\ next \notin Gone \cup Plumbing \cup Listing
    BY DEF Gone, Piping, Plumbing, Listing
  <2>2. Wired(own, session[job[p]], job[p], first, Append(path[p], b), fd[p])
    BY <2>1, <1>2, <1>3, <1>4 DEF Wired
  <2>3. Wired(own, session[job[p]], job[p], next, path[p], fd[p])
    BY <2>1, <1>3 DEF Wired
  <2>4. UNCHANGED session
    BY <1>4 DEF fork1
  <2>5. QED  BY <2>2, <2>3, <2>4, <1>1, <1>4, Fork1KeepsPipes
<1>5. /\ "plumb left" \in Plumbing /\ "plumb right" \in Plumbing /\ "plumb right" # "plumb left"
      /\ "pipe right" \in Piping /\ "pipe close" \in Piping
  BY DEF Plumbing, Piping
<1>6. QED  BY <1>4, <1>5 DEF pipeLeft, pipeRight

LEMMA CasePlumbKeepsPipes ==
  ASSUME Base, NEW own, Pipes(own), Descriptors, NEW p \in Proc, plumb(p)
  PROVE  Pipes(own)' /\ Descriptors'
<1>1. /\ pc[p] \in Plumbing /\ UNCHANGED <<session, job, path>> /\ Typed
      /\ Goto(p, "runcmd")
  BY DEF plumb, Plumbing, Base
<1>2. Wired(own, session[job[p]], job[p], pc[p], path[p], fd[p])
  BY <1>1 DEF Pipes
<1>3. Whole(fd[p])
  BY DEF Descriptors, Whole
<1>4. PICK n \in 0..1 :
        /\ IF pc[p] = "plumb left" THEN n = 1 ELSE n = 0
        /\ fd' = [fd EXCEPT ![p] = Plumbed(@, n, IF n = 0 THEN P0 ELSE P1)]
  <2>1. CASE pc[p] = "plumb left" /\ fd' = [fd EXCEPT ![p] = Plumbed(@, 1, P1)]
    <3>1. 1 \in 0..1 /\ (IF 1 = 0 THEN P0 ELSE P1) = P1
      OBVIOUS
    <3>2. QED  BY <2>1, <3>1
  <2>2. CASE pc[p] = "plumb right" /\ fd' = [fd EXCEPT ![p] = Plumbed(@, 0, P0)]
    <3>1. 0 \in 0..1 /\ (IF 0 = 0 THEN P0 ELSE P1) = P0
      OBVIOUS
    <3>2. pc[p] # "plumb left"
      BY <2>2
    <3>3. QED  BY <2>2, <3>1, <3>2
  <2>3. QED  BY <2>1, <2>2 DEF plumb
<1>5. PICK w \in Seq(Branch) :
        /\ path[p] = Append(w, IF pc[p] = "plumb left" THEN "left" ELSE "right")
        /\ Joined(own, session[job[p]], job[p], w, fd[p])
  BY <1>1, <1>2 DEF Wired
<1> DEFINE b == IF n = 0 THEN "right" ELSE "left"
           end == IF n = 0 THEN P0 ELSE P1
           g == Plumbed(fd[p], n, end)
<1>6. 1 # 0
  OBVIOUS
<1>7. path[p] = Append(w, b)
  <2>1. CASE pc[p] = "plumb left"
    <3>1. n # 0 /\ path[p] = Append(w, "left")
      BY <2>1, <1>4, <1>5, <1>6
    <3>2. QED  BY <3>1
  <2>2. CASE pc[p] # "plumb left"
    <3>1. n = 0 /\ path[p] = Append(w, "right")
      BY <2>2, <1>4, <1>5
    <3>2. QED  BY <3>1
  <2>3. QED  BY <2>1, <2>2
<1>8. fd' = [fd EXCEPT ![p] = g]
  BY <1>4
<1>9. /\ b = IF n = 0 THEN "right" ELSE "left"
      /\ end = IF n = 0 THEN P0 ELSE P1
      /\ g = Plumbed(fd[p], n, end)
  OBVIOUS
<1> HIDE DEF b, end, g
<1>10. Plain(own, session[job[p]], job[p], Append(w, b), g) /\ Follows(g, fd[p])
  <2>1. Joined(own, session[job[p]], job[p], w, fd[p])
    BY <1>5
  <2>2. QED  BY <2>1, <1>3, <1>9, PlainPlumbed
<1>11. "runcmd" \in Straight /\ "runcmd" \notin Listing
  BY PlaceIs
<1>12. Wired(own, session[job[p]], job[p], "runcmd", path[p], g)
  BY <1>7, <1>10, <1>11, StraightIsWired
<1>13. path' = [path EXCEPT ![p] = path[p]]
  BY <1>1 DEF Typed
<1>14. QED  BY <1>1, <1>8, <1>10, <1>12, <1>13, PlumbingKeepsPipes

LEMMA CaseCloseKeepsPipes ==
  ASSUME Base, NEW own, Pipes(own), Descriptors, NEW p \in Proc, pipeClose(p)
  PROVE  Pipes(own)' /\ Descriptors'
<1> DEFINE g == Close(Close(fd[p], P0), P1)
<1>1. /\ pc[p] \in Piping /\ UNCHANGED <<session, job, path>> /\ Typed
      /\ fd' = [fd EXCEPT ![p] = g]
  BY DEF pipeClose, Piping, Base
<1>2. Whole(fd[p])
  BY DEF Descriptors, Whole
<1>3. Wired(own, session[job[p]], job[p], pc[p], path[p], fd[p])
  BY <1>1 DEF Pipes
<1>4. Joined(own, session[job[p]], job[p], path[p], fd[p])
  BY <1>1, <1>3 DEF Wired
<1>5. Plain(own, session[job[p]], job[p], path[p], g) /\ Follows(g, fd[p])
  BY <1>2, <1>4, PlainUnplumbed
<1> HIDE DEF g
<1>6. PICK to : to = "pipe wait"
  OBVIOUS
<1>7. to \in Straight /\ to \notin Listing
  BY <1>6, PlaceIs
<1>8. Goto(p, to)
  BY <1>6 DEF pipeClose
<1>9. Wired(own, session[job[p]], job[p], to, path[p], g)
  BY <1>5, <1>7, StraightIsWired
<1>10. path' = [path EXCEPT ![p] = path[p]]
  BY <1>1 DEF Typed
<1>11. QED  BY <1>1, <1>5, <1>8, <1>9, <1>10, PlumbingKeepsPipes

LEMMA StepKeepsPipes ==
  ASSUME StandardRedirections, Base, session \in Sessions, lines <= Len(session),
         NEW own, Pipes(own), Descriptors, NEW p \in Proc, Step(p)
  PROVE  (\E o : Pipes(o)') /\ Descriptors'
<1>1. Typed
  BY DEF Base
<1>2. ASSUME Pipes(own)' /\ Descriptors'  PROVE (\E o : Pipes(o)') /\ Descriptors'
  BY <1>2
<1>3. CASE /\ pc[p] \in Straight /\ UNCHANGED <<session, job, path, fd>>
           /\ \E to \in {"runcmd", "switch", "exit", "source", "filter", "filter write"} :
                Goto(p, to)
  <2>1. PICK to \in Straight \ Listing : Goto(p, to)
    BY <1>3, PlaceIs
  <2>2. QED  BY <2>1, <1>1, <1>2, <1>3, StraightKeepsPipes
<1>4. pc[p] \in {"parsecmd", "runcmd", "switch", "source", "filter", "filter write"}
        => pc[p] \in Straight
  BY PlaceIs
<1>5. CASE parsecmd(p) \/ runcmd(p) \/ Program(p)
  BY <1>3, <1>4, <1>5
     DEF parsecmd, runcmd, Program, sourceWrites, filterReads, filterWrites, write
<1>6. CASE exit(p)
  BY <1>1, <1>2, <1>6, ExitKeepsPipes DEF exit
<1>7. CASE EXEC(p)
  BY <1>3, <1>4, <1>7 DEF EXEC, Switch
<1>8. CASE pipeWait(p)
  <2>1. ASSUME NEW next \in Straight \ Listing, pc[p] \in Straight, wait(p, next)
        PROVE  Pipes(own)' /\ Descriptors'
    BY <2>1, <1>1, <1>8, WaitingKeepsPipes DEF pipeWait
  <2>2. /\ "pipe wait" \in Straight /\ "pipe wait again" \in Straight \ Listing
        /\ "exit" \in Straight \ Listing
    BY PlaceIs
  <2>3. QED  BY <2>1, <2>2, <1>2, <1>8 DEF pipeWait
<1>9. CASE REDIR(p)
  BY <1>2, <1>9, CaseRedirKeepsPipes
<1>10. CASE LIST(p) \/ BACK(p)
  BY <1>2, <1>10, CaseForkKeepsPipes
<1>11. CASE listWait(p) \/ listRight(p)
  BY <1>2, <1>11, CaseListKeepsPipes
<1>12. CASE PIPE(p)
  BY <1>12, CasePipeKeepsPipes
<1>13. CASE pipeLeft(p) \/ pipeRight(p)
  BY <1>2, <1>13, CaseSideKeepsPipes
<1>14. CASE plumb(p)
  BY <1>2, <1>14, CasePlumbKeepsPipes
<1>15. CASE pipeClose(p)
  BY <1>2, <1>15, CaseCloseKeepsPipes
<1>16. CASE handler(p)
  <2>1. session' = session
    BY <1>16 DEF handler
  <2>2. CASE write(p, pc[p]) /\ ~Unread(p)
    <3>1. UNCHANGED <<job, path, fd>> /\ Goto(p, pc[p])
      BY <2>2 DEF write
    <3>2. pc' = pc
      BY <1>1, <3>1 DEF Goto, Typed
    <3>3. \A q \in Proc : Rests(q)
      BY <3>1, <3>2 DEF Rests
    <3>4. Pipes(own)'
      BY <2>1, <3>3, PipesMove
    <3>5. QED  BY <3>1, <3>4, <1>2 DEF Descriptors
  <2>3. QED  BY <1>1, <1>2, <1>16, <2>1, <2>2, ExitKeepsPipes DEF handler
<1>17. QED
  BY <1>5, <1>6, <1>7, <1>8, <1>9, <1>10, <1>11, <1>12, <1>13, <1>14, <1>15, <1>16
     DEF Step, Case

(* CTL-C and stuttering.                                                   *)
LEMMA InterruptKeepsPipes ==
  ASSUME Base, NEW own, Pipes(own), Descriptors, Interrupt \/ UNCHANGED vars
  PROVE  Pipes(own)' /\ Descriptors'
<1>1. UNCHANGED <<session, job, path, fd>>
  BY DEF Interrupt, vars
<1>2. \A q \in Proc : pc'[q] = pc[q] \/ (pc[q] \in Programs /\ pc'[q] = "exit")
  BY DEF Interrupt, vars
<1>3. ASSUME NEW q \in Proc  PROVE Rests(q) \/ Comes(own, q)
  <2>1. CASE pc'[q] = pc[q]
    BY <2>1, <1>1 DEF Rests
  <2>2. CASE pc[q] \in Programs /\ pc'[q] = "exit"
    <3>1. pc[q] \in Straight
      BY <2>2 DEF Straight
    <3>2. pc'[q] \in Straight /\ pc'[q] \notin Listing
      BY <2>2, PlaceIs
    <3>3. QED  BY <3>1, <3>2, <1>1, StraightIs, GoesWired
  <2>3. QED  BY <2>1, <2>2, <1>2
<1>4. Pipes(own)'
  BY <1>1, <1>3, PipesMove
<1>5. QED  BY <1>1, <1>4 DEF Descriptors

LEMMA NextKeepsWInv ==
  ASSUME StandardRedirections
  PROVE  Base /\ WInv /\ [Next]_vars => WInv'
<1> SUFFICES ASSUME Base, WInv, [Next]_vars  PROVE WInv'
  OBVIOUS
<1>1. PICK own : Pipes(own)
  BY DEF WInv
<1>2. Descriptors /\ session \in Sessions /\ lines <= Len(session) /\ lines \in Nat
      /\ Len(session) \in Nat
  BY DEF WInv, Base, Typed, StandardRedirections
<1>3. (\E o : Pipes(o)') /\ Descriptors'
  <2>1. CASE getcmd \/ mainFork \/ mainWait
    <3>1. Pipes(own)' /\ Descriptors'
      BY <1>1, <1>2, <2>1, MainKeepsPipes
    <3>2. QED  BY <3>1
  <2>2. CASE Interrupt \/ UNCHANGED vars
    <3>1. Pipes(own)' /\ Descriptors'
      BY <1>1, <1>2, <2>2, InterruptKeepsPipes
    <3>2. QED  BY <3>1
  <2>3. CASE \E p \in Proc : Step(p)
    BY <1>1, <1>2, <2>3, StepKeepsPipes
  <2>4. QED  BY <2>1, <2>2, <2>3 DEF Next
<1>4. /\ session' = session
      /\ lines' = lines \/ (lines < Len(session) /\ lines' = lines + 1)
  BY DEF Next, vars, getcmd, mainFork, mainWait, fork1, Step, parsecmd, runcmd, Case, EXEC,
         REDIR, LIST, listWait, listRight, PIPE, pipeLeft, pipeRight, plumb, pipeClose,
         pipeWait, BACK, exit, handler, Program, sourceWrites, filterReads, filterWrites, Interrupt
<1>5. lines' <= Len(session')
  BY <1>2, <1>4
<1>6. QED  BY <1>2, <1>3, <1>4, <1>5 DEF WInv

LEMMA InitWired ==
  ASSUME StandardRedirections, Init
  PROVE  WInv
<1> DEFINE own == [k \in Pipe |-> <<0, <<>>>>]
           f0 == [AllClosed EXCEPT ![0] = Tty, ![1] = Tty]
<1>1. /\ session \in Sessions /\ lines = 0
      /\ pc = [p \in Proc |-> IF p = main THEN "getcmd" ELSE "free"]
      /\ job = [p \in Proc |-> 0] /\ path = [p \in Proc |-> <<>>]
      /\ fd = [p \in Proc |-> IF p = main THEN f0 ELSE AllClosed]
  BY DEF Init
<1>2. lines <= Len(session)
  BY <1>1 DEF StandardRedirections
<1>3. f0 = [n \in Fd |-> IF n = 0 \/ n = 1 THEN Tty ELSE Closed]
  BY DEF AllClosed, Fd
<1>4. /\ f0[0] = Tty /\ f0[1] = Tty /\ f0[P0] = Closed /\ f0[P1] = Closed
      /\ \A n \in Fd : f0[n] \in {Tty, Closed}
  BY <1>3 DEF Fd, P0, P1
<1>5. Whole(f0) /\ Whole(AllClosed)
  BY <1>3 DEF Whole, AllClosed
<1> HIDE DEF f0
<1>6. Descriptors
  <2>1. \A p \in Proc : fd[p] = [n \in Fd |-> fd[p][n]]
    BY <1>1, <1>5 DEF Whole
  <2>2. QED  BY <1>1, <2>1 DEF Descriptors
<1>7. own \in [Pipe -> Nat \X Seq(Branch)]
  <2>1. PICK none : none = <<>>
    OBVIOUS
  <2>2. none \in Seq(Branch)
    BY <2>1
  <2>3. \A v \in Seq(Branch) : <<0, v>> \in Nat \X Seq(Branch)
    OBVIOUS
  <2>4. QED  BY <2>1, <2>2, <2>3
<1> HIDE DEF own
<1>8. ASSUME NEW p \in Proc
      PROVE  Wired(own, session[job[p]], job[p], pc[p], path[p], fd[p]) /\ \A k : ~Uses(fd[p], k)
  <2>1. CASE p = main
    <3>1. pc[p] = "getcmd" /\ path[p] = <<>> /\ fd[p] = f0
      BY <1>1, <2>1
    <3>2. "getcmd" \in Straight /\ "getcmd" \notin Listing
      BY PlaceIs
    <3>3. Leads(session[job[p]], <<>>)
      <4>1. 1..Len(<<>>) = {}
        OBVIOUS
      <4>2. QED  BY <4>1 DEF Leads
    <3>4. \A n \in 0..1 : f0[n] = Tty
      BY <1>4
    <3>5. Plain(own, session[job[p]], job[p], <<>>, f0)
      BY <1>4, <3>3, <3>4, StandardAtStart DEF Plain
    <3>6. \A k : ~Uses(f0, k)
      BY <1>4, Ends DEF Uses
    <3>7. QED  BY <3>1, <3>2, <3>5, <3>6, StraightIsWired
  <2>2. CASE p # main
    <3>1. pc[p] = "free" /\ fd[p] = AllClosed
      BY <1>1, <2>2
    <3>2. "free" \in Gone
      BY DEF Gone
    <3>3. QED  BY <3>1, <3>2, GoneIsWired, NoneUsed
  <2>3. QED  BY <2>1, <2>2
<1>9. Pipes(own)
  BY <1>7, <1>8 DEF Pipes, Used
<1>10. QED  BY <1>1, <1>2, <1>6, <1>9 DEF WInv

(* The innermost redirection or pipe decides what the descriptors are of a *)
(* process that runs a program.                                            *)
LEMMA WiredIsConnected ==
  ASSUME Base, WInv
  PROVE  Connected
<1>1. PICK own : Pipes(own)
  BY DEF WInv
<1>2. ASSUME NEW p \in Proc, Running(p)
      PROVE  Plain(own, session[job[p]], job[p], path[p], fd[p]) /\ path[p] \in Seq(Branch)
  <2>1. pc[p] \in Straight
    BY <1>2, PlaceIs DEF Running, Switch, Straight
  <2>2. QED  BY <2>1, <1>1, PlainAtStraight DEF Base, Typed
<1>3. ASSUME NEW p \in Proc, NEW i, NEW n \in 0..1
      PROVE  /\ Decides(p, i, n) <=> SetAt(session[job[p]], path[p], i, n)
             /\ At(p, i) = Above(session[job[p]], path[p], i)
  <2>1. At(p, i) = Above(session[job[p]], path[p], i)
    BY DEF At, Above
  <2>2. QED  BY <2>1 DEF Decides, Passes, SetAt, Sets
<1>4. ASSUME NEW p \in Proc, Running(p), NEW n \in 0..1
      PROVE  /\ Innermost(p, n) = {} => fd[p][n] = Tty
             /\ \A i \in Innermost(p, n) :
                  IF At(p, i).type = "REDIR" THEN fd[p][n] = File(At(p, i).file)
                  ELSE \E k \in Pipe : /\ own[k] = <<job[p], SubSeq(path[p], 1, i - 1)>>
                                       /\ fd[p][n] = End(n, k)
  <2> DEFINE tree == session[job[p]]
             w == path[p]
             e == fd[p][n]
             j == job[p]
  <2>1. Standard(own, tree, j, w, n, e) /\ w \in Seq(Branch)
    BY <1>2, <1>4 DEF Plain
  <2>2. \A i : i \in Innermost(p, n) <=> i \in 1..Len(w) /\ LastSetAt(tree, w, i, n)
    BY <1>3 DEF Innermost, LastSetAt
  <2>3. \A i : At(p, i) = Above(tree, w, i)
    BY <1>3
  <2> HIDE DEF tree, w, e, j
  <2>4. \A i \in Innermost(p, n) :
          IF Above(tree, w, i).type = "REDIR" THEN e = File(Above(tree, w, i).file)
          ELSE \E k \in Pipe : own[k] = <<j, SubSeq(w, 1, i - 1)>> /\ e = End(n, k)
    BY <2>1, <2>2 DEF Standard
  <2>5. Innermost(p, n) = {} => e = Tty
    BY <2>1, <2>2 DEF Standard
  <2>6. \A i \in Innermost(p, n) :
          IF At(p, i).type = "REDIR" THEN e = File(At(p, i).file)
          ELSE \E k \in Pipe : own[k] = <<j, SubSeq(w, 1, i - 1)>> /\ e = End(n, k)
    <3> SUFFICES ASSUME NEW i \in Innermost(p, n)
                 PROVE  IF At(p, i).type = "REDIR" THEN e = File(At(p, i).file)
                        ELSE \E k \in Pipe : own[k] = <<j, SubSeq(w, 1, i - 1)>> /\ e = End(n, k)
      OBVIOUS
    <3>1. At(p, i) = Above(tree, w, i)
      BY <2>3
    <3>2. QED  BY <3>1, <2>4
  <2>7. QED  BY <2>5, <2>6 DEF w, e, j
<1>5. ASSUME NEW p \in Proc, Running(p), NEW q \in Proc, Running(q),
             NEW i \in Innermost(p, 1), NEW j \in Innermost(q, 0),
             At(p, i).type = "PIPE", At(q, j).type = "PIPE"
      PROVE  fd[p][1].of = fd[q][0].of <=> SamePipe(p, i, q, j)
  <2>1. PICK k \in Pipe : own[k] = <<job[p], SubSeq(path[p], 1, i - 1)>> /\ fd[p][1] = End(1, k)
    <3>1. 1 \in 0..1 /\ At(p, i).type # "REDIR"
      BY <1>5
    <3>2. QED  BY <3>1, <1>4, <1>5
  <2>2. PICK l \in Pipe : own[l] = <<job[q], SubSeq(path[q], 1, j - 1)>> /\ fd[q][0] = End(0, l)
    <3>1. 0 \in 0..1 /\ At(q, j).type # "REDIR"
      BY <1>5
    <3>2. QED  BY <3>1, <1>4, <1>5
  <2>3. /\ fd[p][1] = WriteEnd(k) /\ fd[p][1].of = k
        /\ fd[q][0] = ReadEnd(l) /\ fd[q][0].of = l
    BY <2>1, <2>2 DEF End, WriteEnd, ReadEnd
  <2>4. Used(k) /\ Used(l)
    BY <2>3, Ends DEF Used, Uses
  <2>5. own[k] = own[l] => k = l
    BY <1>1, <2>4 DEF Pipes
  <2> DEFINE u == SubSeq(path[p], 1, i - 1)
             v == SubSeq(path[q], 1, j - 1)
  <2>6. own[k] = <<job[p], u>> /\ own[l] = <<job[q], v>>
    BY <2>1, <2>2
  <2>7. SamePipe(p, i, q, j) <=> job[p] = job[q] /\ u = v
    BY DEF SamePipe
  <2> HIDE DEF u, v
  <2>8. QED  BY <2>3, <2>5, <2>6, <2>7
<1>6. ASSUME NEW p \in Proc, Running(p), NEW n \in {0, 1}
      PROVE  /\ Innermost(p, n) = {} => fd[p][n] = Tty
             /\ \A i \in Innermost(p, n) :
                  fd[p][n].kind = IF At(p, i).type = "REDIR" THEN "file"
                                  ELSE IF n = 0 THEN "read" ELSE "write"
             /\ \A i \in Innermost(p, n) :
                  At(p, i).type = "REDIR" => fd[p][n] = File(At(p, i).file)
  <2>1. n \in 0..1
    OBVIOUS
  <2>2. \A k : End(n, k).kind = IF n = 0 THEN "read" ELSE "write"
    BY DEF End, ReadEnd, WriteEnd
  <2>3. \A f : File(f).kind = "file"
    BY DEF File
  <2>4. QED  BY <1>4, <1>6, <2>1, <2>2, <2>3
<1>7. ASSUME NEW p \in Proc, Running(p)
      PROVE  fd[p][P0] = Closed /\ fd[p][P1] = Closed
  BY <1>2, <1>7 DEF Plain
<1>8. QED  BY <1>5, <1>6, <1>7 DEF Connected

(* For every session that parsecmd can read: a program starts with its     *)
(* standard descriptors only, each open on what the line says, and a pipe  *)
(* joins the two sides of one PIPE command and no others.                  *)
THEOREM ProgramsConnected == ASSUME StandardRedirections PROVE Spec => []Connected
<1>1. Init => Base /\ WInv
  BY InitSound, InitWired DEF Sound, Base
<1>2. Base /\ WInv /\ [Next]_vars => WInv'
  BY NextKeepsWInv
<1>3. Base /\ WInv => Connected
  BY WiredIsConnected
<1>4. QED  BY <1>1, <1>2, <1>3, OneCommandEach, PTL DEF Spec
=============================================================================
