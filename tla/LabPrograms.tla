---------------------------- MODULE LabPrograms -----------------------------
(***************************************************************************)
(* The small programs about pipes and signals: processlab/q8.c and q9.c,   *)
(* shellproj/parent_child_pipe.c and simple_pipe.c, and the programs of    *)
(* signallab, catch_signals.c and killme_with_a_signal.c, with my_kill.c   *)
(* that sends them SIGINT.  A program is what its processes do after their *)
(* forks: Text gives the system calls of each, in order; the calls are     *)
(* modelled as these programs use them.                                    *)
(*                                                                         *)
(* A message is a sequence of the pieces it was put together from.  The    *)
(* word typed is taken to fit the arrays it goes to, with what q9 and      *)
(* parent_child_pipe append to it; what q8 appends never fits.  Every read *)
(* asks for at least as much as one write wrote, and no pipe holds         *)
(* messages of different sizes, so that a read takes one message.          *)
(*                                                                         *)
(* A definition marked "fault" is a wrong variant of the one after it.     *)
(***************************************************************************)
EXTENDS Integers, Sequences, FiniteSets

CONSTANTS
  Capacity,  \* messages a pipe holds
  MaxKills   \* bound: how often my_kill is run

ASSUME LabAssumption == Capacity \in Nat /\ Capacity >= 3 /\ MaxKills \in Nat

VARIABLES
  prog,      \* the program that runs
  forks,     \* what fork has returned in each process, in order
  text,      \* what each process has yet to do; <<>> once it has ended
  parent,    \* the parent of each process, 0 for none
  holds,     \* the pipe ends each process holds
  pipe,      \* the messages in each pipe
  got,       \* the messages each process has read
  pending,   \* is SIGINT pending for process 1?
  handling,  \* is process 1 in its handler?
  count,     \* count of catch_signals.c, done of killme_with_a_signal.c
  kills,     \* how often my_kill has run
  smashed    \* history: q8's strcat has spoiled its process

files   == <<parent, holds, pipe, got>>
signals == <<pending, handling, count, kills, smashed>>
vars    == <<prog, forks, text, files, signals>>

Proc == 1..4
Pipe == {1, 2}
Ends == {"r", "w"} \X Pipe
Programs == {"q8", "q9", "parent_child_pipe", "simple_pipe",
             "catch_signals", "killme_with_a_signal"}

Op(name, k) == [op |-> name, pipe |-> k, msg |-> <<>>]
Write(k, msg) == [op |-> "write", pipe |-> k, msg |-> msg]
Close(way, k) == Op(IF way = "r" THEN "close_read" ELSE "close_write", k)
Read(k)  == Op("read", k)
Reply(k) == Op("reply", k)   \* writes what was read with a piece appended

(* q8: the process that is the second child of the first process writes,   *)
(* its first child reads; the child of both does neither.  What is written *)
(* is the array's ten bytes: the word and the start of the suffix, whose   *)
(* thirteen characters are never all among them.                           *)
q8(forked) ==
  CASE forked = <<"child", "parent">> -> <<Read(1), Close("r", 1)>>
    [] forked = <<"parent", "child">> ->
         <<Op("strcat", 1), Write(1, <<"word", "start">>), Close("w", 1)>>
    [] OTHER -> <<>>

(* fault: one pipe for both ways                                           *)
q9OnePipe(forked) ==
  CASE forked = <<"parent">> -> <<Write(1, <<"word">>), Read(1)>>
    [] forked = <<"child">> -> <<Read(1), Reply(1)>>
    [] OTHER -> <<>>

q9(forked) ==
  CASE forked = <<"parent">> ->
         <<Close("r", 1), Close("w", 2), Write(1, <<"word">>), Read(2)>>
    [] forked = <<"child">> ->
         <<Close("w", 1), Close("r", 2), Read(1), Reply(2)>>
    [] OTHER -> <<>>

(* fault: the child is waited for before it is written to                  *)
parentWaitsFirst(forked) ==
  CASE forked = <<"parent">> ->
         <<Close("r", 1), Op("wait", 1), Write(1, <<"word">>), Close("w", 1),
           Close("w", 2), Read(2), Close("r", 2)>>
    [] forked = <<"child">> ->
         <<Close("w", 1), Read(1), Close("r", 1), Close("r", 2),
           Reply(2), Close("w", 2)>>
    [] OTHER -> <<>>

parent_child_pipe(forked) ==
  CASE forked = <<"parent">> ->
         <<Close("r", 1), Write(1, <<"word">>), Close("w", 1), Op("wait", 1),
           Close("w", 2), Read(2), Close("r", 2)>>
    [] forked = <<"child">> ->
         <<Close("w", 1), Read(1), Close("r", 1), Close("r", 2),
           Reply(2), Close("w", 2)>>
    [] OTHER -> <<>>

simple_pipe == <<Write(1, <<"msg1">>), Write(1, <<"msg2">>), Write(1, <<"msg3">>),
                 Read(1), Read(1), Read(1)>>

(* Both signal programs install a handler for SIGINT and loop.             *)
signalProgram == <<Op("sigaction", 1), Op("loop", 1)>>

NForks == CASE prog = "q8" -> 2
            [] prog \in {"q9", "parent_child_pipe"} -> 1
            [] OTHER -> 0

Text(forked) ==
  CASE prog = "q8" -> q8(forked)
    [] prog = "q9" -> q9(forked)
    [] prog = "parent_child_pipe" -> parent_child_pipe(forked)
    [] prog = "simple_pipe" -> simple_pipe
    [] OTHER -> signalProgram

(* What a process has to do before and after its forks.                    *)
Remaining(forked) ==
  IF Len(forked) < NForks THEN <<Op("fork", 1)>> ELSE Text(forked)

Init ==
  /\ prog \in Programs
  /\ forks = [p \in Proc |-> <<>>]
  /\ text = [p \in Proc |-> IF p = 1 THEN Remaining(<<>>) ELSE <<>>]
  /\ parent = [p \in Proc |-> 0]
  /\ holds = [p \in Proc |-> IF p = 1 THEN Ends ELSE {}]
  /\ pipe = [k \in Pipe |-> <<>>]
  /\ got = [p \in Proc |-> <<>>]
  /\ pending = FALSE
  /\ handling = FALSE
  /\ count = 0
  /\ kills = 0
  /\ smashed = FALSE
-----------------------------------------------------------------------------
Is(p, name) == text[p] # <<>> /\ Head(text[p]).op = name
At(p) == Head(text[p]).pipe

(* A process that has come to the end of its text ends.                    *)
Held(p, rest, ends) == IF rest = <<>> THEN {} ELSE ends

Does(p, ends) ==
  /\ text' = [text EXCEPT ![p] = Tail(@)]
  /\ holds' = [holds EXCEPT ![p] = Held(p, Tail(text[p]), ends)]
  /\ UNCHANGED <<prog, forks, parent>>

Forked(p, with) == Append(forks[p], with)

fork(p) ==
  /\ Is(p, "fork")
  /\ \/ \E c \in Proc :
          /\ forks[c] = <<>> /\ c # 1
          /\ \A d \in Proc \ {1} : forks[d] = <<>> => c <= d
          /\ forks' = [forks EXCEPT ![p] = Forked(p, "parent"), ![c] = Forked(p, "child")]
          /\ text' = [text EXCEPT ![p] = Remaining(Forked(p, "parent")),
                                  ![c] = Remaining(Forked(p, "child"))]
          /\ parent' = [parent EXCEPT ![c] = p]
          /\ holds' = [holds EXCEPT
                        ![p] = Held(p, Remaining(Forked(p, "parent")), @),
                        ![c] = Held(c, Remaining(Forked(p, "child")), holds[p])]
     \/ /\ forks' = [forks EXCEPT ![p] = Forked(p, "failed")]
        /\ text' = [text EXCEPT ![p] = Remaining(Forked(p, "failed"))]
        /\ holds' = [holds EXCEPT ![p] = Held(p, Remaining(Forked(p, "failed")), @)]
        /\ UNCHANGED parent
  /\ UNCHANGED <<prog, pipe, got, signals>>

close(p) ==
  /\ \/ Is(p, "close_read") /\ Does(p, holds[p] \ {<<"r", At(p)>>})
     \/ Is(p, "close_write") /\ Does(p, holds[p] \ {<<"w", At(p)>>})
  /\ UNCHANGED <<pipe, got, signals>>

HeldByAny(end) == \E p \in Proc : end \in holds[p]

(* A write waits for room; without a reader it kills the process.          *)
write(p) ==
  /\ Is(p, "write") \/ Is(p, "reply")
  /\ LET msg == IF Is(p, "write") THEN Head(text[p]).msg
                ELSE got[p][Len(got[p])] \o <<"suffix">>
     IN  \/ /\ HeldByAny(<<"r", At(p)>>)
            /\ Len(pipe[At(p)]) < Capacity
            /\ pipe' = [pipe EXCEPT ![At(p)] = Append(@, msg)]
            /\ Does(p, holds[p])
         \/ /\ ~HeldByAny(<<"r", At(p)>>)
            /\ text' = [text EXCEPT ![p] = <<>>]
            /\ holds' = [holds EXCEPT ![p] = {}]
            /\ UNCHANGED <<prog, forks, parent, pipe>>
  /\ UNCHANGED <<got, signals>>

(* A read waits for a message, or for every write end to be closed.        *)
read(p) ==
  /\ Is(p, "read")
  /\ \/ /\ pipe[At(p)] # <<>>
        /\ got' = [got EXCEPT ![p] = Append(@, Head(pipe[At(p)]))]
        /\ pipe' = [pipe EXCEPT ![At(p)] = Tail(@)]
     \/ /\ pipe[At(p)] = <<>> /\ ~HeldByAny(<<"w", At(p)>>)
        /\ got' = [got EXCEPT ![p] = Append(@, <<"nothing">>)]
        /\ UNCHANGED pipe
  /\ Does(p, holds[p])
  /\ UNCHANGED signals

(* q8's strcat writes beyond the array.  What it overwrites there may not  *)
(* matter to what the process still does; or it is the pipe's descriptors, *)
(* or the process is ended at once: then nothing is written to the pipe.   *)
strcat(p) ==
  /\ Is(p, "strcat")
  /\ \/ Does(p, holds[p]) /\ UNCHANGED smashed
     \/ /\ text' = [text EXCEPT ![p] = <<>>]
        /\ holds' = [holds EXCEPT ![p] = {}]
        /\ smashed' = TRUE
        /\ UNCHANGED <<prog, forks, parent>>
  /\ UNCHANGED <<pipe, got, pending, handling, count, kills>>

wait(p) ==
  /\ Is(p, "wait")
  /\ \E c \in Proc : parent[c] = p /\ text[c] = <<>>
  /\ Does(p, holds[p])
  /\ UNCHANGED <<pipe, got, signals>>
-----------------------------------------------------------------------------
Installed == ~Is(1, "sigaction")
Alive == text[1] # <<>>

sigaction ==
  /\ Is(1, "sigaction")
  /\ Does(1, holds[1])
  /\ UNCHANGED <<pipe, got, signals>>

(* The loop's test sees the counter as it is now: it is volatile.          *)
(* fault: it is loaded once, before the loop                               *)
EnoughCached == FALSE

Enough == IF prog = "catch_signals" THEN count = 4 ELSE count # 0

loop ==
  /\ Is(1, "loop")
  /\ ~handling
  /\ Enough
  /\ Does(1, holds[1])
  /\ UNCHANGED <<pipe, got, signals>>

(* my_kill of a process that has ended reports an error.  A signal that is *)
(* pending already is not sent twice.                                      *)
my_kill ==
  /\ prog \in {"catch_signals", "killme_with_a_signal"}
  /\ kills < MaxKills
  /\ kills' = kills + 1
  /\ pending' = Alive
  /\ UNCHANGED <<prog, forks, text, files, handling, count, smashed>>

(* SIGINT ends a process that has no handler yet, and waits while the      *)
(* handler runs.                                                           *)
Deliver ==
  /\ pending /\ ~handling /\ Alive
  /\ pending' = FALSE
  /\ \/ Installed /\ handling' = TRUE /\ UNCHANGED <<text, holds>>
     \/ /\ ~Installed
        /\ text' = [text EXCEPT ![1] = <<>>]
        /\ holds' = [holds EXCEPT ![1] = {}]
        /\ UNCHANGED handling
  /\ UNCHANGED <<prog, forks, parent, pipe, got, count, kills, smashed>>

handler ==
  /\ handling
  /\ handling' = FALSE
  /\ count' = IF prog = "catch_signals" THEN count + 1 ELSE 1
  /\ UNCHANGED <<prog, forks, text, files, pending, kills, smashed>>

Step(p) == fork(p) \/ close(p) \/ strcat(p) \/ write(p) \/ read(p) \/ wait(p)

Next ==
  \/ \E p \in Proc : Step(p)
  \/ sigaction
  \/ loop
  \/ my_kill
  \/ Deliver
  \/ handler

(* Every process is scheduled and every signal delivered; nobody has to    *)
(* send one.                                                               *)
Fairness ==
  /\ \A p \in Proc : WF_vars(Step(p))
  /\ WF_vars(sigaction)
  /\ WF_vars(loop)
  /\ WF_vars(Deliver)
  /\ WF_vars(handler)

Spec == Init /\ [][Next]_vars /\ Fairness
-----------------------------------------------------------------------------
ForkFailed == \E p \in Proc : \E n \in DOMAIN forks[p] : forks[p][n] = "failed"

(* What a process reads is what it was meant to read, in order, whatever   *)
(* the interleaving: no process reads its own message or an end of file.   *)
(* In q8 that is what ten bytes hold of the message.                       *)
Expected(p) ==
  CASE prog = "q8" -> << <<"word", "start">> >>
    [] prog = "simple_pipe" -> << <<"msg1">>, <<"msg2">>, <<"msg3">> >>
    [] OTHER -> IF forks[p] = <<"parent">> THEN << <<"word", "suffix">> >>
                ELSE << <<"word">> >>

ReadsWhatWasSent ==
  \A p \in Proc : \A n \in DOMAIN got[p] : got[p][n] = Expected(p)[n]

(* The programs end.  The pipe programs do, and all their processes, unless*)
(* a fork fails or q8's overflow keeps it from writing: no process waits   *)
(* for one that waits for it, and none for an end of file that its own     *)
(* open end keeps away, which is what q8's reader then does.  One signal   *)
(* is enough for killme_with_a_signal.c once its handler is installed; and *)
(* catch_signals.c ends when its counter rests at four, it runs on only if *)
(* a further signal comes before the loop has looked.  Signals may be      *)
(* merged, and come at any point of the loop or the handler.               *)
ProgramsEnd ==
  /\ prog \in {"q8", "q9", "parent_child_pipe", "simple_pipe"} ~>
       ForkFailed \/ smashed \/ \A p \in Proc : text[p] = <<>>
  /\ prog = "killme_with_a_signal" /\ Installed /\ pending /\ Alive ~> ~Alive
  /\ prog = "catch_signals" /\ count = 4 ~> ~Alive \/ count > 4
=============================================================================
