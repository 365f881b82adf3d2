----------------------------- MODULE ShellParse -----------------------------
(***************************************************************************)
(* The parser of shellproj/sh.c: recursive descent over a line, by         *)
(* parseline, parsepipe, parseexec, parseblock and parseredirs, into a     *)
(* tree of commands.  A line is a sequence of tokens, "a" standing for     *)
(* every word; a word is named by its place in the line, as the code names *)
(* it by a pointer into the buffer.  White space, which gettoken and peek  *)
(* skip, and the text of messages are left out.                            *)
(*                                                                         *)
(* The place s = 0 stands for a panic: there is no token there, as at the  *)
(* end of the line, so that every loop stops.                              *)
(*                                                                         *)
(* A definition marked "fault" is a wrong variant of the one after it.     *)
(***************************************************************************)
EXTENDS Integers, Sequences, FiniteSets, SequencesExt

CONSTANTS
  MAXARGS,   \* size of argv, its terminating null pointer included
  Tokens,    \* the tokens lines are made of
  MaxTokens  \* bound: the longest line

ASSUME ShellParseAssumption ==
  /\ MAXARGS \in Nat \ {0}
  /\ MaxTokens \in Nat
  /\ Tokens \subseteq {"a", "|", "(", ")", ";", "&", "<", ">", ">>"}

VARIABLE line  \* what getcmd has put into buf

Panic == [type |-> "PANIC"]

execcmd(argv) == [type |-> "EXEC", argv |-> argv]
redircmd(sub, redir) == [type |-> "REDIR", cmd |-> sub, file |-> redir.file, fd |-> redir.fd]
pipecmd(l, r) == [type |-> "PIPE", left |-> l, right |-> r]
listcmd(l, r) == [type |-> "LIST", left |-> l, right |-> r]
backcmd(sub) == [type |-> "BACK", cmd |-> sub]

redirOf(tok, file) == [fd |-> IF tok = "<" THEN 0 ELSE 1, file |-> file]
Redirections == {"<", ">", ">>"}

(* A command inside its redirections, the first one innermost.             *)
Wrapped(cmd, redirs) == FoldLeft(redircmd, cmd, redirs)

NUL == "0"
gettoken(s) == IF s \in 1..Len(line) THEN line[s] ELSE NUL
peek(s, toks) == gettoken(s) \in toks

Panicked == [cmd |-> Panic, s |-> 0]

RECURSIVE parseline(_), parsepipe(_), parseredirs(_, _), parseargs(_, _), backs(_, _)

parseredirs(s, redirs) ==
  IF ~peek(s, Redirections) THEN [redirs |-> redirs, s |-> s]
  ELSE IF ~peek(s + 1, {"a"}) THEN [redirs |-> redirs, s |-> 0]
  ELSE parseredirs(s + 2, Append(redirs, redirOf(gettoken(s), s + 1)))

parseblock(s) ==
  LET body  == parseline(s + 1)
      after == parseredirs(body.s + 1, <<>>)
  IN  IF ~peek(body.s, {")"}) \/ after.s = 0 THEN Panicked
      ELSE [cmd |-> Wrapped(body.cmd, after.redirs), s |-> after.s]

(* The loop of parseexec: r is what the last parseredirs left.             *)
parseargs(r, argv) ==
  IF peek(r.s, {"|", ")", "&", ";", NUL})
  THEN [cmd |-> Wrapped(execcmd(argv), r.redirs), s |-> r.s]
  ELSE IF ~peek(r.s, {"a"}) \/ Len(argv) + 1 >= MAXARGS THEN Panicked
  ELSE parseargs(parseredirs(r.s + 1, r.redirs), Append(argv, r.s))

parseexec(s) ==
  IF peek(s, {"("}) THEN parseblock(s) ELSE parseargs(parseredirs(s, <<>>), <<>>)

(* fault: a pipeline is grouped from the left                              *)
RECURSIVE pipesFrom(_)
pipesFrom(l) ==
  IF ~peek(l.s, {"|"}) THEN l
  ELSE LET r == parseexec(l.s + 1)
       IN  pipesFrom([cmd |-> pipecmd(l.cmd, r.cmd), s |-> r.s])
parsepipeLeft(s) == pipesFrom(parseexec(s))

parsepipe(s) ==
  LET left == parseexec(s)
  IN  IF ~peek(left.s, {"|"}) THEN left
      ELSE LET right == parsepipe(left.s + 1)
           IN  [cmd |-> pipecmd(left.cmd, right.cmd), s |-> right.s]

backs(cmd, s) ==
  IF peek(s, {"&"}) THEN backs(backcmd(cmd), s + 1) ELSE [cmd |-> cmd, s |-> s]

parseline(s) ==
  LET pipe == parsepipe(s)
      left == backs(pipe.cmd, pipe.s)
  IN  IF ~peek(left.s, {";"}) THEN left
      ELSE LET right == parseline(left.s + 1)
           IN  [cmd |-> listcmd(left.cmd, right.cmd), s |-> right.s]

parsecmd ==
  LET parsed == parseline(1)
  IN  IF parsed.s = Len(line) + 1 THEN parsed.cmd ELSE Panic

(* The words nulterminate ends with a zero byte.                           *)
(* fault: a redirected command is left as it is                            *)
RECURSIVE nulterminateFlat(_)
nulterminateFlat(cmd) ==
  CASE cmd.type = "EXEC"  -> Range(cmd.argv)
    [] cmd.type = "REDIR" -> {cmd.file}
    [] cmd.type = "BACK"  -> nulterminateFlat(cmd.cmd)
    [] OTHER -> nulterminateFlat(cmd.left) \cup nulterminateFlat(cmd.right)

RECURSIVE nulterminate(_)
nulterminate(cmd) ==
  CASE cmd.type = "EXEC"  -> Range(cmd.argv)
    [] cmd.type = "REDIR" -> nulterminate(cmd.cmd) \cup {cmd.file}
    [] cmd.type = "BACK"  -> nulterminate(cmd.cmd)
    [] OTHER -> nulterminate(cmd.left) \cup nulterminate(cmd.right)

(* A line grows by one token: every line up to the bound is a state.       *)
Init == line = <<>>
Next == Len(line) < MaxTokens /\ \E t \in Tokens : line' = Append(line, t)
Spec == Init /\ [][Next]_line
-----------------------------------------------------------------------------
(* The grammar, by cutting a line at its separators instead of reading it  *)
(* from left to right: ";" binds loosest, then a trailing "&", then "|".   *)
(* A separator inside parentheses does not count.                          *)
Opens(lo, hi)  == Cardinality({k \in lo..hi : line[k] = "("})
Closes(lo, hi) == Cardinality({k \in lo..hi : line[k] = ")"})

Separators(t, lo, hi) ==
  {k \in lo..hi : line[k] = t /\ Opens(lo, k) = Closes(lo, k)}

First(S) == CHOOSE k \in S : \A j \in S : k <= j

Words(lo, hi) ==
  {k \in lo..hi : line[k] = "a" /\ ~(k > lo /\ line[k - 1] \in Redirections)}

RedirsIn(lo, hi) == {k \in lo..hi : line[k] \in Redirections}

(* Words and redirections only, each redirection with its file.            *)
Plain(lo, hi) ==
  \A k \in lo..hi :
    /\ line[k] \in {"a"} \cup Redirections
    /\ line[k] \in Redirections => k < hi /\ line[k + 1] = "a"

InOrder(S) == SetToSortSeq(S, <)

Redirected(cmd, lo, hi) ==
  Wrapped(cmd, [n \in 1..Cardinality(RedirsIn(lo, hi)) |->
                  LET k == InOrder(RedirsIn(lo, hi))[n] IN redirOf(line[k], k + 1)])

(* Either side wrong makes the whole wrong.                                *)
Both(make(_, _), l, r) == IF Panic \in {l, r} THEN Panic ELSE make(l, r)

RECURSIVE Line(_, _), Job(_, _), Pipeline(_, _)

Block(lo, hi) ==
  LET ends == {k \in lo..hi : line[k] = ")" /\ Opens(lo, k) = Closes(lo, k)}
  IN  IF ends = {} THEN Panic
      ELSE LET body == Line(lo + 1, First(ends) - 1)
           IN  IF \/ body = Panic
                  \/ ~Plain(First(ends) + 1, hi)
                  \/ Words(First(ends) + 1, hi) # {}
               THEN Panic
               ELSE Redirected(body, First(ends) + 1, hi)

Simple(lo, hi) ==
  IF lo <= hi /\ line[lo] = "(" THEN Block(lo, hi)
  ELSE IF Plain(lo, hi) /\ Cardinality(Words(lo, hi)) < MAXARGS
  THEN Redirected(execcmd(InOrder(Words(lo, hi))), lo, hi)
  ELSE Panic

Pipeline(lo, hi) ==
  LET bars == Separators("|", lo, hi)
  IN  IF bars = {} THEN Simple(lo, hi)
      ELSE Both(pipecmd, Simple(lo, First(bars) - 1), Pipeline(First(bars) + 1, hi))

Job(lo, hi) ==
  IF lo <= hi /\ line[hi] = "&"
  THEN LET sub == Job(lo, hi - 1) IN IF sub = Panic THEN Panic ELSE backcmd(sub)
  ELSE Pipeline(lo, hi)

Line(lo, hi) ==
  LET semis == Separators(";", lo, hi)
  IN  IF semis = {} THEN Job(lo, hi)
      ELSE Both(listcmd, Job(lo, First(semis) - 1), Line(First(semis) + 1, hi))

(* A line is accepted exactly if the grammar has it, with the tree the     *)
(* grammar gives it: precedence, grouping, the argument limit, blocks and  *)
(* their redirections, and nothing left over.                              *)
ParsesTheGrammar == parsecmd = Line(1, Len(line))

(* When a line is accepted every word of it is in the tree and is ended,   *)
(* so that the program gets no argument or file name with a tail.          *)
WordsEnded ==
  parsecmd # Panic =>
    nulterminate(parsecmd) = {k \in 1..Len(line) : line[k] = "a"}
=============================================================================
