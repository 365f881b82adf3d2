------------------------------ MODULE MCShell ------------------------------
(***************************************************************************)
(* ShellRun on the trees the parser of ShellParse makes of some lines.     *)
(***************************************************************************)
EXTENDS ShellRun

(* The hypothesis of ShellRun_proofs: redirections are of standard input   *)
(* and output.                                                             *)
RECURSIVE Standard(_)
Standard(cmd) ==
  CASE cmd.type = "REDIR" -> cmd.fd \in {0, 1} /\ Standard(cmd.cmd)
    [] cmd.type \in {"LIST", "PIPE"} -> Standard(cmd.left) /\ Standard(cmd.right)
    [] cmd.type = "BACK" -> Standard(cmd.cmd)
    [] OTHER -> TRUE

ASSUME StandardRedirections == \A s \in Sessions : \A j \in DOMAIN s : Standard(s[j])

Parser(text) == INSTANCE ShellParse WITH
  line <- text, MAXARGS <- 3, Tokens <- {"a"}, MaxTokens <- 9

Tree(text) == Parser(text)!parsecmd

(* One session for each kind of line, nested in each other, and two whose  *)
(* second line meets what the first has left in the background.            *)
Typed == {
  << <<>>, <<"|", "|", ")">>, <<"(", "a", ";", ")", "&", ";", "a">> >>,
  << <<"a", "|", "a", "|", "a">> >>,
  << <<"(", "a", ";", "a", ")", "|", "a", ";", "a">> >>,
  << <<"a", "|", "(", "a", ";", "a", ")">> >>,
  << <<"a", "|", "a", ";", "a">> >>,
  << <<"(", "a", "|", "a", ")", "&">>, <<"a">> >>,
  << <<"a", "&">>, <<"a", "|", "a">> >>,
  << <<"a", "<", "a", ">", "a", ">", "a", "|", "a">> >>,
  << <<"(", "a", "|", "a", ")", ">", "a">> >> }

Parsed == {[n \in DOMAIN typed |-> Tree(typed[n])] : typed \in Typed}
=============================================================================
