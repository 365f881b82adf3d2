------------------------- MODULE LabPrograms_proofs -------------------------
(***************************************************************************)
(* A proof about LabPrograms, for every size of the pipes and however the  *)
(* processes are interleaved, also after a fork has failed: a process that *)
(* reads gets the message that is meant for it.  The invariant says of     *)
(* each program what its pipes hold when its processes have come how far;  *)
(* that no process reads an end of file, and that none is killed writing,  *)
(* follows from the pipe ends that the others still hold at that point.    *)
(***************************************************************************)
EXTENDS LabPrograms, SequenceTheorems, TLAPS

Msg == Seq({"word", "suffix", "start", "msg1", "msg2", "msg3", "nothing"})
Calls == {"fork", "close_read", "close_write", "write", "reply", "read", "wait",
          "strcat", "sigaction", "loop"}
Ops == [op : Calls, pipe : Pipe, msg : Msg]
ForkResults == {"parent", "child", "failed"}

Typed ==
  /\ prog \in Programs
  /\ forks \in [Proc -> Seq(ForkResults)]
  /\ text \in [Proc -> Seq(Ops)]
  /\ parent \in [Proc -> 0..4]
  /\ holds \in [Proc -> SUBSET Ends]
  /\ pipe \in [Pipe -> Seq(Msg)]
  /\ got \in [Proc -> Seq(Msg)]

(* What a process has left of s when it has done n of it.                  *)
Left(s, n) == SubSeq(s, n + 1, Len(s))

Idle(p) == text[p] = <<>> /\ got[p] = <<>>
Forking(p) == text[p] = <<Op("fork", 1)>> /\ got[p] = <<>> /\ holds[p] = Ends

Question == <<"word">>
Answer   == <<"word", "suffix">>
TenBytes == <<"word", "start">>   \* what q8 writes of its message

SignalPrograms == {"catch_signals", "killme_with_a_signal"}
PairPrograms   == {"q9", "parent_child_pipe"}
-----------------------------------------------------------------------------
(* The signal programs read nothing.                                       *)
SignalInv ==
  \A p \in Proc :
    /\ got[p] = <<>>
    /\ \A n \in DOMAIN text[p] : text[p][n].op \in {"sigaction", "loop"}

(* simple_pipe: one process, that writes three messages and reads them.    *)
Three == <<<<"msg1">>, <<"msg2">>, <<"msg3">>>>
Put(i)   == IF i < 3 THEN i ELSE 3
Taken(i) == IF i < 3 THEN 0 ELSE i - 3

Alone(i) ==
  /\ forks[1] = <<>>
  /\ text[1] = Left(simple_pipe, i)
  /\ Len(pipe[1]) = Put(i) - Taken(i)
  /\ \A n \in DOMAIN pipe[1] : pipe[1][n] = Three[Taken(i) + n]
  /\ Len(got[1]) = Taken(i)
  /\ \A n \in DOMAIN got[1] : got[1][n] = Three[n]
  /\ i < 6 => holds[1] = Ends

SimpleInv == (\A p \in Proc \ {1} : Idle(p)) /\ \E i \in 0..6 : Alone(i)

(* q8: whatever the forks returned, a process is idle, forks, reads or     *)
(* writes; the reader has the write end itself and waits.                  *)
q8Reader == q8(<<"child", "parent">>)
q8Writer == q8(<<"parent", "child">>)

Reading(p, i) ==
  /\ text[p] = Left(q8Reader, i)
  /\ got[p] = IF i = 0 THEN <<>> ELSE <<TenBytes>>
  /\ i = 0 => holds[p] = Ends
Writing(p, i) == text[p] = Left(q8Writer, i) /\ got[p] = <<>>

q8Stage(p) ==
  \/ Idle(p)
  \/ Forking(p)
  \/ \E i \in 0..2 : Reading(p, i)
  \/ \E i \in 0..3 : Writing(p, i)

q8Sent == \A n \in DOMAIN pipe[1] : pipe[1][n] = TenBytes
q8Fresh(p) == forks[p] = <<>> => Idle(p) \/ Forking(p)

q8Inv == q8Sent /\ \A p \in Proc : q8Stage(p) /\ q8Fresh(p)

(* q9 and parent_child_pipe: the steps after which the parent has written, *)
(* the child has read and answered, and the parent has read the answer.    *)
ParentText == Text(<<"parent">>)
ChildText  == Text(<<"child">>)

Asked    == IF prog = "q9" THEN 3 ELSE 2
Answered == IF prog = "q9" THEN 4 ELSE 5
Heard    == IF prog = "q9" THEN 4 ELSE 6

Paired(i, j) ==
  /\ text[1] = Left(ParentText, i)
  /\ text[2] = Left(ChildText, j)
  /\ pipe[1] = IF i >= Asked /\ j < Asked THEN <<Question>> ELSE <<>>
  /\ pipe[2] = IF j >= Answered /\ i < Heard THEN <<Answer>> ELSE <<>>
  /\ got[1] = IF i >= Heard THEN <<Answer>> ELSE <<>>
  /\ got[2] = IF j >= Asked THEN <<Question>> ELSE <<>>
  /\ j >= Asked => i >= Asked
  /\ i >= Heard => j >= Answered
  /\ i < Asked => <<"w", 1>> \in holds[1]
  /\ i < Heard => <<"r", 2>> \in holds[1]
  /\ j < Asked => <<"r", 1>> \in holds[2]
  /\ j < Answered => <<"w", 2>> \in holds[2]

Alike ==
  /\ forks[1] = <<"parent">> /\ forks[2] = <<"child">>
  /\ Idle(3) /\ Idle(4)
  /\ \E i \in 0..Len(ParentText), j \in 0..Len(ChildText) : Paired(i, j)

Unforked ==
  /\ Forking(1) /\ Idle(2) /\ Idle(3) /\ Idle(4)
  /\ forks = [p \in Proc |-> <<>>]
  /\ pipe = [k \in Pipe |-> <<>>]

PairInv == Unforked \/ (\A p \in Proc : Idle(p)) \/ Alike

(* Only the signal programs get a signal.                                  *)
Signals == pending => prog \in SignalPrograms

LInv ==
  /\ Typed
  /\ Signals
  /\ prog \in SignalPrograms => SignalInv
  /\ prog = "simple_pipe" => SimpleInv
  /\ prog = "q8" => q8Inv
  /\ prog \in PairPrograms => PairInv
-----------------------------------------------------------------------------
(* Lemmas about texts.                                                     *)
LEMMA LeftIs ==
  ASSUME NEW s \in Seq(Ops), NEW i \in 0..Len(s)
  PROVE  /\ Left(s, i) \in Seq(Ops)
         /\ Left(s, i) # <<>> <=> i < Len(s)
         /\ i < Len(s) => /\ Head(Left(s, i)) = s[i + 1]
                          /\ Tail(Left(s, i)) = Left(s, i + 1)
<1>1. Left(s, i) \in Seq(Ops) /\ Len(Left(s, i)) = Len(s) - i
  BY SubSeqProperties DEF Left
<1>2. ASSUME i < Len(s)
      PROVE  /\ Head(Left(s, i)) = s[i + 1]
             /\ Tail(Left(s, i)) = Left(s, i + 1)
  <2>1. i + 1 \in 1..Len(s) /\ Len(s) \in i + 1 .. Len(s)
    BY <1>2
  <2>2. QED
    BY <2>1, HeadTailOfSubSeq DEF Left
<1>3. QED
  BY <1>1, <1>2

LEMMA Whole ==
  ASSUME NEW s \in Seq(Ops)
  PROVE  Left(s, 0) = s
  BY SubSeqFull DEF Left

LEMMA OpIs ==
  ASSUME NEW name \in Calls, NEW k \in Pipe
  PROVE  /\ Op(name, k) \in Ops
         /\ Op(name, k).op = name /\ Op(name, k).pipe = k
  BY DEF Op, Ops, Msg

LEMMA WriteIs ==
  ASSUME NEW k \in Pipe, NEW m \in Msg
  PROVE  /\ Write(k, m) \in Ops
         /\ Write(k, m).op = "write" /\ Write(k, m).pipe = k
         /\ Write(k, m).msg = m
  BY DEF Write, Ops, Calls

(* What a step of a process uses up.                                       *)
LEMMA Advances ==
  ASSUME NEW p \in Proc, NEW s \in Seq(Ops), NEW i \in 0..Len(s),
         text[p] = Left(s, i), NEW name, Is(p, name)
  PROVE  /\ i < Len(s) /\ i + 1 \in 1..Len(s)
         /\ Head(text[p]) = s[i + 1] /\ Tail(text[p]) = Left(s, i + 1)
         /\ s[i + 1].op = name /\ At(p) = s[i + 1].pipe
  BY LeftIs DEF Is, At

(* What Does leaves: the process goes on with the ends it is left, and has *)
(* none at its end.                                                        *)
WentOn(p, ends) ==
  /\ prog' = prog /\ forks' = forks /\ parent' = parent
  /\ text' \in [Proc -> Seq(Ops)] /\ holds' \in [Proc -> SUBSET Ends]
  /\ text'[p] = Tail(text[p])
  /\ holds'[p] = IF text'[p] = <<>> THEN {} ELSE ends
  /\ \A q \in Proc \ {p} : text'[q] = text[q] /\ holds'[q] = holds[q]

LEMMA DoesIs ==
  ASSUME Typed, NEW p \in Proc, NEW ends \in SUBSET Ends, text[p] # <<>>,
         Does(p, ends)
  PROVE  WentOn(p, ends)
<1>1. Tail(text[p]) \in Seq(Ops)
  BY HeadTailProperties DEF Typed
<1>2. Held(p, Tail(text[p]), ends) \in SUBSET Ends
  BY DEF Held
<1>3. QED
  BY <1>1, <1>2 DEF WentOn, Typed, Does, Held

(* The step of a process at an operation, by what the operation is.        *)
LEMMA StepIsOp ==
  ASSUME Typed, NEW p \in Proc, Step(p)
  PROVE  /\ text[p] # <<>>
         /\ Is(p, "fork") => fork(p)
         /\ Is(p, "close_read") \/ Is(p, "close_write") => close(p)
         /\ Is(p, "write") \/ Is(p, "reply") => write(p)
         /\ Is(p, "read") => read(p)
         /\ Is(p, "wait") => wait(p)
         /\ Is(p, "strcat") => strcat(p)
         /\ Head(text[p]).op \in {"fork", "close_read", "close_write", "write",
                                  "reply", "read", "wait", "strcat"}
  BY DEF Step, fork, close, write, read, wait, strcat, Is

LEMMA MessagesAre ==
  /\ Question \in Msg /\ Answer \in Msg /\ TenBytes \in Msg /\ <<"nothing">> \in Msg
  /\ Three[1] \in Msg /\ Three[2] \in Msg /\ Three[3] \in Msg
  BY DEF Question, Answer, TenBytes, Three, Msg

LEMMA Replied == Question \o <<"suffix">> = Answer
<1>1. /\ Question \in Msg /\ <<"suffix">> \in Msg
      /\ Len(Question) = 1 /\ Len(<<"suffix">>) = 1
      /\ Question[1] = "word" /\ <<"suffix">>[1] = "suffix"
  BY DEF Question, Msg
<1>2. Answer \in Msg /\ Len(Answer) = 2 /\ Answer[1] = "word" /\ Answer[2] = "suffix"
  BY DEF Answer, Msg
<1> DEFINE said == Question \o <<"suffix">>
<1>3. said \in Msg /\ Len(said) = 2 /\ said[1] = "word" /\ said[2] = "suffix"
  <2> DEFINE tail == <<"suffix">>
  <2> HIDE DEF tail
  <2>1. tail \in Msg /\ Len(tail) = 1 /\ tail[1] = "suffix"
    BY <1>1 DEF tail
  <2>2. /\ Question \o tail \in Msg
        /\ Len(Question \o tail) = Len(Question) + Len(tail)
        /\ \A i \in 1..Len(Question) + Len(tail) :
             (Question \o tail)[i] =
               IF i <= Len(Question) THEN Question[i] ELSE tail[i - Len(Question)]
    BY <1>1, <2>1, ConcatProperties DEF Msg
  <2>3. /\ (Question \o tail)[1] = "word" /\ (Question \o tail)[2] = "suffix"
        /\ Len(Question \o tail) = 2
    BY <1>1, <2>1, <2>2
  <2>4. QED
    BY <2>2, <2>3 DEF tail
<1> HIDE DEF said
<1>5. \A i \in 1..2 : i = 1 \/ i = 2
  OBVIOUS
<1>6. said = Answer
  BY <1>2, <1>3, <1>5, SeqEqual DEF Msg
<1>7. QED
  BY <1>6 DEF said

LEMMA ReplyTyped ==
  ASSUME NEW m \in Msg
  PROVE  m \o <<"suffix">> \in Msg
<1>1. <<"suffix">> \in Msg
  BY DEF Msg
<1>2. QED
  BY <1>1, ConcatProperties DEF Msg

LEMMA CloseIs ==
  ASSUME NEW k \in Pipe
  PROVE  /\ Close("r", k) = Op("close_read", k) /\ Close("w", k) = Op("close_write", k)
         /\ Read(k) = Op("read", k) /\ Reply(k) = Op("reply", k)
  BY DEF Close, Read, Reply

(* The texts, as sequences of operations.                                  *)
LEMMA q8Texts ==
  /\ q8Reader = <<Op("read", 1), Op("close_read", 1)>>
  /\ q8Writer = <<Op("strcat", 1), Write(1, TenBytes), Op("close_write", 1)>>
  /\ q8Reader \in Seq(Ops) /\ Len(q8Reader) = 2
  /\ q8Writer \in Seq(Ops) /\ Len(q8Writer) = 3
<1>1. 1 \in Pipe
  BY DEF Pipe
<1>2. q8Reader = <<Op("read", 1), Op("close_read", 1)>>
  BY <1>1, CloseIs DEF q8Reader, q8
<1>3. q8Writer = <<Op("strcat", 1), Write(1, TenBytes), Op("close_write", 1)>>
  <2>1. <<"parent", "child">> # <<"child", "parent">>
    OBVIOUS
  <2>2. QED
    BY <1>1, <2>1, CloseIs DEF q8Writer, q8, TenBytes
<1>4. /\ Op("read", 1) \in Ops /\ Op("close_read", 1) \in Ops
      /\ Op("close_write", 1) \in Ops /\ Write(1, TenBytes) \in Ops
      /\ Op("strcat", 1) \in Ops
  BY <1>1, OpIs, WriteIs, MessagesAre DEF Calls
<1>5. QED
  BY <1>2, <1>3, <1>4

LEMMA q8Others ==
  ASSUME NEW forked
  PROVE  q8(forked) \in {q8Reader, q8Writer, <<>>}
<1>1. CASE forked = <<"child", "parent">>
  BY <1>1 DEF q8Reader
<1>2. CASE forked = <<"parent", "child">>
  BY <1>2 DEF q8Writer
<1>3. CASE forked # <<"child", "parent">> /\ forked # <<"parent", "child">>
  BY <1>3 DEF q8
<1>4. QED
  BY <1>1, <1>2, <1>3

LEMMA SimpleText ==
  /\ simple_pipe \in Seq(Ops) /\ Len(simple_pipe) = 6
  /\ \A i \in 1..3 : simple_pipe[i] = Write(1, Three[i])
  /\ \A i \in 4..6 : simple_pipe[i] = Op("read", 1)
<1>1. 1 \in Pipe
  BY DEF Pipe
<1>2. /\ \A i \in 1..3 : Write(1, Three[i]) \in Ops
      /\ Op("read", 1) \in Ops
  <2>1. \A i \in 1..3 : i = 1 \/ i = 2 \/ i = 3
    OBVIOUS
  <2>2. QED
    BY <1>1, <2>1, OpIs, WriteIs, MessagesAre DEF Calls
<1>3. simple_pipe = <<Write(1, Three[1]), Write(1, Three[2]), Write(1, Three[3]),
                      Op("read", 1), Op("read", 1), Op("read", 1)>>
  BY <1>1, CloseIs DEF simple_pipe, Three
<1> HIDE DEF simple_pipe
<1>4. \A i \in 1..3 : i = 1 \/ i = 2 \/ i = 3
  OBVIOUS
<1>5. \A i \in 4..6 : i = 4 \/ i = 5 \/ i = 6
  OBVIOUS
<1>6. Write(1, Three[1]) \in Ops /\ Write(1, Three[2]) \in Ops /\ Write(1, Three[3]) \in Ops
  BY <1>2
<1>7. simple_pipe \in Seq(Ops) /\ Len(simple_pipe) = 6
  BY <1>2, <1>3, <1>6
<1>8. \A i \in 1..3 : simple_pipe[i] = Write(1, Three[i])
  BY <1>3, <1>4
<1>9. \A i \in 4..6 : simple_pipe[i] = Op("read", 1)
  BY <1>3, <1>5
<1>10. QED
  BY <1>7, <1>8, <1>9

LEMMA SignalText ==
  /\ signalProgram = <<Op("sigaction", 1), Op("loop", 1)>>
  /\ signalProgram \in Seq(Ops)
  /\ \A n \in DOMAIN signalProgram : signalProgram[n].op \in {"sigaction", "loop"}
<1>1. 1 \in Pipe /\ "sigaction" \in Calls /\ "loop" \in Calls
  BY DEF Pipe, Calls
<1>2. QED
  BY <1>1, OpIs DEF signalProgram

(* Where in their texts the two processes of a pair write and read, and    *)
(* that they close the ends the other needs only after that.               *)
ParentActs(i) ==
  LET o == ParentText[i + 1] IN
  /\ o.op \in {"close_read", "close_write", "write", "read", "wait"}
  /\ o.op = "write" <=> i + 1 = Asked
  /\ o.op = "write" => o.pipe = 1 /\ o.msg = Question
  /\ o.op = "read" <=> i + 1 = Heard
  /\ o.op = "read" => o.pipe = 2
  /\ o.op = "close_write" /\ o.pipe = 1 => i >= Asked
  /\ o.op = "close_read" /\ o.pipe = 2 => i >= Heard

ChildActs(j) ==
  LET o == ChildText[j + 1] IN
  /\ o.op \in {"close_read", "close_write", "reply", "read"}
  /\ o.op = "read" <=> j + 1 = Asked
  /\ o.op = "read" => o.pipe = 1
  /\ o.op = "reply" <=> j + 1 = Answered
  /\ o.op = "reply" => o.pipe = 2
  /\ o.op = "close_read" /\ o.pipe = 1 => j >= Asked
  /\ o.op = "close_write" /\ o.pipe = 2 => j >= Answered

PairFacts ==
  /\ ParentText \in Seq(Ops) /\ ChildText \in Seq(Ops)
  /\ Asked \in Nat /\ Answered \in Nat /\ Heard \in Nat
  /\ 0 < Asked /\ Asked < Heard /\ Asked < Answered
  /\ Heard <= Len(ParentText) /\ Answered <= Len(ChildText)
  /\ \A i \in 0..Len(ParentText) - 1 : ParentActs(i)
  /\ \A j \in 0..Len(ChildText) - 1 : ChildActs(j)
  /\ Text(<<"failed">>) = <<>>

LEMMA q9Facts == prog = "q9" => PairFacts
<1> SUFFICES ASSUME prog = "q9" PROVE PairFacts
  OBVIOUS
<1>1. 1 \in Pipe /\ 2 \in Pipe
  BY DEF Pipe
<1>2. Asked = 3 /\ Answered = 4 /\ Heard = 4
  BY DEF Asked, Answered, Heard
<1>3. ParentText = <<Op("close_read", 1), Op("close_write", 2),
                     Write(1, Question), Op("read", 2)>>
  BY <1>1, CloseIs DEF ParentText, Text, q9, Question
<1>4. ChildText = <<Op("close_write", 1), Op("close_read", 2),
                    Op("read", 1), Op("reply", 2)>>
  <2>1. <<"child">> # <<"parent">>
    OBVIOUS
  <2>2. QED
    BY <1>1, <2>1, CloseIs DEF ChildText, Text, q9
<1>5. /\ Op("close_read", 1) \in Ops /\ Op("close_write", 2) \in Ops
      /\ Write(1, Question) \in Ops /\ Op("read", 2) \in Ops
      /\ Op("close_write", 1) \in Ops /\ Op("close_read", 2) \in Ops
      /\ Op("read", 1) \in Ops /\ Op("reply", 2) \in Ops
  BY <1>1, OpIs, WriteIs, MessagesAre DEF Calls
<1>6. /\ ParentText \in Seq(Ops) /\ Len(ParentText) = 4
      /\ ChildText \in Seq(Ops) /\ Len(ChildText) = 4
  BY <1>3, <1>4, <1>5
<1>7. \A i \in 0..3 : ParentActs(i)
  <2>1. ParentActs(0)
    BY <1>1, <1>2, <1>3, OpIs DEF ParentActs, Calls
  <2>2. ParentActs(1)
    BY <1>1, <1>2, <1>3, OpIs DEF ParentActs, Calls
  <2>3. ParentActs(2)
    BY <1>1, <1>2, <1>3, WriteIs, MessagesAre DEF ParentActs
  <2>4. ParentActs(3)
    BY <1>1, <1>2, <1>3, OpIs DEF ParentActs, Calls
  <2>5. \A i \in 0..3 : i = 0 \/ i = 1 \/ i = 2 \/ i = 3
    OBVIOUS
  <2>6. QED
    BY <2>1, <2>2, <2>3, <2>4, <2>5
<1>8. \A j \in 0..3 : ChildActs(j)
  <2>1. ChildActs(0)
    BY <1>1, <1>2, <1>4, OpIs DEF ChildActs, Calls
  <2>2. ChildActs(1)
    BY <1>1, <1>2, <1>4, OpIs DEF ChildActs, Calls
  <2>3. ChildActs(2)
    BY <1>1, <1>2, <1>4, OpIs DEF ChildActs, Calls
  <2>4. ChildActs(3)
    BY <1>1, <1>2, <1>4, OpIs DEF ChildActs, Calls
  <2>5. \A j \in 0..3 : j = 0 \/ j = 1 \/ j = 2 \/ j = 3
    OBVIOUS
  <2>6. QED
    BY <2>1, <2>2, <2>3, <2>4, <2>5
<1>9. Text(<<"failed">>) = <<>>
  <2>1. <<"failed">> # <<"parent">> /\ <<"failed">> # <<"child">>
    OBVIOUS
  <2>2. QED
    BY <2>1 DEF Text, q9
<1>10. QED
  BY <1>2, <1>6, <1>7, <1>8, <1>9 DEF PairFacts

LEMMA parent_child_pipeFacts == prog = "parent_child_pipe" => PairFacts
<1> SUFFICES ASSUME prog = "parent_child_pipe" PROVE PairFacts
  OBVIOUS
<1>1. 1 \in Pipe /\ 2 \in Pipe
  BY DEF Pipe
<1>2. Asked = 2 /\ Answered = 5 /\ Heard = 6
  BY DEF Asked, Answered, Heard
<1>3. ParentText = <<Op("close_read", 1), Write(1, Question), Op("close_write", 1),
                     Op("wait", 1), Op("close_write", 2), Op("read", 2),
                     Op("close_read", 2)>>
  BY <1>1, CloseIs DEF ParentText, Text, parent_child_pipe, Question
<1>4. ChildText = <<Op("close_write", 1), Op("read", 1), Op("close_read", 1),
                    Op("close_read", 2), Op("reply", 2), Op("close_write", 2)>>
  <2>1. <<"child">> # <<"parent">>
    OBVIOUS
  <2>2. QED
    BY <1>1, <2>1, CloseIs DEF ChildText, Text, parent_child_pipe
<1>5. /\ Op("close_read", 1) \in Ops /\ Write(1, Question) \in Ops
      /\ Op("close_write", 1) \in Ops /\ Op("wait", 1) \in Ops
      /\ Op("close_write", 2) \in Ops /\ Op("read", 2) \in Ops
      /\ Op("close_read", 2) \in Ops /\ Op("read", 1) \in Ops /\ Op("reply", 2) \in Ops
  BY <1>1, OpIs, WriteIs, MessagesAre DEF Calls
<1>6. /\ ParentText \in Seq(Ops) /\ Len(ParentText) = 7
      /\ ChildText \in Seq(Ops) /\ Len(ChildText) = 6
  BY <1>3, <1>4, <1>5
<1>7. \A i \in 0..6 : ParentActs(i)
  <2>1. ParentActs(0) /\ ParentActs(2)
    BY <1>1, <1>2, <1>3, OpIs DEF ParentActs, Calls
  <2>2. ParentActs(1)
    BY <1>1, <1>2, <1>3, WriteIs, MessagesAre DEF ParentActs
  <2>3. ParentActs(3) /\ ParentActs(4)
    BY <1>1, <1>2, <1>3, OpIs DEF ParentActs, Calls
  <2>4. ParentActs(5) /\ ParentActs(6)
    BY <1>1, <1>2, <1>3, OpIs DEF ParentActs, Calls
  <2>5. \A i \in 0..6 : \/ i = 0 \/ i = 1 \/ i = 2 \/ i = 3
                        \/ i = 4 \/ i = 5 \/ i = 6
    OBVIOUS
  <2>6. QED
    BY <2>1, <2>2, <2>3, <2>4, <2>5
<1>8. \A j \in 0..5 : ChildActs(j)
  <2>1. ChildActs(0) /\ ChildActs(1)
    BY <1>1, <1>2, <1>4, OpIs DEF ChildActs, Calls
  <2>2. ChildActs(2) /\ ChildActs(3)
    BY <1>1, <1>2, <1>4, OpIs DEF ChildActs, Calls
  <2>3. ChildActs(4) /\ ChildActs(5)
    BY <1>1, <1>2, <1>4, OpIs DEF ChildActs, Calls
  <2>4. \A j \in 0..5 : \/ j = 0 \/ j = 1 \/ j = 2 \/ j = 3 \/ j = 4 \/ j = 5
    OBVIOUS
  <2>5. QED
    BY <2>1, <2>2, <2>3, <2>4
<1>9. Text(<<"failed">>) = <<>>
  <2>1. <<"failed">> # <<"parent">> /\ <<"failed">> # <<"child">>
    OBVIOUS
  <2>2. QED
    BY <2>1 DEF Text, parent_child_pipe
<1>10. QED
  BY <1>2, <1>6, <1>7, <1>8, <1>9 DEF PairFacts

LEMMA PairsAre ==
  ASSUME prog \in PairPrograms
  PROVE  PairFacts
  BY q9Facts, parent_child_pipeFacts DEF PairPrograms

LEMMA TextTyped ==
  ASSUME prog \in Programs, NEW forked
  PROVE  Text(forked) \in Seq(Ops) /\ Remaining(forked) \in Seq(Ops)
<1>1. <<Op("fork", 1)>> \in Seq(Ops) /\ <<>> \in Seq(Ops)
  BY OpIs DEF Calls, Pipe
<1>2. CASE prog = "q8"
  <2>1. Text(forked) = q8(forked)
    BY <1>2 DEF Text
  <2>2. QED
    BY <1>1, <2>1, q8Texts, q8Others DEF Remaining
<1>3. CASE prog = "simple_pipe"
  <2>1. Text(forked) = simple_pipe
    BY <1>3 DEF Text
  <2>2. QED
    BY <1>1, <2>1, SimpleText DEF Remaining
<1>4. CASE prog \in PairPrograms
  <2>1. Text(forked) \in {ParentText, ChildText, <<>>}
    <3>1. CASE forked = <<"parent">>
      BY <3>1 DEF ParentText
    <3>2. CASE forked = <<"child">>
      BY <3>2 DEF ChildText
    <3>3. CASE forked # <<"parent">> /\ forked # <<"child">>
      BY <1>4, <3>3 DEF Text, q9, parent_child_pipe, PairPrograms
    <3>4. QED
      BY <3>1, <3>2, <3>3
  <2>2. QED
    BY <1>1, <1>4, <2>1, PairsAre DEF Remaining, PairFacts
<1>5. CASE prog \in SignalPrograms
  <2>1. Text(forked) = signalProgram
    BY <1>5 DEF Text, SignalPrograms
  <2>2. QED
    BY <1>1, <2>1, SignalText DEF Remaining
<1>6. QED
  BY <1>2, <1>3, <1>4, <1>5 DEF Programs, PairPrograms, SignalPrograms
-----------------------------------------------------------------------------
(* Lemmas about steps.                                                     *)
Same == UNCHANGED <<prog, forks, text, parent, holds, pipe, got>>

LEMMA StepsAre ==
  ASSUME Signals, prog \notin SignalPrograms, [Next]_vars
  PROVE  (\E p \in Proc : Step(p)) \/ Is(1, "sigaction") \/ Is(1, "loop") \/ Same
<1>1. CASE \E p \in Proc : Step(p)
  BY <1>1
<1>2. CASE sigaction \/ loop
  BY <1>2 DEF sigaction, loop
<1>3. CASE my_kill \/ Deliver
  BY <1>3 DEF my_kill, Deliver, Signals, SignalPrograms
<1>4. CASE handler \/ UNCHANGED vars
  BY <1>4 DEF handler, vars, files, Same
<1>5. QED
  BY <1>1, <1>2, <1>3, <1>4 DEF Next

(* The steps at each operation of a process that goes on.                  *)
LEMMA CloseStep ==
  ASSUME Typed, NEW p \in Proc, Step(p), Is(p, "close_read") \/ Is(p, "close_write")
  PROVE  /\ pipe' = pipe /\ got' = got
         /\ \E way \in {"r", "w"} :
              /\ way = "r" <=> Is(p, "close_read")
              /\ WentOn(p, holds[p] \ {<<way, At(p)>>})
<1>1. close(p) /\ text[p] # <<>>
  BY StepIsOp
<1>2. \A e \in Ends : holds[p] \ {e} \in SUBSET Ends
  BY DEF Typed
<1>3. /\ holds[p] \ {<<"r", At(p)>>} \in SUBSET Ends
      /\ holds[p] \ {<<"w", At(p)>>} \in SUBSET Ends
  BY DEF Typed
<1>4. ~(Is(p, "close_read") /\ Is(p, "close_write"))
  BY DEF Is
<1>5. CASE Is(p, "close_read")
  BY <1>1, <1>3, <1>4, <1>5, DoesIs DEF close
<1>6. CASE Is(p, "close_write")
  BY <1>1, <1>3, <1>4, <1>6, DoesIs DEF close
<1>7. QED
  BY <1>5, <1>6

LEMMA WriteStep ==
  ASSUME Typed, NEW p \in Proc, Step(p), Is(p, "write") \/ Is(p, "reply"),
         HeldByAny(<<"r", At(p)>>)
  PROVE  /\ got' = got /\ WentOn(p, holds[p])
         /\ pipe' = [pipe EXCEPT ![At(p)] =
                       Append(@, IF Is(p, "write") THEN Head(text[p]).msg
                                 ELSE got[p][Len(got[p])] \o <<"suffix">>)]
<1>1. write(p) /\ text[p] # <<>> /\ holds[p] \in SUBSET Ends
  BY StepIsOp DEF Typed
<1>2. QED
  BY <1>1, DoesIs DEF write

(* A process that ends in the middle of its text.                          *)
Killed(p) ==
  /\ prog' = prog /\ forks' = forks /\ parent' = parent
  /\ text' = [text EXCEPT ![p] = <<>>]
  /\ holds' = [holds EXCEPT ![p] = {}]

LEMMA KilledStep ==
  ASSUME Typed, NEW p \in Proc, Step(p), Is(p, "write") \/ Is(p, "reply"),
         ~HeldByAny(<<"r", At(p)>>)
  PROVE  got' = got /\ pipe' = pipe /\ Killed(p)
<1>1. write(p)
  BY StepIsOp
<1>2. QED
  BY <1>1 DEF write, Killed

LEMMA strcatStep ==
  ASSUME Typed, NEW p \in Proc, Step(p), Is(p, "strcat")
  PROVE  got' = got /\ pipe' = pipe /\ (WentOn(p, holds[p]) \/ Killed(p))
<1>1. strcat(p) /\ text[p] # <<>> /\ holds[p] \in SUBSET Ends
  BY StepIsOp DEF Typed
<1>2. QED
  BY <1>1, DoesIs DEF strcat, Killed

LEMMA ReadStep ==
  ASSUME Typed, NEW p \in Proc, Step(p), Is(p, "read")
  PROVE  /\ WentOn(p, holds[p])
         /\ \/ /\ pipe[At(p)] # <<>>
               /\ got' = [got EXCEPT ![p] = Append(@, Head(pipe[At(p)]))]
               /\ pipe' = [pipe EXCEPT ![At(p)] = Tail(@)]
            \/ /\ pipe[At(p)] = <<>> /\ ~HeldByAny(<<"w", At(p)>>)
               /\ got' = [got EXCEPT ![p] = Append(@, <<"nothing">>)]
               /\ pipe' = pipe
<1>1. read(p) /\ text[p] # <<>> /\ holds[p] \in SUBSET Ends
  BY StepIsOp DEF Typed
<1>2. WentOn(p, holds[p])
  BY <1>1, DoesIs DEF read
<1>3. QED
  BY <1>1, <1>2 DEF read

LEMMA WaitStep ==
  ASSUME Typed, NEW p \in Proc, Step(p), Is(p, "wait")
  PROVE  WentOn(p, holds[p]) /\ pipe' = pipe /\ got' = got
<1>1. wait(p) /\ text[p] # <<>> /\ holds[p] \in SUBSET Ends
  BY StepIsOp DEF Typed
<1>2. QED
  BY <1>1, DoesIs DEF wait

(* A fork gives the process, and a new one if it succeeds, what remains    *)
(* after it and the ends of the process; the new one is the first unused.  *)
Goes(p, forked, ends) ==
  /\ text'[p] = Remaining(forked)
  /\ holds'[p] = IF Remaining(forked) = <<>> THEN {} ELSE ends
  /\ forks'[p] = forked

LEMMA ForkStep ==
  ASSUME Typed, NEW p \in Proc, Step(p), Is(p, "fork")
  PROVE  /\ prog' = prog /\ pipe' = pipe /\ got' = got
         /\ \/ \E c \in Proc \ {1} :
                 /\ c # p => Goes(p, Forked(p, "parent"), holds[p])
                 /\ Goes(c, Forked(p, "child"), holds[p])
                 /\ forks[c] = <<>>
                 /\ \A d \in Proc \ {1} : forks[d] = <<>> => c <= d
                 /\ \A q \in Proc \ {p, c} :
                      text'[q] = text[q] /\ holds'[q] = holds[q] /\ forks'[q] = forks[q]
            \/ /\ Goes(p, Forked(p, "failed"), holds[p])
               /\ \A q \in Proc \ {p} :
                    text'[q] = text[q] /\ holds'[q] = holds[q] /\ forks'[q] = forks[q]
<1>1. fork(p)
  BY StepIsOp
<1>2. prog' = prog /\ pipe' = pipe /\ got' = got
  BY <1>1 DEF fork
<1>3. ASSUME NEW c \in Proc, forks[c] = <<>>, c # 1,
             \A d \in Proc \ {1} : forks[d] = <<>> => c <= d,
             forks' = [forks EXCEPT ![p] = Forked(p, "parent"),
                                    ![c] = Forked(p, "child")],
             text' = [text EXCEPT ![p] = Remaining(Forked(p, "parent")),
                                  ![c] = Remaining(Forked(p, "child"))],
             holds' = [holds EXCEPT
                        ![p] = Held(p, Remaining(Forked(p, "parent")), @),
                        ![c] = Held(c, Remaining(Forked(p, "child")), holds[p])]
      PROVE  /\ c # p => Goes(p, Forked(p, "parent"), holds[p])
             /\ Goes(c, Forked(p, "child"), holds[p])
             /\ \A q \in Proc \ {p, c} :
                  text'[q] = text[q] /\ holds'[q] = holds[q] /\ forks'[q] = forks[q]
  <2>1. c # p => Goes(p, Forked(p, "parent"), holds[p])
    BY <1>3 DEF Goes, Held, Typed
  <2>2. Goes(c, Forked(p, "child"), holds[p])
    BY <1>3 DEF Goes, Held, Typed
  <2>3. QED
    BY <1>3, <2>1, <2>2 DEF Typed
<1>4. ASSUME forks' = [forks EXCEPT ![p] = Forked(p, "failed")],
             text' = [text EXCEPT ![p] = Remaining(Forked(p, "failed"))],
             holds' = [holds EXCEPT ![p] = Held(p, Remaining(Forked(p, "failed")), @)]
      PROVE  /\ Goes(p, Forked(p, "failed"), holds[p])
             /\ \A q \in Proc \ {p} :
                  text'[q] = text[q] /\ holds'[q] = holds[q] /\ forks'[q] = forks[q]
  BY <1>4 DEF Goes, Held, Typed
<1> HIDE DEF Goes
<1>5. QED
  BY <1>1, <1>2, <1>3, <1>4 DEF fork
-----------------------------------------------------------------------------
(* The signal programs.                                                    *)
LEMMA SignalKept ==
  ASSUME Typed, SignalInv, [Next]_vars
  PROVE  SignalInv'
<1>1. ASSUME NEW p \in Proc
      PROVE  /\ ~Step(p)
             /\ text[p] # <<>> => \A n \in DOMAIN Tail(text[p]) :
                  Tail(text[p])[n].op \in {"sigaction", "loop"}
  <2>1. text[p] \in Seq(Ops)
    BY DEF Typed
  <2>2. text[p] # <<>> => Head(text[p]).op \in {"sigaction", "loop"}
    BY <2>1 DEF SignalInv
  <2>3. ~Step(p)
    BY <2>2, StepIsOp
  <2>4. ASSUME text[p] # <<>>, NEW n \in DOMAIN Tail(text[p])
        PROVE  Tail(text[p])[n].op \in {"sigaction", "loop"}
    <3>1. n + 1 \in DOMAIN text[p] /\ Tail(text[p])[n] = text[p][n + 1]
      BY <2>1, <2>4, HeadTailProperties
    <3>2. QED
      BY <3>1 DEF SignalInv
  <2>5. QED
    BY <2>3, <2>4
<1>2. ASSUME got' = got,
             \/ text' = text
             \/ text' = [text EXCEPT ![1] = <<>>]
             \/ text[1] # <<>> /\ text' = [text EXCEPT ![1] = Tail(@)]
      PROVE  SignalInv'
  <2> SUFFICES ASSUME NEW p \in Proc
               PROVE  /\ got'[p] = <<>>
                      /\ \A n \in DOMAIN text'[p] :
                           text'[p][n].op \in {"sigaction", "loop"}
    BY DEF SignalInv
  <2>1. got'[p] = <<>>
    BY <1>2 DEF SignalInv
  <2>2. \/ text'[p] = text[p] \/ text'[p] = <<>>
        \/ text[p] # <<>> /\ text'[p] = Tail(text[p])
    BY <1>2 DEF Typed
  <2>3. CASE text'[p] = text[p]
    BY <2>1, <2>3 DEF SignalInv
  <2>4. CASE text'[p] = <<>>
    BY <2>1, <2>4
  <2>5. CASE text[p] # <<>> /\ text'[p] = Tail(text[p])
    BY <1>1, <2>1, <2>5
  <2>6. QED
    BY <2>2, <2>3, <2>4, <2>5
<1>3. CASE sigaction \/ loop
  BY <1>2, <1>3 DEF sigaction, loop, Does, Is
<1>4. CASE my_kill \/ handler \/ UNCHANGED vars
  <2>1. got' = got /\ text' = text
    BY <1>4 DEF my_kill, handler, vars, files
  <2>2. QED
    BY <1>2, <2>1
<1>5. CASE Deliver
  <2>1. got' = got /\ (text' = text \/ text' = [text EXCEPT ![1] = <<>>])
    BY <1>5 DEF Deliver
  <2>2. QED
    BY <1>2, <2>1
<1>6. QED
  BY <1>1, <1>3, <1>4, <1>5 DEF Next
-----------------------------------------------------------------------------
(* simple_pipe.                                                            *)
LEMMA AloneWrites ==
  ASSUME Typed, NEW i \in 0..2, Alone(i), Step(1)
  PROVE  /\ Alone(i + 1)' /\ prog' = prog
         /\ \A p \in Proc \ {1} : text'[p] = text[p] /\ got'[p] = got[p]
<1>1. /\ text[1] = Left(simple_pipe, i) /\ i < Len(simple_pipe)
      /\ simple_pipe[i + 1] = Write(1, Three[i + 1]) /\ i \in 0..Len(simple_pipe)
      /\ 1 \in Pipe /\ 1 \in Proc /\ Three[i + 1] \in Msg
  <2>1. i = 0 \/ i = 1 \/ i = 2
    OBVIOUS
  <2>2. QED
    BY <2>1, SimpleText, MessagesAre DEF Alone, Proc, Pipe
<1>2. /\ Head(text[1]) = Write(1, Three[i + 1]) /\ text[1] # <<>>
      /\ Tail(text[1]) = Left(simple_pipe, i + 1)
  BY <1>1, SimpleText, LeftIs
<1>3. Is(1, "write") /\ At(1) = 1 /\ Head(text[1]).msg = Three[i + 1]
  BY <1>1, <1>2, WriteIs DEF Is, At
<1>4. HeldByAny(<<"r", 1>>) /\ holds[1] = Ends
  BY <1>1 DEF HeldByAny, Alone, Ends
<1>5. /\ got' = got /\ WentOn(1, holds[1])
      /\ pipe' = [pipe EXCEPT ![1] = Append(@, Three[i + 1])]
  BY <1>1, <1>3, <1>4, WriteStep
<1>6. /\ text'[1] = Left(simple_pipe, i + 1) /\ text'[1] # <<>> /\ holds'[1] = Ends
      /\ prog' = prog /\ \A p \in Proc \ {1} : text'[p] = text[p]
  <2>1. i + 1 \in 0..Len(simple_pipe) /\ i + 1 < Len(simple_pipe)
    BY SimpleText
  <2>2. Left(simple_pipe, i + 1) # <<>>
    BY <2>1, SimpleText, LeftIs
  <2>3. QED
    BY <1>1, <1>2, <1>4, <1>5, <2>2 DEF WentOn
<1>7. /\ Len(pipe'[1]) = Put(i + 1) - Taken(i + 1)
      /\ \A n \in DOMAIN pipe'[1] : pipe'[1][n] = Three[Taken(i + 1) + n]
  <2>1. pipe[1] \in Seq(Msg) /\ pipe'[1] = Append(pipe[1], Three[i + 1])
    BY <1>1, <1>5 DEF Typed
  <2>2. /\ Len(pipe[1]) = i
        /\ \A n \in DOMAIN pipe[1] : pipe[1][n] = Three[n]
    BY <2>1 DEF Alone, Put, Taken
  <2>3. /\ Put(i + 1) - Taken(i + 1) = i + 1 /\ \A n \in 1..i + 1 : Taken(i + 1) + n = n
    BY DEF Put, Taken
  <2>4. Len(pipe'[1]) = i + 1 /\ DOMAIN pipe'[1] = 1..i + 1
    BY <1>1, <2>1, <2>2
  <2>5. \A n \in 1..i + 1 : pipe'[1][n] = Three[n]
    BY <1>1, <2>1, <2>2
  <2>6. QED
    BY <2>3, <2>4, <2>5
<1>8. Len(got'[1]) = Taken(i + 1) /\ \A n \in DOMAIN got'[1] : got'[1][n] = Three[n]
  BY <1>5 DEF Alone, Taken
<1>9. QED
  BY <1>5, <1>6, <1>7, <1>8 DEF Alone, WentOn

LEMMA AloneReads ==
  ASSUME Typed, NEW i \in 3..5, Alone(i), Step(1)
  PROVE  /\ Alone(i + 1)' /\ prog' = prog
         /\ \A p \in Proc \ {1} : text'[p] = text[p] /\ got'[p] = got[p]
<1>1. /\ text[1] = Left(simple_pipe, i) /\ i < Len(simple_pipe)
      /\ simple_pipe[i + 1] = Op("read", 1) /\ i \in 0..Len(simple_pipe)
      /\ 1 \in Pipe /\ 1 \in Proc
  BY SimpleText DEF Alone, Proc, Pipe
<1>2. /\ Head(text[1]) = Op("read", 1) /\ text[1] # <<>>
      /\ Tail(text[1]) = Left(simple_pipe, i + 1)
  BY <1>1, SimpleText, LeftIs
<1>3. Is(1, "read") /\ At(1) = 1
  BY <1>1, <1>2, OpIs DEF Is, At, Calls
<1>4. /\ pipe[1] \in Seq(Msg) /\ Len(pipe[1]) = 6 - i
      /\ \A n \in DOMAIN pipe[1] : pipe[1][n] = Three[i - 3 + n]
  BY <1>1 DEF Alone, Put, Taken, Typed
<1>5. pipe[1] # <<>> /\ Head(pipe[1]) = Three[i - 2]
  BY <1>4
<1>6. /\ WentOn(1, holds[1]) /\ pipe' = [pipe EXCEPT ![1] = Tail(@)]
      /\ got' = [got EXCEPT ![1] = Append(@, Three[i - 2])]
  BY <1>1, <1>3, <1>5, ReadStep
<1>7. /\ text'[1] = Left(simple_pipe, i + 1)
      /\ i + 1 < 6 => text'[1] # <<>> /\ holds'[1] = Ends
      /\ prog' = prog /\ \A p \in Proc \ {1} : text'[p] = text[p] /\ got'[p] = got[p]
  <2>1. i + 1 < 6 => Left(simple_pipe, i + 1) # <<>>
    <3>1. i + 1 \in 0..Len(simple_pipe) /\ Len(simple_pipe) = 6
      BY SimpleText
    <3>2. QED
      BY <3>1, SimpleText, LeftIs
  <2>2. holds[1] = Ends
    BY DEF Alone
  <2>3. \A p \in Proc \ {1} : got'[p] = got[p]
    BY <1>6 DEF Typed
  <2>4. QED
    BY <1>1, <1>2, <1>6, <2>1, <2>2, <2>3 DEF WentOn
<1>8. /\ Len(pipe'[1]) = Put(i + 1) - Taken(i + 1)
      /\ \A n \in DOMAIN pipe'[1] : pipe'[1][n] = Three[Taken(i + 1) + n]
  <2>1. pipe'[1] = Tail(pipe[1])
    BY <1>1, <1>6 DEF Typed
  <2>2. Len(pipe'[1]) = 5 - i /\ DOMAIN pipe'[1] = 1..5 - i
    BY <1>4, <1>5, <2>1, HeadTailProperties
  <2>3. \A n \in 1..5 - i : pipe'[1][n] = pipe[1][n + 1] /\ n + 1 \in DOMAIN pipe[1]
    BY <1>4, <1>5, <2>1, <2>2, HeadTailProperties
  <2>4. \A n \in 1..5 - i : pipe'[1][n] = Three[i - 2 + n]
    BY <1>4, <2>3
  <2>5. Put(i + 1) - Taken(i + 1) = 5 - i /\ Taken(i + 1) = i - 2
    BY DEF Put, Taken
  <2>6. QED
    BY <2>2, <2>4, <2>5
<1>9. Len(got'[1]) = Taken(i + 1) /\ \A n \in DOMAIN got'[1] : got'[1][n] = Three[n]
  <2>1. got[1] \in Seq(Msg) /\ got'[1] = Append(got[1], Three[i - 2])
    BY <1>1, <1>6 DEF Typed
  <2>2. Len(got[1]) = i - 3 /\ \A n \in 1..i - 3 : got[1][n] = Three[n]
    BY <2>1 DEF Alone, Taken
  <2>3. Len(got'[1]) = i - 2 /\ DOMAIN got'[1] = 1..i - 2
    BY <2>1, <2>2
  <2>4. \A n \in 1..i - 2 : got'[1][n] = Three[n]
    BY <2>1, <2>2
  <2>5. Taken(i + 1) = i - 2
    BY DEF Taken
  <2>6. QED
    BY <2>3, <2>4, <2>5
<1>10. QED
  BY <1>6, <1>7, <1>8, <1>9 DEF Alone, WentOn

LEMMA SimpleAt ==
  ASSUME SimpleInv, NEW p \in Proc, text[p] # <<>>
  PROVE  Head(text[p]).op \in {"write", "read"}
<1>1. PICK i \in 0..6 : Alone(i)
  BY DEF SimpleInv
<1>2. p = 1 /\ text[1] = Left(simple_pipe, i)
  BY <1>1 DEF SimpleInv, Idle, Alone
<1>3. i \in 0..Len(simple_pipe) /\ Len(simple_pipe) = 6
  BY SimpleText
<1>4. i < 6 /\ Head(text[1]) = simple_pipe[i + 1]
  BY <1>2, <1>3, SimpleText, LeftIs
<1>5. i + 1 \in 1..3 \/ i + 1 \in 4..6
  BY <1>4
<1>6. \A n \in 1..3 : n = 1 \/ n = 2 \/ n = 3
  OBVIOUS
<1>7. \A n \in 1..3 : Write(1, Three[n]).op = "write"
  BY <1>6, MessagesAre, WriteIs DEF Pipe
<1>8. Op("read", 1).op = "read"
  BY OpIs DEF Pipe, Calls
<1>9. QED
  BY <1>2, <1>4, <1>5, <1>7, <1>8, SimpleText

LEMMA SimpleKept ==
  ASSUME Typed, SimpleInv, [Next]_vars, Signals, prog = "simple_pipe"
  PROVE  SimpleInv'
<1>1. PICK i \in 0..6 : Alone(i)
  BY DEF SimpleInv
<1>2. ASSUME NEW p \in Proc, Step(p)
      PROVE  p = 1 /\ i < 6
  <2>1. text[p] # <<>>
    BY <1>2, StepIsOp
  <2>2. p = 1
    BY <2>1 DEF SimpleInv, Idle
  <2>3. i \in 0..Len(simple_pipe) /\ Len(simple_pipe) = 6
    BY SimpleText
  <2>4. i < 6
    BY <1>1, <2>1, <2>2, <2>3, SimpleText, LeftIs DEF Alone
  <2>5. QED
    BY <2>2, <2>4
<1>3. ~Is(1, "sigaction") /\ ~Is(1, "loop")
  BY SimpleAt DEF Is, Proc
<1>4. CASE \E p \in Proc : Step(p)
  <2>1. Step(1) /\ i < 6
    BY <1>2, <1>4
  <2>2. CASE i < 3
    <3>1. i \in 0..2 /\ i + 1 \in 0..6
      BY <2>2
    <3>2. QED
      BY <1>1, <1>4, <2>1, <3>1, AloneWrites DEF SimpleInv, Idle
  <2>3. CASE i >= 3
    <3>1. i \in 3..5 /\ i + 1 \in 0..6
      BY <2>1, <2>3
    <3>2. QED
      BY <1>1, <1>4, <2>1, <3>1, AloneReads DEF SimpleInv, Idle
  <2>4. QED
    BY <2>2, <2>3
<1>5. CASE Same
  BY <1>1, <1>5 DEF Same, SimpleInv, Alone, Idle
<1>6. prog \notin SignalPrograms
  BY DEF SignalPrograms
<1>7. QED
  BY <1>3, <1>4, <1>5, <1>6, StepsAre
-----------------------------------------------------------------------------
(* q8.                                                                     *)
LEMMA q8Goes ==
  ASSUME Typed, prog = "q8", NEW p \in Proc, NEW forked, Goes(p, forked, Ends),
         got'[p] = <<>>
  PROVE  q8Stage(p)'
<1>1. Text(forked) = q8(forked)
  BY DEF Text
<1>2. CASE Remaining(forked) = <<Op("fork", 1)>>
  <2>1. <<Op("fork", 1)>> # <<>>
    OBVIOUS
  <2>2. Forking(p)'
    BY <1>2, <2>1 DEF Goes, Forking
  <2>3. QED
    BY <2>2 DEF q8Stage
<1>3. CASE Remaining(forked) = q8Reader
  <2>1. q8Reader # <<>> /\ Left(q8Reader, 0) = q8Reader
    BY q8Texts, Whole
  <2>2. Reading(p, 0)'
    BY <1>3, <2>1 DEF Goes, Reading
  <2>3. QED
    BY <2>2 DEF q8Stage
<1>4. CASE Remaining(forked) = q8Writer
  <2>1. Left(q8Writer, 0) = q8Writer
    BY q8Texts, Whole
  <2>2. Writing(p, 0)'
    BY <1>4, <2>1 DEF Goes, Writing
  <2>3. QED
    BY <2>2 DEF q8Stage
<1>5. CASE Remaining(forked) = <<>>
  BY <1>5 DEF Goes, q8Stage, Idle
<1>6. QED
  BY <1>1, <1>2, <1>3, <1>4, <1>5, q8Others DEF Remaining

LEMMA q8Reads ==
  ASSUME Typed, q8Inv, NEW p \in Proc, NEW i \in 0..1, Reading(p, i), Step(p)
  PROVE  /\ Reading(p, i + 1)' /\ q8Sent' /\ prog' = prog /\ forks' = forks
         /\ \A q \in Proc \ {p} : text'[q] = text[q] /\ got'[q] = got[q] /\ holds'[q] = holds[q]
<1>1. /\ i \in 0..Len(q8Reader) /\ i < Len(q8Reader) /\ text[p] = Left(q8Reader, i)
      /\ q8Reader[1] = Op("read", 1) /\ q8Reader[2] = Op("close_read", 1)
      /\ 1 \in Pipe
  BY q8Texts DEF Reading, Pipe
<1>2. /\ Head(text[p]) = q8Reader[i + 1] /\ Tail(text[p]) = Left(q8Reader, i + 1)
      /\ text[p] # <<>>
  <2>1. q8Reader \in Seq(Ops)
    BY q8Texts
  <2>2. QED
    BY <1>1, <2>1, LeftIs
<1>3. CASE i = 0
  <2>1. Is(p, "read") /\ At(p) = 1
    BY <1>1, <1>2, <1>3, OpIs DEF Is, At, Calls
  <2>2. HeldByAny(<<"w", 1>>)
    BY <1>1, <1>3 DEF Reading, HeldByAny, Ends
  <2>3. /\ WentOn(p, holds[p]) /\ pipe[1] # <<>>
        /\ got' = [got EXCEPT ![p] = Append(@, Head(pipe[1]))]
        /\ pipe' = [pipe EXCEPT ![1] = Tail(@)]
    BY <2>1, <2>2, ReadStep
  <2>4. pipe[1] \in Seq(Msg) /\ Head(pipe[1]) = TenBytes
    BY <1>1, <2>3 DEF Typed, q8Inv, q8Sent
  <2>5. got'[p] = <<TenBytes>>
    BY <1>3, <2>3, <2>4 DEF Reading, Typed
  <2>6. q8Sent'
    <3>1. pipe'[1] = Tail(pipe[1])
      BY <1>1, <2>3 DEF Typed
    <3>2. \A n \in DOMAIN Tail(pipe[1]) :
            n + 1 \in DOMAIN pipe[1] /\ Tail(pipe[1])[n] = pipe[1][n + 1]
      BY <2>3, <2>4, HeadTailProperties
    <3>3. QED
      BY <3>1, <3>2 DEF q8Inv, q8Sent
  <2>7. Reading(p, i + 1)'
    BY <1>2, <1>3, <2>3, <2>5 DEF Reading, WentOn
  <2>8. QED
    BY <2>3, <2>6, <2>7 DEF WentOn, Typed
<1>4. CASE i = 1
  <2>1. Is(p, "close_read")
    BY <1>1, <1>2, <1>4, OpIs DEF Is, Calls
  <2>2. pipe' = pipe /\ got' = got /\ \E ends : WentOn(p, ends)
    BY <2>1, CloseStep
  <2>3. QED
    BY <1>2, <1>4, <2>2 DEF WentOn, Reading, q8Inv, q8Sent
<1>5. QED
  BY <1>3, <1>4

LEMMA q8Writes ==
  ASSUME Typed, q8Inv, NEW p \in Proc, NEW i \in 0..2, Writing(p, i), Step(p)
  PROVE  /\ Writing(p, i + 1)' \/ Idle(p)'
         /\ q8Sent' /\ prog' = prog /\ forks' = forks
         /\ \A q \in Proc \ {p} : text'[q] = text[q] /\ got'[q] = got[q] /\ holds'[q] = holds[q]
<1>1. /\ i \in 0..Len(q8Writer) /\ i < Len(q8Writer) /\ text[p] = Left(q8Writer, i)
      /\ q8Writer[1] = Op("strcat", 1) /\ q8Writer[2] = Write(1, TenBytes)
      /\ q8Writer[3] = Op("close_write", 1)
      /\ 1 \in Pipe
  BY q8Texts DEF Writing, Pipe
<1>2. /\ Head(text[p]) = q8Writer[i + 1] /\ Tail(text[p]) = Left(q8Writer, i + 1)
      /\ text[p] # <<>>
  <2>1. q8Writer \in Seq(Ops)
    BY q8Texts
  <2>2. QED
    BY <1>1, <2>1, LeftIs
<1>3. ASSUME got' = got, pipe' = pipe, Killed(p)
      PROVE  /\ Idle(p)' /\ q8Sent' /\ prog' = prog /\ forks' = forks
             /\ \A q \in Proc \ {p} :
                  text'[q] = text[q] /\ got'[q] = got[q] /\ holds'[q] = holds[q]
  BY <1>3 DEF Killed, Typed, Idle, Writing, q8Sent, q8Inv
<1>4. CASE i = 0
  <2>1. Is(p, "strcat")
    BY <1>1, <1>2, <1>4, OpIs DEF Is, Calls
  <2>2. got' = got /\ pipe' = pipe /\ (WentOn(p, holds[p]) \/ Killed(p))
    BY <2>1, strcatStep
  <2>3. CASE WentOn(p, holds[p])
    BY <1>2, <1>4, <2>2, <2>3 DEF WentOn, Writing, q8Inv, q8Sent
  <2>4. QED
    BY <1>3, <2>2, <2>3
<1>5. CASE i = 1
  <2>1. Is(p, "write") /\ At(p) = 1 /\ Head(text[p]).msg = TenBytes
    BY <1>1, <1>2, <1>5, WriteIs, MessagesAre DEF Is, At
  <2>2. CASE HeldByAny(<<"r", 1>>)
    <3>1. /\ WentOn(p, holds[p]) /\ got' = got
          /\ pipe' = [pipe EXCEPT ![1] = Append(@, TenBytes)]
      BY <2>1, <2>2, WriteStep
    <3>2. q8Sent'
      <4>1. pipe[1] \in Seq(Msg) /\ pipe'[1] = Append(pipe[1], TenBytes)
        BY <1>1, <3>1 DEF Typed
      <4>2. QED
        BY <4>1 DEF q8Sent, q8Inv
    <3>3. Writing(p, i + 1)'
      BY <1>2, <1>5, <3>1 DEF Writing, WentOn
    <3>4. QED
      BY <3>1, <3>2, <3>3 DEF WentOn
  <2>3. CASE ~HeldByAny(<<"r", 1>>)
    <3>1. got' = got /\ pipe' = pipe /\ Killed(p)
      BY <2>1, <2>3, KilledStep
    <3>2. QED
      BY <1>3, <3>1
  <2>4. QED
    BY <2>2, <2>3
<1>6. CASE i = 2
  <2>1. Is(p, "close_write")
    BY <1>1, <1>2, <1>6, OpIs DEF Is, Calls
  <2>2. pipe' = pipe /\ got' = got /\ \E ends : WentOn(p, ends)
    BY <2>1, CloseStep
  <2>3. QED
    BY <1>2, <1>6, <2>2 DEF WentOn, Writing, q8Inv, q8Sent
<1>7. QED
  BY <1>4, <1>5, <1>6

LEMMA q8StageKept ==
  ASSUME NEW p \in Proc, q8Stage(p), q8Fresh(p),
         text'[p] = text[p], got'[p] = got[p], holds'[p] = holds[p], forks'[p] = forks[p]
  PROVE  q8Stage(p)' /\ q8Fresh(p)'
  BY DEF q8Stage, q8Fresh, Idle, Forking, Reading, Writing

LEMMA q8Forks ==
  ASSUME Typed, q8Inv, prog = "q8", NEW p \in Proc, Forking(p), Step(p)
  PROVE  q8Inv'
<1>1. Is(p, "fork") /\ holds[p] = Ends /\ got[p] = <<>> /\ forks[p] \in Seq(ForkResults)
  BY OpIs DEF Forking, Is, Typed, Calls, Pipe
<1>2. prog' = prog /\ pipe' = pipe /\ got' = got
  BY <1>1, ForkStep
<1>3. \A with \in ForkResults : Forked(p, with) # <<>>
  BY <1>1 DEF Forked
<1>4. ASSUME NEW q \in Proc, NEW with \in ForkResults, Goes(q, Forked(p, with), Ends),
             got[q] = <<>>
      PROVE  q8Stage(q)' /\ q8Fresh(q)'
  <2>1. q8Stage(q)'
    BY <1>2, <1>4, q8Goes
  <2>2. forks'[q] # <<>>
    BY <1>3, <1>4 DEF Goes
  <2>3. QED
    BY <2>1, <2>2 DEF q8Fresh
<1>5. ASSUME NEW q \in Proc, text'[q] = text[q], holds'[q] = holds[q], forks'[q] = forks[q]
      PROVE  q8Stage(q)' /\ q8Fresh(q)'
  BY <1>2, <1>5, q8StageKept DEF q8Inv
<1>6. CASE /\ Goes(p, Forked(p, "failed"), holds[p])
           /\ \A q \in Proc \ {p} :
                text'[q] = text[q] /\ holds'[q] = holds[q] /\ forks'[q] = forks[q]
  <2>1. "failed" \in ForkResults
    BY DEF ForkResults
  <2>2. q8Stage(p)' /\ q8Fresh(p)'
    BY <1>1, <1>4, <1>6, <2>1
  <2>3. \A q \in Proc \ {p} : q8Stage(q)' /\ q8Fresh(q)'
    BY <1>5, <1>6
  <2>4. QED
    BY <1>2, <2>2, <2>3 DEF q8Inv, q8Sent
<1>7. ASSUME NEW c \in Proc \ {1},
             c # p => Goes(p, Forked(p, "parent"), holds[p]),
             Goes(c, Forked(p, "child"), holds[p]),
             forks[c] = <<>>,
             \A q \in Proc \ {p, c} :
               text'[q] = text[q] /\ holds'[q] = holds[q] /\ forks'[q] = forks[q]
      PROVE  q8Inv'
  <2>1. "parent" \in ForkResults /\ "child" \in ForkResults
    BY DEF ForkResults
  <2>2. got[c] = <<>>
    BY <1>7 DEF q8Inv, q8Fresh, Idle, Forking
  <2>3. q8Stage(c)' /\ q8Fresh(c)'
    BY <1>1, <1>4, <1>7, <2>1, <2>2
  <2>4. c # p => q8Stage(p)' /\ q8Fresh(p)'
    BY <1>1, <1>4, <1>7, <2>1
  <2>5. \A q \in Proc \ {p, c} : q8Stage(q)' /\ q8Fresh(q)'
    BY <1>5, <1>7
  <2>6. QED
    BY <1>2, <2>3, <2>4, <2>5 DEF q8Inv, q8Sent
<1>8. QED
  BY <1>1, <1>6, <1>7, ForkStep

LEMMA q8Busy ==
  ASSUME q8Inv, NEW p \in Proc, text[p] # <<>>
  PROVE  \/ Forking(p)
         \/ \E i \in 0..1 : Reading(p, i)
         \/ \E i \in 0..2 : Writing(p, i)
<1>1. Left(q8Reader, 2) = <<>> /\ Left(q8Writer, 3) = <<>>
  <2>1. /\ 2 \in 0..Len(q8Reader) /\ ~(2 < Len(q8Reader))
        /\ 3 \in 0..Len(q8Writer) /\ ~(3 < Len(q8Writer))
    BY q8Texts
  <2>2. QED
    BY <2>1, q8Texts, LeftIs
<1>2. /\ \A i \in 0..2 : i \in 0..1 \/ i = 2
      /\ \A i \in 0..3 : i \in 0..2 \/ i = 3
  OBVIOUS
<1>3. ~Reading(p, 2) /\ ~Writing(p, 3) /\ ~Idle(p)
  BY <1>1 DEF Reading, Writing, Idle
<1>4. QED
  BY <1>2, <1>3 DEF q8Inv, q8Stage

LEMMA q8At ==
  ASSUME q8Inv, NEW p \in Proc, text[p] # <<>>
  PROVE  Head(text[p]).op \in {"fork", "read", "write", "close_read", "close_write", "strcat"}
<1>1. ASSUME NEW i \in 0..1
      PROVE  Head(Left(q8Reader, i)) \in {Op("read", 1), Op("close_read", 1)}
  <2>1. i \in 0..Len(q8Reader) /\ i < Len(q8Reader) /\ (i = 0 \/ i = 1)
    BY q8Texts
  <2>2. Head(Left(q8Reader, i)) = q8Reader[i + 1]
    BY <2>1, q8Texts, LeftIs
  <2>3. QED
    BY <2>1, <2>2, q8Texts
<1>2. ASSUME NEW i \in 0..2
      PROVE  Head(Left(q8Writer, i)) \in
               {Op("strcat", 1), Write(1, TenBytes), Op("close_write", 1)}
  <2>1. i \in 0..Len(q8Writer) /\ i < Len(q8Writer) /\ (i = 0 \/ i = 1 \/ i = 2)
    BY q8Texts
  <2>2. Head(Left(q8Writer, i)) = q8Writer[i + 1]
    BY <2>1, q8Texts, LeftIs
  <2>3. QED
    BY <2>1, <2>2, q8Texts
<1>3. \A name \in Calls : Op(name, 1).op = name
  BY OpIs DEF Pipe
<1>4. Write(1, TenBytes).op = "write"
  BY WriteIs, MessagesAre DEF Pipe
<1>5. Head(<<Op("fork", 1)>>) = Op("fork", 1)
  OBVIOUS
<1>6. QED
  BY <1>1, <1>2, <1>3, <1>4, <1>5, q8Busy DEF Forking, Reading, Writing, Calls

LEMMA q8Kept ==
  ASSUME Typed, q8Inv, [Next]_vars, Signals, prog = "q8"
  PROVE  q8Inv'
<1>1. ASSUME NEW p \in Proc, text[p] # <<>>
      PROVE  \/ Forking(p)
             \/ \E i \in 0..1 : Reading(p, i)
             \/ \E i \in 0..2 : Writing(p, i)
  BY <1>1, q8Busy
<1>2. ASSUME NEW p \in Proc, Step(p)
      PROVE  q8Inv'
  <2>1. text[p] # <<>>
    BY <1>2, StepIsOp
  <2>2. CASE Forking(p)
    BY <1>2, <2>2, q8Forks
  <2>3. ASSUME ~Forking(p), forks' = forks, q8Sent', q8Stage(p)',
               \A q \in Proc \ {p} : text'[q] = text[q] /\ got'[q] = got[q] /\ holds'[q] = holds[q]
        PROVE  q8Inv'
    <3>1. q8Fresh(p)'
      BY <2>1, <2>3 DEF q8Inv, q8Fresh, Idle
    <3>2. \A q \in Proc \ {p} : q8Stage(q)' /\ q8Fresh(q)'
      BY <2>3, q8StageKept DEF q8Inv
    <3>3. QED
      BY <2>3, <3>1, <3>2 DEF q8Inv
  <2>4. ASSUME NEW i \in 0..1, Reading(p, i), ~Forking(p)
        PROVE  q8Inv'
    <3>1. i + 1 \in 0..2
      OBVIOUS
    <3>2. /\ q8Stage(p)' /\ q8Sent' /\ forks' = forks
          /\ \A q \in Proc \ {p} : text'[q] = text[q] /\ got'[q] = got[q] /\ holds'[q] = holds[q]
      BY <1>2, <2>4, <3>1, q8Reads DEF q8Stage
    <3>3. QED
      BY <2>3, <2>4, <3>2
  <2>5. ASSUME NEW i \in 0..2, Writing(p, i), ~Forking(p)
        PROVE  q8Inv'
    <3>1. i + 1 \in 0..3
      OBVIOUS
    <3>2. /\ q8Stage(p)' /\ q8Sent' /\ forks' = forks
          /\ \A q \in Proc \ {p} : text'[q] = text[q] /\ got'[q] = got[q] /\ holds'[q] = holds[q]
      BY <1>2, <2>5, <3>1, q8Writes DEF q8Stage
    <3>3. QED
      BY <2>3, <2>5, <3>2
  <2>6. QED
    BY <1>1, <2>1, <2>2, <2>4, <2>5
<1>3. ~Is(1, "sigaction") /\ ~Is(1, "loop")
  BY q8At DEF Is, Proc
<1>4. CASE Same
  <2>1. \A p \in Proc : q8Stage(p)' /\ q8Fresh(p)'
    BY <1>4, q8StageKept DEF Same, q8Inv
  <2>2. QED
    BY <1>4, <2>1 DEF Same, q8Inv, q8Sent
<1>5. prog \notin SignalPrograms
  BY DEF SignalPrograms
<1>6. QED
  BY <1>2, <1>3, <1>4, <1>5, StepsAre
-----------------------------------------------------------------------------
(* q9 and parent_child_pipe.                                               *)
LEMMA PairConstants ==
  ASSUME prog' = prog
  PROVE  /\ ParentText' = ParentText /\ ChildText' = ChildText
         /\ Asked' = Asked /\ Answered' = Answered /\ Heard' = Heard
  BY DEF ParentText, ChildText, Text, Asked, Answered, Heard

(* The parent does its i-th operation.                                     *)
LEMMA ParentSteps ==
  ASSUME Typed, PairFacts, NEW i \in 0..Len(ParentText), NEW j \in 0..Len(ChildText),
         Paired(i, j), Step(1)
  PROVE  /\ i + 1 \in 0..Len(ParentText) /\ Paired(i + 1, j)'
         /\ prog' = prog /\ forks' = forks
         /\ \A q \in Proc \ {1} : text'[q] = text[q] /\ got'[q] = got[q]
<1> DEFINE o == ParentText[i + 1]
<1>1. 1 \in Proc /\ 2 \in Proc /\ 2 # 1 /\ 1 \in Pipe /\ 2 \in Pipe
  BY DEF Proc, Pipe
<1>2. /\ i + 1 \in 0..Len(ParentText) /\ i \in 0..Len(ParentText) - 1
      /\ text[1] # <<>> /\ Head(text[1]) = o
      /\ Tail(text[1]) = Left(ParentText, i + 1)
      /\ Left(ParentText, i + 1) = <<>> <=> i + 1 = Len(ParentText)
  <2>1. text[1] # <<>> /\ text[1] = Left(ParentText, i) /\ ParentText \in Seq(Ops)
    BY <1>1, StepIsOp DEF Paired, PairFacts
  <2>2. i < Len(ParentText) /\ i + 1 \in 0..Len(ParentText)
    BY <2>1, LeftIs
  <2>3. Left(ParentText, i + 1) # <<>> <=> i + 1 < Len(ParentText)
    BY <2>1, <2>2, LeftIs
  <2>4. Head(text[1]) = o /\ Tail(text[1]) = Left(ParentText, i + 1)
    BY <2>1, <2>2, LeftIs
  <2>5. QED
    BY <2>1, <2>2, <2>3, <2>4
<1>3. ParentActs(i)
  BY <1>2 DEF PairFacts
<1>4. At(1) = o.pipe /\ \A name : Is(1, name) <=> o.op = name
  BY <1>2 DEF At, Is
<1>5. /\ Asked \in Nat /\ Answered \in Nat /\ Heard \in Nat /\ Asked < Heard
      /\ Heard <= Len(ParentText) /\ 0 < Asked /\ Asked < Answered
  BY DEF PairFacts
<1> HIDE DEF o
(* An operation that is neither the write nor the read.                    *)
<1>6. ASSUME o.op # "write", o.op # "read", pipe' = pipe, got' = got,
             NEW ends, WentOn(1, ends),
             i < Asked => <<"w", 1>> \in ends, i < Heard => <<"r", 2>> \in ends
      PROVE  Paired(i + 1, j)' /\ prog' = prog
  <2>1. i + 1 # Asked /\ i + 1 # Heard
    BY <1>3, <1>6 DEF ParentActs, o
  <2>2. /\ i + 1 >= Asked <=> i >= Asked
        /\ i + 1 >= Heard <=> i >= Heard
        /\ i + 1 < Asked <=> i < Asked
        /\ i + 1 < Heard <=> i < Heard
        /\ i < Heard => i + 1 # Len(ParentText)
    BY <1>2, <1>5, <2>1
  <2>3. i < Asked => i < Heard
    BY <1>2, <1>5
  <2>4. /\ text'[1] = Left(ParentText, i + 1) /\ text'[2] = text[2]
        /\ holds'[2] = holds[2] /\ prog' = prog
        /\ i < Heard => holds'[1] = ends
    BY <1>1, <1>2, <1>6, <2>2 DEF WentOn
  <2>5. QED
    BY <1>6, <2>2, <2>3, <2>4, PairConstants DEF Paired
<1>7. CASE o.op \in {"close_read", "close_write"}
  <2>1. PICK way \in {"r", "w"} :
          /\ way = "r" <=> o.op = "close_read"
          /\ WentOn(1, holds[1] \ {<<way, o.pipe>>})
          /\ pipe' = pipe /\ got' = got
    BY <1>1, <1>4, <1>7, CloseStep
  <2>2. i < Asked => <<way, o.pipe>> # <<"w", 1>>
    <3>1. ASSUME <<way, o.pipe>> = <<"w", 1>> PROVE i >= Asked
      BY <1>3, <1>7, <2>1, <3>1 DEF ParentActs, o
    <3>2. QED
      BY <1>2, <1>5, <3>1
  <2>3. i < Heard => <<way, o.pipe>> # <<"r", 2>>
    <3>1. ASSUME <<way, o.pipe>> = <<"r", 2>> PROVE i >= Heard
      BY <1>3, <1>7, <2>1, <3>1 DEF ParentActs, o
    <3>2. QED
      BY <1>2, <1>5, <3>1
  <2>4. /\ i < Asked => <<"w", 1>> \in holds[1] \ {<<way, o.pipe>>}
        /\ i < Heard => <<"r", 2>> \in holds[1] \ {<<way, o.pipe>>}
    BY <2>2, <2>3 DEF Paired
  <2>5. QED
    BY <1>2, <1>6, <1>7, <2>1, <2>4 DEF WentOn
<1>8. CASE o.op = "wait"
  <2>1. WentOn(1, holds[1]) /\ pipe' = pipe /\ got' = got
    BY <1>1, <1>4, <1>8, WaitStep
  <2>2. /\ i < Asked => <<"w", 1>> \in holds[1]
        /\ i < Heard => <<"r", 2>> \in holds[1]
    BY DEF Paired
  <2>3. QED
    BY <1>2, <1>6, <1>8, <2>1, <2>2 DEF WentOn
<1>9. CASE o.op = "write"
  <2>1. i + 1 = Asked /\ o.pipe = 1 /\ o.msg = Question
    BY <1>3, <1>9 DEF ParentActs, o
  <2>2. ~(j >= Asked) /\ i < Asked /\ i < Heard /\ i + 1 >= Asked /\ ~(i + 1 >= Heard)
        /\ i + 1 < Heard /\ ~(i >= Asked) /\ ~(i >= Heard) /\ ~(i + 1 < Asked)
        /\ j < Asked /\ i + 1 # Len(ParentText)
    BY <1>2, <1>5, <2>1 DEF Paired
  <2>3. HeldByAny(<<"r", 1>>)
    BY <1>1, <2>2 DEF Paired, HeldByAny
  <2>4. /\ got' = got /\ WentOn(1, holds[1])
        /\ pipe' = [pipe EXCEPT ![1] = Append(@, Question)]
    BY <1>1, <1>2, <1>4, <1>9, <2>1, <2>3, WriteStep
  <2>5. pipe'[1] = <<Question>> /\ pipe'[2] = pipe[2]
    BY <1>1, <2>2, <2>4 DEF Paired, Typed
  <2>6. /\ text'[1] = Left(ParentText, i + 1) /\ text'[2] = text[2]
        /\ holds'[2] = holds[2] /\ prog' = prog /\ holds'[1] = holds[1]
    BY <1>1, <1>2, <2>2, <2>4 DEF WentOn
  <2>7. Paired(i + 1, j)'
    BY <2>2, <2>4, <2>5, <2>6, PairConstants DEF Paired
  <2>8. QED
    BY <1>2, <2>4, <2>7 DEF WentOn
<1>10. CASE o.op = "read"
  <2>1. i + 1 = Heard /\ o.pipe = 2
    BY <1>3, <1>10 DEF ParentActs, o
  <2>2. /\ i < Heard /\ ~(i >= Heard) /\ i + 1 >= Heard /\ ~(i + 1 < Heard)
        /\ ~(i < Asked) /\ i >= Asked /\ i + 1 >= Asked /\ ~(i + 1 < Asked)
        /\ j < Answered <=> ~(j >= Answered)
    BY <1>2, <1>5, <2>1
  <2>3. pipe[2] = <<>> => HeldByAny(<<"w", 2>>)
    <3>1. CASE j < Answered
      BY <1>1, <3>1 DEF Paired, HeldByAny
    <3>2. CASE ~(j < Answered)
      <4>1. pipe[2] = <<Answer>>
        BY <2>2, <3>2 DEF Paired
      <4>2. QED
        BY <4>1
    <3>3. QED
      BY <3>1, <3>2
  <2>4. WentOn(1, holds[1]) /\ pipe[2] # <<>>
        /\ got' = [got EXCEPT ![1] = Append(@, Head(pipe[2]))]
        /\ pipe' = [pipe EXCEPT ![2] = Tail(@)]
    BY <1>1, <1>4, <1>10, <2>1, <2>3, ReadStep
  <2>5. j >= Answered /\ pipe[2] = <<Answer>> /\ got[1] = <<>>
    BY <2>2, <2>4 DEF Paired
  <2>6. got'[1] = <<Answer>> /\ pipe'[2] = <<>> /\ pipe'[1] = pipe[1]
        /\ \A q \in Proc \ {1} : got'[q] = got[q]
    BY <1>1, <2>4, <2>5 DEF Typed
  <2>7. /\ text'[1] = Left(ParentText, i + 1) /\ text'[2] = text[2]
        /\ holds'[2] = holds[2] /\ prog' = prog
    BY <1>1, <1>2, <2>4 DEF WentOn
  <2>8. Paired(i + 1, j)'
    BY <1>1, <2>2, <2>5, <2>6, <2>7, PairConstants DEF Paired
  <2>9. QED
    BY <1>2, <2>4, <2>6, <2>8 DEF WentOn
<1>11. QED
  BY <1>3, <1>7, <1>8, <1>9, <1>10 DEF ParentActs, o

(* The child does its j-th operation.                                      *)
LEMMA ChildSteps ==
  ASSUME Typed, PairFacts, NEW i \in 0..Len(ParentText), NEW j \in 0..Len(ChildText),
         Paired(i, j), Step(2)
  PROVE  /\ j + 1 \in 0..Len(ChildText) /\ Paired(i, j + 1)'
         /\ prog' = prog /\ forks' = forks
         /\ \A q \in Proc \ {2} : text'[q] = text[q] /\ got'[q] = got[q]
<1> DEFINE o == ChildText[j + 1]
<1>1. 1 \in Proc /\ 2 \in Proc /\ 2 # 1 /\ 1 \in Pipe /\ 2 \in Pipe
  BY DEF Proc, Pipe
<1>2. /\ j + 1 \in 0..Len(ChildText) /\ j \in 0..Len(ChildText) - 1
      /\ text[2] # <<>> /\ Head(text[2]) = o
      /\ Tail(text[2]) = Left(ChildText, j + 1)
      /\ Left(ChildText, j + 1) = <<>> <=> j + 1 = Len(ChildText)
  <2>1. text[2] # <<>> /\ text[2] = Left(ChildText, j) /\ ChildText \in Seq(Ops)
    BY <1>1, StepIsOp DEF Paired, PairFacts
  <2>2. j < Len(ChildText) /\ j + 1 \in 0..Len(ChildText)
    BY <2>1, LeftIs
  <2>3. Left(ChildText, j + 1) # <<>> <=> j + 1 < Len(ChildText)
    BY <2>1, <2>2, LeftIs
  <2>4. Head(text[2]) = o /\ Tail(text[2]) = Left(ChildText, j + 1)
    BY <2>1, <2>2, LeftIs
  <2>5. QED
    BY <2>1, <2>2, <2>3, <2>4
<1>3. ChildActs(j)
  BY <1>2 DEF PairFacts
<1>4. At(2) = o.pipe /\ \A name : Is(2, name) <=> o.op = name
  BY <1>2 DEF At, Is
<1>5. /\ Asked \in Nat /\ Answered \in Nat /\ Heard \in Nat /\ Asked < Heard
      /\ Answered <= Len(ChildText) /\ 0 < Asked /\ Asked < Answered
  BY DEF PairFacts
<1> HIDE DEF o
<1>6. CASE o.op \in {"close_read", "close_write"}
  <2>1. PICK way \in {"r", "w"} :
          /\ way = "r" <=> o.op = "close_read"
          /\ WentOn(2, holds[2] \ {<<way, o.pipe>>})
          /\ pipe' = pipe /\ got' = got
    BY <1>1, <1>4, <1>6, CloseStep
  <2>2. j < Asked => <<way, o.pipe>> # <<"r", 1>>
    <3>1. ASSUME <<way, o.pipe>> = <<"r", 1>> PROVE j >= Asked
      BY <1>3, <1>6, <2>1, <3>1 DEF ChildActs, o
    <3>2. QED
      BY <1>2, <1>5, <3>1
  <2>3. j < Answered => <<way, o.pipe>> # <<"w", 2>>
    <3>1. ASSUME <<way, o.pipe>> = <<"w", 2>> PROVE j >= Answered
      BY <1>3, <1>6, <2>1, <3>1 DEF ChildActs, o
    <3>2. QED
      BY <1>2, <1>5, <3>1
  <2>4. j + 1 # Asked /\ j + 1 # Answered
    BY <1>3, <1>6 DEF ChildActs, o
  <2>5. /\ j + 1 >= Asked <=> j >= Asked
        /\ j + 1 >= Answered <=> j >= Answered
        /\ j + 1 < Asked <=> j < Asked
        /\ j + 1 < Answered <=> j < Answered
        /\ j < Asked => j < Answered
        /\ j < Answered => j + 1 # Len(ChildText)
    BY <1>2, <1>5, <2>4
  <2>6. /\ text'[2] = Left(ChildText, j + 1) /\ text'[1] = text[1]
        /\ holds'[1] = holds[1] /\ prog' = prog
        /\ j < Answered => holds'[2] = holds[2] \ {<<way, o.pipe>>}
    BY <1>1, <1>2, <2>1, <2>5 DEF WentOn
  <2>7. /\ j < Asked => <<"r", 1>> \in holds'[2]
        /\ j < Answered => <<"w", 2>> \in holds'[2]
    BY <2>2, <2>3, <2>5, <2>6 DEF Paired
  <2>8. Paired(i, j + 1)'
    BY <2>1, <2>5, <2>6, <2>7, PairConstants DEF Paired
  <2>9. QED
    BY <1>2, <2>1, <2>8 DEF WentOn
<1>7. CASE o.op = "reply"
  <2>1. j + 1 = Answered /\ o.pipe = 2 /\ o.op # "write"
    BY <1>3, <1>7 DEF ChildActs, o
  <2>2. /\ j < Answered /\ ~(j >= Answered) /\ j + 1 >= Answered /\ ~(j + 1 < Answered)
        /\ j >= Asked /\ j + 1 >= Asked /\ ~(j < Asked) /\ ~(j + 1 < Asked)
    BY <1>2, <1>5, <2>1
  <2>3. i < Heard /\ ~(i >= Heard)
    BY <1>5, <2>2 DEF Paired
  <2>4. HeldByAny(<<"r", 2>>)
    BY <1>1, <2>3 DEF Paired, HeldByAny
  <2>5. got[2] = <<Question>> /\ pipe[2] = <<>>
    BY <2>2 DEF Paired
  <2>6. got[2][Len(got[2])] \o <<"suffix">> = Answer
    <3>1. got[2][Len(got[2])] = Question
      BY <2>5
    <3>2. Question \o <<"suffix">> = Answer
      BY Replied
    <3>3. QED
      BY <3>1, <3>2
  <2>7. /\ got' = got /\ WentOn(2, holds[2])
        /\ pipe' = [pipe EXCEPT ![2] = Append(@, Answer)]
    BY <1>1, <1>4, <1>7, <2>1, <2>4, <2>6, WriteStep
  <2>8. pipe'[2] = <<Answer>> /\ pipe'[1] = pipe[1]
    BY <1>1, <2>5, <2>7 DEF Typed
  <2>9. /\ text'[2] = Left(ChildText, j + 1) /\ text'[1] = text[1]
        /\ holds'[1] = holds[1] /\ prog' = prog
    BY <1>1, <1>2, <2>7 DEF WentOn
  <2>10. Paired(i, j + 1)'
    BY <2>2, <2>3, <2>7, <2>8, <2>9, PairConstants DEF Paired
  <2>11. QED
    BY <1>2, <2>7, <2>10 DEF WentOn
<1>8. CASE o.op = "read"
  <2>1. j + 1 = Asked /\ o.pipe = 1
    BY <1>3, <1>8 DEF ChildActs, o
  <2>2. /\ j < Asked /\ ~(j >= Asked) /\ j + 1 >= Asked /\ ~(j + 1 < Asked)
        /\ j < Answered /\ ~(j >= Answered) /\ j + 1 < Answered /\ ~(j + 1 >= Answered)
        /\ j + 1 # Len(ChildText)
        /\ i < Asked <=> ~(i >= Asked)
    BY <1>2, <1>5, <2>1
  <2>3. pipe[1] = <<>> => HeldByAny(<<"w", 1>>)
    <3>1. CASE i < Asked
      BY <1>1, <3>1 DEF Paired, HeldByAny
    <3>2. CASE ~(i < Asked)
      <4>1. pipe[1] = <<Question>> /\ <<Question>> # <<>>
        BY <2>2, <3>2 DEF Paired
      <4>2. QED
        BY <4>1
    <3>3. QED
      BY <3>1, <3>2
  <2>4. /\ WentOn(2, holds[2]) /\ pipe[1] # <<>>
        /\ got' = [got EXCEPT ![2] = Append(@, Head(pipe[1]))]
        /\ pipe' = [pipe EXCEPT ![1] = Tail(@)]
    BY <1>1, <1>4, <1>8, <2>1, <2>3, ReadStep
  <2>5. i >= Asked /\ pipe[1] = <<Question>> /\ got[2] = <<>>
    BY <2>2, <2>4 DEF Paired
  <2>6. got'[2] = <<Question>> /\ pipe'[1] = <<>> /\ pipe'[2] = pipe[2]
        /\ \A q \in Proc \ {2} : got'[q] = got[q]
    BY <1>1, <2>4, <2>5 DEF Typed
  <2>7. /\ text'[2] = Left(ChildText, j + 1) /\ text'[1] = text[1]
        /\ holds'[1] = holds[1] /\ prog' = prog /\ holds'[2] = holds[2]
    BY <1>1, <1>2, <2>2, <2>4 DEF WentOn
  <2>8. Paired(i, j + 1)'
    BY <1>1, <2>2, <2>5, <2>6, <2>7, PairConstants DEF Paired
  <2>9. QED
    BY <1>2, <2>4, <2>6, <2>8 DEF WentOn
<1>9. QED
  BY <1>3, <1>6, <1>7, <1>8 DEF ChildActs, o

(* The fork, and both processes at their beginning.                        *)
LEMMA PairForks ==
  ASSUME Typed, PairFacts, Unforked, prog \in PairPrograms, Step(1)
  PROVE  PairInv'
<1>1. /\ 1 \in Proc /\ 2 \in Proc /\ 3 \in Proc /\ 4 \in Proc
      /\ Proc = {1, 2, 3, 4} /\ 1 \in Pipe /\ 2 \in Pipe
  BY DEF Proc, Pipe
<1>2. Is(1, "fork") /\ holds[1] = Ends
  BY <1>1, OpIs DEF Unforked, Forking, Is, Calls
<1>3. prog' = prog /\ pipe' = pipe /\ got' = got
  BY <1>1, <1>2, ForkStep
<1>4. \A with : Forked(1, with) = <<with>>
  BY <1>1 DEF Unforked, Forked
<1>5. NForks = 1
  BY DEF NForks, PairPrograms
<1>6. \A with : Remaining(<<with>>) = Text(<<with>>)
  BY <1>5 DEF Remaining
<1>7. CASE /\ Goes(1, Forked(1, "failed"), holds[1])
           /\ \A q \in Proc \ {1} :
                text'[q] = text[q] /\ holds'[q] = holds[q] /\ forks'[q] = forks[q]
  <2>1. text'[1] = <<>>
    BY <1>4, <1>6, <1>7 DEF Goes, PairFacts
  <2>2. \A p \in Proc : Idle(p)'
    BY <1>1, <1>3, <1>7, <2>1 DEF Unforked, Forking, Idle
  <2>3. QED
    BY <2>2 DEF PairInv
<1>8. ASSUME NEW c \in Proc \ {1},
             c # 1 => Goes(1, Forked(1, "parent"), holds[1]),
             Goes(c, Forked(1, "child"), holds[1]),
             \A d \in Proc \ {1} : forks[d] = <<>> => c <= d,
             \A q \in Proc \ {1, c} :
               text'[q] = text[q] /\ holds'[q] = holds[q] /\ forks'[q] = forks[q]
      PROVE  PairInv'
  <2>1. c = 2
    BY <1>1, <1>8 DEF Unforked
  <2>2. ParentText # <<>> /\ ChildText # <<>>
    BY DEF PairFacts
  <2>3. /\ text'[1] = ParentText /\ holds'[1] = Ends /\ forks'[1] = <<"parent">>
        /\ text'[2] = ChildText /\ holds'[2] = Ends /\ forks'[2] = <<"child">>
    BY <1>2, <1>4, <1>6, <1>8, <2>1, <2>2 DEF Goes, ParentText, ChildText
  <2>4. /\ Left(ParentText, 0) = ParentText /\ Left(ChildText, 0) = ChildText
    BY Whole DEF PairFacts
  <2>5. Idle(3)' /\ Idle(4)'
    BY <1>1, <1>3, <1>8, <2>1 DEF Unforked, Idle
  <2>6. /\ got[1] = <<>> /\ got[2] = <<>> /\ pipe[1] = <<>> /\ pipe[2] = <<>>
    BY <1>1 DEF Unforked, Forking, Idle
  <2>7. /\ <<"w", 1>> \in Ends /\ <<"r", 2>> \in Ends
        /\ <<"r", 1>> \in Ends /\ <<"w", 2>> \in Ends
    BY <1>1 DEF Ends
  <2>8. ~(0 >= Asked) /\ ~(0 >= Answered) /\ ~(0 >= Heard)
    BY DEF PairFacts
  <2>9. Paired(0, 0)'
    BY <1>3, <2>3, <2>4, <2>6, <2>7, <2>8, PairConstants DEF Paired
  <2>10. 0 \in 0..Len(ParentText) /\ 0 \in 0..Len(ChildText)
    BY DEF PairFacts
  <2>11. Alike'
    BY <1>3, <2>3, <2>5, <2>9, <2>10, PairConstants DEF Alike
  <2>12. QED
    BY <2>11 DEF PairInv
<1>9. QED
  BY <1>1, <1>2, <1>7, <1>8, ForkStep

(* No process of a pair is at an operation of the signal programs, and one *)
(* that replies has read.                                                  *)
LEMMA PairAt ==
  ASSUME Typed, PairFacts, PairInv
  PROVE  /\ ~Is(1, "sigaction") /\ ~Is(1, "loop")
         /\ \A p \in Proc : Is(p, "reply") => got[p] # <<>>
<1>1. Proc = {1, 2, 3, 4} /\ 1 \in Pipe
  BY DEF Proc, Pipe
<1>2. CASE \A p \in Proc : Idle(p)
  BY <1>1, <1>2 DEF Idle, Is
<1>3. CASE Unforked
  <2>1. Head(text[1]).op = "fork"
    BY <1>1, <1>3, OpIs DEF Unforked, Forking, Calls
  <2>2. QED
    BY <1>1, <1>3, <2>1 DEF Unforked, Idle, Is
<1>4. CASE Alike
  <2>1. PICK i \in 0..Len(ParentText), j \in 0..Len(ChildText) : Paired(i, j)
    BY <1>4 DEF Alike
  <2>2. ParentText \in Seq(Ops) /\ ChildText \in Seq(Ops)
    BY DEF PairFacts
  <2>3. ASSUME text[1] # <<>>
        PROVE  Head(text[1]).op \in {"close_read", "close_write", "write", "read", "wait"}
    <3>1. i < Len(ParentText) /\ Head(text[1]) = ParentText[i + 1]
      BY <2>1, <2>2, <2>3, LeftIs DEF Paired
    <3>2. i \in 0..Len(ParentText) - 1
      BY <3>1
    <3>3. ParentActs(i)
      BY <3>2 DEF PairFacts
    <3>4. QED
      BY <3>1, <3>3 DEF ParentActs
  <2>4. ASSUME Is(2, "reply")
        PROVE  got[2] # <<>>
    <3>1. j < Len(ChildText) /\ Head(text[2]) = ChildText[j + 1]
      BY <2>1, <2>2, <2>4, LeftIs DEF Paired, Is
    <3>2. j \in 0..Len(ChildText) - 1
      BY <3>1
    <3>3. ChildActs(j)
      BY <3>2 DEF PairFacts
    <3>4. j + 1 = Answered
      BY <2>4, <3>1, <3>3 DEF ChildActs, Is
    <3>5. j >= Asked
      BY <3>4 DEF PairFacts
    <3>6. got[2] = <<Question>> /\ <<Question>> # <<>>
      BY <2>1, <3>5 DEF Paired
    <3>7. QED
      BY <3>6
  <2>5. text[3] = <<>> /\ text[4] = <<>>
    BY <1>4 DEF Alike, Idle
  <2>6. QED
    BY <1>1, <2>3, <2>4, <2>5 DEF Is
<1>5. QED
  BY <1>2, <1>3, <1>4 DEF PairInv

LEMMA PairKept ==
  ASSUME Typed, PairInv, [Next]_vars, Signals, prog \in PairPrograms
  PROVE  PairInv'
<1>1. PairFacts
  BY PairsAre
<1>2. Proc = {1, 2, 3, 4} /\ DOMAIN got = Proc
  BY DEF Proc, Typed
<1>3. ASSUME NEW p \in Proc, Step(p)
      PROVE  PairInv'
  <2>1. text[p] # <<>>
    BY <1>3, StepIsOp
  <2>2. CASE Unforked
    <3>1. p = 1
      BY <1>2, <2>1, <2>2 DEF Unforked, Idle
    <3>2. QED
      BY <1>1, <1>3, <2>2, <3>1, PairForks
  <2>3. CASE \A q \in Proc : Idle(q)
    BY <2>1, <2>3 DEF Idle
  <2>4. CASE Alike
    <3>1. PICK i \in 0..Len(ParentText), j \in 0..Len(ChildText) : Paired(i, j)
      BY <2>4 DEF Alike
    <3>2. p = 1 \/ p = 2
      BY <1>2, <2>1, <2>4 DEF Alike, Idle
    <3>3. ASSUME NEW a \in 0..Len(ParentText), NEW b \in 0..Len(ChildText), Paired(a, b)',
                 prog' = prog, forks' = forks,
                 \A q \in {3, 4} : text'[q] = text[q] /\ got'[q] = got[q]
          PROVE  PairInv'
      <4>1. Idle(3)' /\ Idle(4)'
        BY <2>4, <3>3 DEF Alike, Idle
      <4>2. a \in 0..Len(ParentText') /\ b \in 0..Len(ChildText')
        BY <3>3, PairConstants
      <4>3. \E x \in 0..Len(ParentText'), y \in 0..Len(ChildText') : Paired(x, y)'
        BY <3>3, <4>2
      <4>4. Alike'
        BY <2>4, <3>3, <4>1, <4>3 DEF Alike
      <4>5. QED
        BY <4>4 DEF PairInv
    <3>4. CASE p = 1
      <4>1. Step(1)
        BY <1>3, <3>4
      <4>2. QED
        BY <1>1, <1>2, <3>1, <3>3, <4>1, ParentSteps
    <3>5. CASE p = 2
      <4>1. Step(2)
        BY <1>3, <3>5
      <4>2. QED
        BY <1>1, <1>2, <3>1, <3>3, <4>1, ChildSteps
    <3>6. QED
      BY <3>2, <3>4, <3>5
  <2>5. QED
    BY <2>2, <2>3, <2>4 DEF PairInv
<1>4. CASE Same
  <2>1. \A p \in Proc : Idle(p)' <=> Idle(p)
    BY <1>4 DEF Same, Idle
  <2>2. Forking(1)' <=> Forking(1)
    BY <1>4 DEF Same, Forking
  <2>3. \A i \in Nat, j \in Nat : Paired(i, j) => Paired(i, j)'
    BY <1>4, PairConstants DEF Same, Paired
  <2>4. CASE Unforked
    BY <1>2, <1>4, <2>1, <2>2, <2>4 DEF Unforked, Same, PairInv
  <2>5. CASE Alike
    <3>1. PICK i \in 0..Len(ParentText), j \in 0..Len(ChildText) : Paired(i, j)
      BY <2>5 DEF Alike
    <3>2. Paired(i, j)' /\ ParentText' = ParentText /\ ChildText' = ChildText
      BY <1>4, <2>3, <3>1, PairConstants DEF Same
    <3>3. \E x \in 0..Len(ParentText'), y \in 0..Len(ChildText') : Paired(x, y)'
      BY <3>2
    <3>4. Alike'
      BY <1>2, <1>4, <2>1, <2>5, <3>3 DEF Alike, Same
    <3>5. QED
      BY <3>4 DEF PairInv
  <2>6. CASE \A p \in Proc : Idle(p)
    BY <2>1, <2>6 DEF PairInv
  <2>7. QED
    BY <2>4, <2>5, <2>6 DEF PairInv
<1>5. prog \notin SignalPrograms
  BY DEF SignalPrograms, PairPrograms
<1>6. QED
  BY <1>1, <1>3, <1>4, <1>5, StepsAre, PairAt
-----------------------------------------------------------------------------
(* All programs.                                                           *)
LEMMA RepliesAfterReading ==
  ASSUME LInv, NEW p \in Proc, Is(p, "reply")
  PROVE  got[p] # <<>>
<1>1. text[p] \in Seq(Ops) /\ text[p] # <<>> /\ Head(text[p]).op = "reply"
  BY DEF LInv, Typed, Is
<1>2. CASE prog \in SignalPrograms
  <2>1. Head(text[p]).op \in {"sigaction", "loop"}
    BY <1>1, <1>2 DEF LInv, SignalInv
  <2>2. QED
    BY <1>1, <2>1
<1>3. CASE prog = "simple_pipe"
  BY <1>1, <1>3, SimpleAt DEF LInv
<1>4. CASE prog = "q8"
  BY <1>1, <1>4, q8At DEF LInv
<1>5. CASE prog \in PairPrograms
  BY <1>5, PairsAre, PairAt DEF LInv
<1>6. QED
  BY <1>2, <1>3, <1>4, <1>5 DEF LInv, Typed, Programs, SignalPrograms, PairPrograms

LEMMA TypedKept ==
  ASSUME Typed, \A p \in Proc : Is(p, "reply") => got[p] # <<>>, [Next]_vars
  PROVE  Typed'
<1>1. \A forked : Remaining(forked) \in Seq(Ops)
  BY TextTyped DEF Typed
<1>2. <<>> \in Seq(Ops)
  OBVIOUS
<1>3. 1 \in Proc
  BY DEF Proc
<1>4. ASSUME NEW p \in Proc, Step(p)
      PROVE  Typed'
  <2>1. text[p] # <<>> /\ Head(text[p]) \in Ops
    BY <1>4, StepIsOp DEF Typed
  <2>2. At(p) \in Pipe /\ Head(text[p]).msg \in Msg
    BY <2>1 DEF At, Ops
  <2>3. ASSUME NEW ends, WentOn(p, ends), pipe' \in [Pipe -> Seq(Msg)],
               got' \in [Proc -> Seq(Msg)]
        PROVE  Typed'
    BY <2>3 DEF WentOn, Typed
  <2>4. CASE Is(p, "fork")
    <3>1. fork(p)
      BY <1>4, <2>4, StepIsOp
    <3>2. \A with \in ForkResults : Forked(p, with) \in Seq(ForkResults)
      BY DEF Forked, Typed
    <3>3. \A rest : \A q \in Proc, ends \in SUBSET Ends :
            Held(q, rest, ends) \in SUBSET Ends
      BY DEF Held
    <3>4. "parent" \in ForkResults /\ "child" \in ForkResults /\ "failed" \in ForkResults
      BY DEF ForkResults
    <3>5. pipe' = pipe /\ got' = got /\ prog' = prog
      BY <3>1 DEF fork
    <3>6. /\ Forked(p, "parent") \in Seq(ForkResults)
          /\ Forked(p, "child") \in Seq(ForkResults)
          /\ Forked(p, "failed") \in Seq(ForkResults)
      BY <3>2, <3>4
    <3>7. \A with : /\ Remaining(Forked(p, with)) \in Seq(Ops)
                    /\ \A q \in Proc :
                         Held(q, Remaining(Forked(p, with)), holds[p]) \in SUBSET Ends
      BY <1>1, <3>3 DEF Typed
    <3>8. ASSUME NEW S, NEW g \in [Proc -> S], NEW x \in S, NEW c \in Proc, NEW y \in S
          PROVE  /\ [g EXCEPT ![p] = x] \in [Proc -> S]
                 /\ [g EXCEPT ![p] = x, ![c] = y] \in [Proc -> S]
      OBVIOUS
    <3>9. CASE /\ forks' = [forks EXCEPT ![p] = Forked(p, "failed")]
               /\ text' = [text EXCEPT ![p] = Remaining(Forked(p, "failed"))]
               /\ holds' = [holds EXCEPT
                             ![p] = Held(p, Remaining(Forked(p, "failed")), holds[p])]
               /\ parent' = parent
      BY <3>5, <3>6, <3>7, <3>8, <3>9 DEF Typed
    <3>10. ASSUME NEW c \in Proc,
                  forks' = [forks EXCEPT ![p] = Forked(p, "parent"),
                                         ![c] = Forked(p, "child")],
                  text' = [text EXCEPT ![p] = Remaining(Forked(p, "parent")),
                                       ![c] = Remaining(Forked(p, "child"))],
                  holds' = [holds EXCEPT
                             ![p] = Held(p, Remaining(Forked(p, "parent")), holds[p]),
                             ![c] = Held(c, Remaining(Forked(p, "child")), holds[p])],
                  parent' = [parent EXCEPT ![c] = p]
           PROVE  Typed'
      <4>1. forks' \in [Proc -> Seq(ForkResults)]
        BY <3>6, <3>8, <3>10 DEF Typed
      <4>2. text' \in [Proc -> Seq(Ops)]
        BY <3>7, <3>8, <3>10 DEF Typed
      <4>3. holds' \in [Proc -> SUBSET Ends]
        <5>1. /\ Held(p, Remaining(Forked(p, "parent")), holds[p]) \in SUBSET Ends
              /\ Held(c, Remaining(Forked(p, "child")), holds[p]) \in SUBSET Ends
              /\ holds \in [Proc -> SUBSET Ends]
          BY <3>7 DEF Typed
        <5>2. QED
          BY <3>8, <3>10, <5>1
      <4>4. parent' \in [Proc -> 0..4]
        <5>1. p \in 0..4 /\ parent \in [Proc -> 0..4]
          BY DEF Typed, Proc
        <5>2. QED
          BY <3>10, <5>1
      <4>5. QED
        BY <3>5, <4>1, <4>2, <4>3, <4>4 DEF Typed
    <3>11. QED
      BY <3>1, <3>9, <3>10 DEF fork, Typed
  <2>5. CASE Is(p, "close_read") \/ Is(p, "close_write")
    <3>1. pipe' = pipe /\ got' = got /\ \E ends : WentOn(p, ends)
      BY <1>4, <2>5, CloseStep
    <3>2. QED
      BY <2>3, <3>1 DEF Typed
  <2>6. CASE Is(p, "write") \/ Is(p, "reply")
    <3>1. ASSUME HeldByAny(<<"r", At(p)>>)
          PROVE  Typed'
      <4>1. ASSUME ~Is(p, "write")
            PROVE  got[p][Len(got[p])] \o <<"suffix">> \in Msg
        <5>1. got[p] \in Seq(Msg) /\ got[p] # <<>>
          BY <2>6, <4>1 DEF Typed
        <5>2. got[p][Len(got[p])] \in Msg
          BY <5>1
        <5>3. QED
          BY <5>2, ReplyTyped
      <4>2. PICK m \in Msg : pipe' = [pipe EXCEPT ![At(p)] = Append(@, m)]
        BY <1>4, <2>2, <2>6, <3>1, <4>1, WriteStep
      <4>3. pipe' \in [Pipe -> Seq(Msg)]
        BY <2>2, <4>2 DEF Typed
      <4>4. WentOn(p, holds[p]) /\ got' = got
        BY <1>4, <2>6, <3>1, WriteStep
      <4>5. QED
        BY <2>3, <4>3, <4>4 DEF Typed
    <3>2. ASSUME ~HeldByAny(<<"r", At(p)>>)
          PROVE  Typed'
      <4>1. got' = got /\ pipe' = pipe /\ Killed(p)
        BY <1>4, <2>6, <3>2, KilledStep
      <4>2. QED
        BY <1>2, <4>1 DEF Killed, Typed
    <3>3. QED
      BY <3>1, <3>2
  <2>7. CASE Is(p, "read")
    <3>1. WentOn(p, holds[p])
      BY <1>4, <2>7, ReadStep
    <3>2. CASE /\ pipe[At(p)] # <<>>
               /\ got' = [got EXCEPT ![p] = Append(@, Head(pipe[At(p)]))]
               /\ pipe' = [pipe EXCEPT ![At(p)] = Tail(@)]
      <4>1. Head(pipe[At(p)]) \in Msg /\ Tail(pipe[At(p)]) \in Seq(Msg)
        BY <2>2, <3>2, HeadTailProperties DEF Typed
      <4>2. Append(got[p], Head(pipe[At(p)])) \in Seq(Msg)
        BY <4>1 DEF Typed
      <4>3. got' \in [Proc -> Seq(Msg)] /\ pipe' \in [Pipe -> Seq(Msg)]
        BY <2>2, <3>2, <4>1, <4>2 DEF Typed
      <4>4. QED
        BY <2>3, <3>1, <4>3
    <3>3. CASE got' = [got EXCEPT ![p] = Append(@, <<"nothing">>)] /\ pipe' = pipe
      <4>1. Append(got[p], <<"nothing">>) \in Seq(Msg)
        BY MessagesAre DEF Typed
      <4>2. got' \in [Proc -> Seq(Msg)]
        BY <3>3, <4>1 DEF Typed
      <4>3. QED
        BY <2>3, <3>1, <3>3, <4>2 DEF Typed
    <3>4. QED
      BY <1>4, <2>7, <3>2, <3>3, ReadStep
  <2>8. CASE Is(p, "wait")
    BY <1>4, <2>3, <2>8, WaitStep DEF Typed
  <2>9. CASE Is(p, "strcat")
    <3>1. got' = got /\ pipe' = pipe /\ (WentOn(p, holds[p]) \/ Killed(p))
      BY <1>4, <2>9, strcatStep
    <3>2. CASE WentOn(p, holds[p])
      BY <2>3, <3>1, <3>2 DEF Typed
    <3>3. CASE Killed(p)
      BY <1>2, <3>1, <3>3 DEF Killed, Typed
    <3>4. QED
      BY <3>1, <3>2, <3>3
  <2>10. QED
    <3>1. Head(text[p]).op \in {"fork", "close_read", "close_write", "write",
                                 "reply", "read", "wait", "strcat"}
      BY <1>4, StepIsOp
    <3>2. \A name : Is(p, name) <=> Head(text[p]).op = name
      BY <2>1 DEF Is
    <3>3. QED
      BY <2>4, <2>5, <2>6, <2>7, <2>8, <2>9, <3>1, <3>2
<1>5. CASE sigaction \/ loop
  <2>1. /\ text[1] # <<>> /\ Does(1, holds[1]) /\ pipe' = pipe /\ got' = got
        /\ holds[1] \in SUBSET Ends
    BY <1>3, <1>5 DEF sigaction, loop, Is, Typed
  <2>2. WentOn(1, holds[1])
    BY <1>3, <2>1, DoesIs
  <2>3. QED
    BY <2>1, <2>2 DEF WentOn, Typed
<1>6. CASE my_kill \/ handler \/ UNCHANGED vars
  <2>1. Same
    BY <1>6 DEF my_kill, handler, vars, files, Same
  <2>2. QED
    BY <2>1 DEF Same, Typed
<1>7. CASE Deliver
  <2>1. /\ prog' = prog /\ forks' = forks /\ parent' = parent /\ pipe' = pipe /\ got' = got
        /\ \/ text' = text /\ holds' = holds
           \/ /\ text' = [text EXCEPT ![1] = <<>>]
              /\ holds' = [holds EXCEPT ![1] = {}]
    BY <1>7 DEF Deliver
  <2>2. QED
    BY <1>2, <1>3, <2>1 DEF Typed
<1>8. QED
  BY <1>4, <1>5, <1>6, <1>7 DEF Next

LEMMA SignalsKept ==
  ASSUME Signals, [Next]_vars
  PROVE  Signals' /\ prog' = prog
<1>1. ASSUME NEW p \in Proc, Step(p)
      PROVE  pending' = pending /\ prog' = prog
  BY <1>1 DEF Step, fork, close, strcat, write, read, wait, Does, signals
<1>2. CASE sigaction \/ loop \/ handler \/ UNCHANGED vars
  BY <1>2 DEF sigaction, loop, handler, Does, signals, vars, Signals
<1>3. CASE my_kill \/ Deliver
  BY <1>3 DEF my_kill, Deliver, SignalPrograms, Signals
<1>4. QED
  BY <1>1, <1>2, <1>3 DEF Next, Signals

LEMMA InitLInv ==
  ASSUME Init
  PROVE  LInv
<1>1. Proc = {1, 2, 3, 4} /\ Pipe = {1, 2}
  BY DEF Proc, Pipe
<1>2. <<>> \in Seq(Ops) /\ <<>> \in Seq(Msg) /\ <<>> \in Seq(ForkResults)
  OBVIOUS
<1>3. Typed
  <2>1. Remaining(<<>>) \in Seq(Ops)
    BY TextTyped DEF Init
  <2>2. QED
    BY <1>1, <1>2, <2>1 DEF Init, Typed
<1>4. Signals
  BY DEF Init, Signals
<1>5. /\ text[1] = Remaining(<<>>) /\ \A p \in Proc \ {1} : Idle(p)
      /\ \A p \in Proc : got[p] = <<>> /\ forks[p] = <<>>
      /\ holds[1] = Ends /\ pipe[1] = <<>> /\ pipe[2] = <<>> /\ pipe = [k \in Pipe |-> <<>>]
  BY <1>1 DEF Init, Idle
<1>6. ASSUME NForks = 0
      PROVE  text[1] = Text(<<>>)
  BY <1>5, <1>6 DEF Remaining
<1>7. ASSUME NForks \in 1..2
      PROVE  Forking(1)
  BY <1>1, <1>5, <1>7 DEF Remaining, Forking
<1>8. prog \in SignalPrograms => SignalInv
  <2>1. SUFFICES ASSUME prog \in SignalPrograms PROVE SignalInv
    OBVIOUS
  <2>2. NForks = 0 /\ Text(<<>>) = signalProgram
    BY <2>1 DEF NForks, Text, SignalPrograms
  <2>3. QED
    BY <1>1, <1>5, <1>6, <2>2, SignalText DEF SignalInv, Idle
<1>9. prog = "simple_pipe" => SimpleInv
  <2>1. SUFFICES ASSUME prog = "simple_pipe" PROVE SimpleInv
    OBVIOUS
  <2>2. NForks = 0 /\ Text(<<>>) = simple_pipe
    BY <2>1 DEF NForks, Text
  <2>3. text[1] = Left(simple_pipe, 0)
    BY <1>6, <2>2, SimpleText, Whole
  <2>4. Alone(0)
    BY <1>1, <1>5, <2>3 DEF Alone, Put, Taken
  <2>5. QED
    BY <1>5, <2>4 DEF SimpleInv
<1>10. prog = "q8" => q8Inv
  <2>1. SUFFICES ASSUME prog = "q8" PROVE q8Inv
    OBVIOUS
  <2>2. NForks \in 1..2
    BY <2>1 DEF NForks
  <2>3. Forking(1)
    BY <1>7, <2>2
  <2>4. QED
    BY <1>1, <1>5, <2>3 DEF q8Inv, q8Sent, q8Stage, q8Fresh
<1>11. prog \in PairPrograms => PairInv
  <2>1. SUFFICES ASSUME prog \in PairPrograms PROVE PairInv
    OBVIOUS
  <2>2. NForks \in 1..2
    BY <2>1 DEF NForks, PairPrograms
  <2>3. Forking(1)
    BY <1>7, <2>2
  <2>4. forks = [p \in Proc |-> <<>>]
    BY DEF Init
  <2>5. Unforked
    BY <1>1, <1>5, <2>3, <2>4 DEF Unforked
  <2>6. QED
    BY <2>5 DEF PairInv
<1>12. QED
  BY <1>3, <1>4, <1>8, <1>9, <1>10, <1>11 DEF LInv

LEMMA LInvKept ==
  ASSUME LInv, [Next]_vars
  PROVE  LInv'
<1>1. Typed /\ Signals
  BY DEF LInv
<1>2. Typed'
  BY <1>1, RepliesAfterReading, TypedKept
<1>3. Signals' /\ prog' = prog
  BY <1>1, SignalsKept
<1>4. prog \in SignalPrograms => SignalInv'
  BY <1>1, SignalKept DEF LInv
<1>5. prog = "simple_pipe" => SimpleInv'
  BY <1>1, SimpleKept DEF LInv
<1>6. prog = "q8" => q8Inv'
  BY <1>1, q8Kept DEF LInv
<1>7. prog \in PairPrograms => PairInv'
  BY <1>1, PairKept DEF LInv
<1>8. QED
  BY <1>2, <1>3, <1>4, <1>5, <1>6, <1>7 DEF LInv

LEMMA ReadsAre ==
  ASSUME LInv
  PROVE  ReadsWhatWasSent
<1>1. Proc = {1, 2, 3, 4}
  BY DEF Proc
<1> SUFFICES ASSUME NEW p \in Proc, NEW n \in DOMAIN got[p]
             PROVE  got[p][n] = Expected(p)[n]
  BY DEF ReadsWhatWasSent
<1>2. got[p] # <<>>
  OBVIOUS
<1>3. CASE prog \in SignalPrograms
  BY <1>2, <1>3 DEF LInv, SignalInv
<1>4. CASE prog = "simple_pipe"
  <2>1. p = 1
    BY <1>2, <1>4 DEF LInv, SimpleInv, Idle
  <2>2. forks[p] # <<"parent">> /\ got[p][n] = Three[n]
    <3>1. PICK i \in 0..6 : Alone(i)
      BY <1>4 DEF LInv, SimpleInv
    <3>2. <<>> # <<"parent">>
      OBVIOUS
    <3>3. QED
      BY <2>1, <3>1, <3>2 DEF Alone
  <2>3. Expected(p) = Three
    BY <1>4, <2>2 DEF Expected, Three
  <2>4. QED
    BY <2>2, <2>3
<1>5. CASE prog = "q8"
  <2>1. Expected(p) = <<TenBytes>>
    BY <1>5 DEF Expected, TenBytes
  <2>2. got[p] = <<TenBytes>>
    BY <1>2, <1>5 DEF LInv, q8Inv, q8Stage, Idle, Forking, Reading, Writing
  <2>3. QED
    BY <2>1, <2>2
<1>6. CASE prog \in PairPrograms
  <2>1. Alike
    BY <1>1, <1>2, <1>6 DEF LInv, PairInv, Unforked, Forking, Idle
  <2>2. /\ p = 1 \/ p = 2
        /\ p = 1 => got[p] = <<Answer>> /\ forks[p] = <<"parent">>
        /\ p = 2 => got[p] = <<Question>> /\ forks[p] = <<"child">>
    BY <1>1, <1>2, <2>1 DEF Alike, Idle, Paired
  <2>3. CASE p = 1
    <3>1. Expected(p) = <<Answer>>
      BY <1>6, <2>2, <2>3 DEF Expected, Answer, PairPrograms
    <3>2. QED
      BY <2>2, <2>3, <3>1
  <2>4. CASE p = 2
    <3>1. <<"child">> # <<"parent">>
      OBVIOUS
    <3>2. Expected(p) = <<Question>>
      BY <1>6, <2>2, <2>4, <3>1 DEF Expected, Question, PairPrograms
    <3>3. QED
      BY <2>2, <2>4, <3>2
  <2>5. QED
    BY <2>2, <2>3, <2>4
<1>7. QED
  BY <1>3, <1>4, <1>5, <1>6 DEF LInv, Typed, Programs, SignalPrograms, PairPrograms

(* What a process reads is what it was meant to read, in order: q8's       *)
(* reader the word and as much of the suffix as ten bytes hold, if its     *)
(* writer comes to write; the child of q9 and parent_child_pipe the word   *)
(* and the parent the answer, simple_pipe its three messages; no process   *)
(* reads its own question, or an end of file.                              *)
THEOREM MessagesArrive == Spec => []ReadsWhatWasSent
<1>1. Init => LInv
  BY InitLInv
<1>2. LInv /\ [Next]_vars => LInv'
  BY LInvKept
<1>3. LInv => ReadsWhatWasSent
  BY ReadsAre
<1>4. QED
  BY <1>1, <1>2, <1>3, PTL DEF Spec

=============================================================================
