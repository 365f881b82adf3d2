----------------------------- MODULE MCThreads ------------------------------
(***************************************************************************)
(* Both programs in one instance: threads.c, whose m is NOMUTEX, and       *)
(* threads.v1.c.                                                           *)
(***************************************************************************)
EXTENDS ThreadsMutex

EitherInit == Init /\ m \in {NOMUTEX, FREE}

EitherMain == Main /\ UNCHANGED m

EitherWorker(w) ==
  \/ m = NOMUTEX /\ worker(w) /\ UNCHANGED m
  \/ m # NOMUTEX /\ mworker(w)

EitherNext == EitherMain \/ \E w \in Worker : EitherWorker(w)

EitherSpec ==
  /\ EitherInit
  /\ [][EitherNext]_mvars
  /\ WF_mvars(EitherMain)
  /\ \A w \in Worker : WF_mvars(EitherWorker(w))
=============================================================================
