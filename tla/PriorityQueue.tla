--------------------------- MODULE PriorityQueue ----------------------------
(***************************************************************************)
(* What the process queue of firstlab promises: entries are in order of    *)
(* priority, those of one priority in order of arrival, the first entry    *)
(* stays for ever, and any other may leave.                                *)
(***************************************************************************)
EXTENDS Integers, SequencesExt

CONSTANT First

VARIABLE queue

Init == queue = <<First>>

(* The entries that e goes behind.                                         *)
Ahead(e) == {k \in DOMAIN queue : queue[k].priority <= e.priority}

Enter ==
  \E e \in ToSet(queue') \ ToSet(queue) :
    queue' = InsertAt(queue, Cardinality(Ahead(e)) + 1, e)

Leave == \E k \in 2..Len(queue) : queue' = RemoveAt(queue, k)

Spec == Init /\ [][Enter \/ Leave]_queue
=============================================================================
