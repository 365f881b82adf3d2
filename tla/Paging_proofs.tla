--------------------------- MODULE Paging_proofs ---------------------------
(***************************************************************************)
(* Proofs about Paging, for any table size, number of processes and TLB    *)
(* size, and any names, offsets, access codes and pages callers use.       *)
(***************************************************************************)
EXTENDS Paging, TLAPS

(* A frame survives its way through a signed char.                         *)
LEMMA CharRoundTrip ==
  \A f \in Frame : uchar(schar(f)) = f
BY PagingAssumption DEF Frame, PAGES, uchar, schar

LEMMA ZeroesIsTable == zeroes \in [VPN -> pte]
<1>1. 0 \in Frame /\ schar(0) = 0
  BY PagingAssumption DEF Frame, PAGES, schar
<1>2. 0 \in {schar(f) : f \in Frame}
  BY <1>1
<1>3. QED
  BY <1>2 DEF zeroes, pte

(* What the other invariants need: a process without a name is one that    *)
(* was never allocated, and the MMU walks the boot table or a process's.   *)
NamedIsUsed ==
  \A i \in Proc : procs[i].procstate = "UNUSED" => ~Named(i)

MmuWalksATable ==
  ptbr = Boot \/ \E i \in Proc : Named(i) /\ ptbr = procs[i].pagetablepfn

(* The inductive invariant.                                                *)
IInv ==
  /\ TypeOK
  /\ FramesDisjoint
  /\ OneRunning
  /\ NamedIsUsed
  /\ MmuWalksATable

LEMMA InitIInv == Init => IInv
<1> SUFFICES ASSUME Init PROVE IInv
  OBVIOUS
<1>1. \A i \in Proc : ~Named(i) /\ procs[i].procstate = "UNUSED"
                      /\ procs[i].pagetablepfn = 0
  BY DEF Init, Named
<1>2. 0 \in Frame /\ 0 \in VPN /\ 0 \in Proc
  BY PagingAssumption DEF Frame, PAGES, VPN, Proc
<1>3. tlb \in [1..TLB_SIZE -> tlbe]
  <2>1. schar(0) = 0
    BY PagingAssumption DEF schar
  <2>2. 0 \in {schar(f) : f \in Frame}
    BY <1>2, <2>1
  <2>3. QED
    BY <1>2, <2>2 DEF Init, tlbe
<1>4. TypeOK
  BY <1>1, <1>2, <1>3, ZeroesIsTable DEF Init, TypeOK, Boot, Named
<1>5. QED
  BY <1>1, <1>4
     DEF Init, IInv, FramesDisjoint, OneRunning, NamedIsUsed, MmuWalksATable, Mapped

-----------------------------------------------------------------------------
(* The frame a call gets is in no one's hands.                             *)
LEMMA FreshFrame ==
  ASSUME IInv, NEW f \in Frame, f \notin pagebitmap
  PROVE  /\ \A i \in Proc : Named(i) => procs[i].pagetablepfn # f
         /\ \A i \in Proc, v \in VPN : Mapped(i, v) => FrameOf(i, v) # f
BY DEF IInv, FramesDisjoint

(* A step that leaves memory and the processes' names and tables alone.    *)
LEMMA SameTables ==
  ASSUME IInv, UNCHANGED <<pagebitmap, mem>>,
         \A i \in Proc : /\ procs'[i].procname = procs[i].procname
                         /\ procs'[i].pagetablepfn = procs[i].pagetablepfn
  PROVE  /\ FramesDisjoint'
         /\ \A i \in Proc : Named(i)' <=> Named(i)
         /\ \A i \in Proc : TableOf(i)' = TableOf(i)
BY DEF IInv, FramesDisjoint, Named, TableOf, Mapped, FrameOf

LEMMA SameOsIInv ==
  ASSUME IInv, UNCHANGED os, tlb' \in [1..TLB_SIZE -> tlbe],
         fate' \in {"running", "panic", "SIGSEGV"}
  PROVE  IInv'
<1>1. FramesDisjoint' /\ OneRunning' /\ NamedIsUsed' /\ MmuWalksATable'
  BY DEF os, IInv, FramesDisjoint, OneRunning, NamedIsUsed, MmuWalksATable, Named,
         Mapped, TableOf, FrameOf
<1>2. TypeOK'
  BY DEF os, IInv, TypeOK, Named, TableOf
<1>3. QED
  BY <1>1, <1>2 DEF IInv

LEMMA EndsIInv ==
  ASSUME IInv, Ends("panic") \/ Ends("SIGSEGV")
  PROVE  IInv'
BY SameOsIInv DEF Ends, IInv, TypeOK

LEMMA RefuseIInv ==
  ASSUME IInv, Refuse
  PROVE  IInv'
BY SameOsIInv DEF Refuse, vars, os, IInv, TypeOK

-----------------------------------------------------------------------------
(* allocate_proc gives the new process i an empty table in a fresh frame.  *)
LEMMA AllocateIInv ==
  ASSUME IInv, NEW n \in Names, NEW i \in Proc \ {0}, FreeSlot(i),
         NEW f \in Frame, pagealloc(f), Create(n, i, f)
  PROVE  IInv'
<1>1. /\ \A j \in Proc : Named(j) => procs[j].pagetablepfn # f
      /\ \A j \in Proc, v \in VPN : Mapped(j, v) => FrameOf(j, v) # f
  BY FreshFrame DEF pagealloc
<1>2. ~Named(i)
  BY DEF IInv, NamedIsUsed, FreeSlot
<1> USE DEF Create
<1>3. /\ procs'[i] = [procname |-> n, procstate |-> "READY", pagetablepfn |-> f]
      /\ \A j \in Proc \ {i} : procs'[j] = procs[j]
  BY DEF IInv, TypeOK
<1>4. mem'[f] = zeroes /\ \A g \in Frame \ {f} : mem'[g] = mem[g]
  BY DEF IInv, TypeOK
<1>5. \A j \in Proc \ {i} : Named(j)' <=> Named(j)
  BY <1>3 DEF Named
<1>6. Named(i)' /\ TableOf(i)' = zeroes
  BY <1>3, <1>4, PagingAssumption DEF Named, TableOf
<1>7. \A j \in Proc \ {i} : Named(j) => TableOf(j)' = TableOf(j)
  BY <1>1, <1>3, <1>4 DEF TableOf, IInv, TypeOK
<1>8. \A v \in VPN : ~Mapped(i, v)'
  BY <1>6 DEF Mapped, zeroes
<1>9. \A j \in Proc \ {i}, v \in VPN :
        /\ Mapped(j, v)' <=> Mapped(j, v)
        /\ Mapped(j, v) => FrameOf(j, v)' = FrameOf(j, v)
  BY <1>5, <1>7 DEF Mapped, FrameOf
<1>10. TypeOK'
  <2>1. \A j \in Proc : Named(j)' => TableOf(j)' \in [VPN -> pte]
    BY <1>5, <1>6, <1>7, ZeroesIsTable DEF IInv, TypeOK
  <2>2. mem' \in [Frame -> Pages \cup [VPN -> pte]]
    BY ZeroesIsTable DEF IInv, TypeOK
  <2>3. procs' \in [Proc -> [procname : Names \cup {NoName},
                            procstate : {"UNUSED", "RUNNING", "READY"},
                            pagetablepfn : Frame]]
    BY DEF IInv, TypeOK
  <2>4. QED
    BY <2>1, <2>2, <2>3 DEF IInv, TypeOK
<1>11. FramesDisjoint'
  <2>1. \A j \in Proc : Named(j)' => procs'[j].pagetablepfn \in pagebitmap'
    BY <1>3, <1>5 DEF IInv, FramesDisjoint
  <2>2. \A j, k \in Proc : Named(j)' /\ Named(k)' /\ j # k =>
          procs'[j].pagetablepfn # procs'[k].pagetablepfn
    BY <1>1, <1>3, <1>5 DEF IInv, FramesDisjoint
  <2>3. \A j \in Proc, v \in VPN : Mapped(j, v)' =>
          /\ FrameOf(j, v)' \in pagebitmap'
          /\ \A k \in Proc : Named(k)' => FrameOf(j, v)' # procs'[k].pagetablepfn
          /\ \A k \in Proc, w \in VPN :
               Mapped(k, w)' /\ FrameOf(j, v)' = FrameOf(k, w)' => j = k /\ v = w
    BY <1>1, <1>3, <1>5, <1>8, <1>9 DEF IInv, FramesDisjoint
  <2>4. QED
    BY <2>1, <2>2, <2>3 DEF FramesDisjoint
<1>12. OneRunning' /\ NamedIsUsed'
  BY <1>3, <1>5 DEF IInv, OneRunning, NamedIsUsed
<1>13. MmuWalksATable'
  BY <1>2, <1>3, <1>5 DEF IInv, MmuWalksATable
<1>14. QED
  BY <1>10, <1>11, <1>12, <1>13 DEF IInv

(* load_proc_page maps v of process i to a fresh frame and changes no      *)
(* other mapping.                                                          *)
LEMMA LoadMapping ==
  ASSUME IInv, NEW v \in VPN, NEW x \in Pages, NEW a \in Accesses,
         NEW i \in Proc, Named(i),
         NEW f \in Frame, f \notin pagebitmap, LoadInto(i, v, x, a, f)
  PROVE  /\ \A j \in Proc : Named(j)' <=> Named(j)
         /\ \A j \in Proc : Named(j) => TableOf(j)' \in [VPN -> pte]
         /\ Mapped(i, v)' /\ FrameOf(i, v)' = f
         /\ \A j \in Proc, w \in VPN : j # i \/ w # v =>
              /\ Mapped(j, w)' <=> Mapped(j, w)
              /\ Mapped(j, w) => FrameOf(j, w)' = FrameOf(j, w)
<1>1. procs[i].pagetablepfn # f /\ procs[i].pagetablepfn \in Frame
  BY FreshFrame DEF IInv, TypeOK
<1>2. /\ mem'[procs[i].pagetablepfn] =
           [TableOf(i) EXCEPT ![v] = Entry(schar(f), TRUE, a)]
      /\ \A g \in Frame : g # f /\ g # procs[i].pagetablepfn => mem'[g] = mem[g]
  BY <1>1 DEF LoadInto, IInv, TypeOK, TableOf
<1>3. \A j \in Proc \ {i} : Named(j) =>
        /\ procs[j].pagetablepfn \in Frame
        /\ procs[j].pagetablepfn # f
        /\ procs[j].pagetablepfn # procs[i].pagetablepfn
  BY FreshFrame DEF IInv, TypeOK, FramesDisjoint
<1>4. TableOf(i) \in [VPN -> pte] /\ TableOf(i)' = mem'[procs[i].pagetablepfn]
  BY DEF LoadInto, TableOf, IInv, TypeOK
<1>5. \A j \in Proc \ {i} : Named(j) => TableOf(j)' = TableOf(j)
  BY <1>2, <1>3 DEF LoadInto, TableOf
<1>6. \A j \in Proc : Named(j)' <=> Named(j)
  BY DEF LoadInto, Named
<1>7. /\ TableOf(i)'[v] = Entry(schar(f), TRUE, a)
      /\ \A w \in VPN \ {v} : TableOf(i)'[w] = TableOf(i)[w]
  BY <1>2, <1>4
<1>8. \A j \in Proc : Named(j) => TableOf(j)' \in [VPN -> pte]
  <2>1. Entry(schar(f), TRUE, a) \in pte
    BY PagingAssumption DEF Entry, pte
  <2>2. TableOf(i)' \in [VPN -> pte]
    <3>1. TableOf(i)' = [TableOf(i) EXCEPT ![v] = Entry(schar(f), TRUE, a)]
      BY <1>2, <1>4
    <3>2. QED
      BY <1>4, <2>1, <3>1
  <2>3. QED
    BY <1>5, <2>2 DEF IInv, TypeOK
<1>9. Mapped(i, v)' /\ FrameOf(i, v)' = f
  BY <1>6, <1>7, CharRoundTrip DEF Mapped, FrameOf, Entry
<1>10. ASSUME NEW w \in VPN, w # v
       PROVE  /\ Mapped(i, w)' <=> Mapped(i, w)
              /\ FrameOf(i, w)' = FrameOf(i, w)
  BY <1>6, <1>7, <1>10 DEF Mapped, FrameOf
<1>11. ASSUME NEW j \in Proc \ {i}, NEW w \in VPN
       PROVE  /\ Mapped(j, w)' <=> Mapped(j, w)
              /\ Mapped(j, w) => FrameOf(j, w)' = FrameOf(j, w)
  BY <1>5, <1>6 DEF Mapped, FrameOf
<1>12. QED
  BY <1>6, <1>8, <1>9, <1>10, <1>11

LEMMA LoadIInv ==
  ASSUME IInv, NEW v \in VPN, NEW x \in Pages, NEW a \in Accesses,
         NEW i \in Proc, Named(i),
         NEW f \in Frame, pagealloc(f), LoadInto(i, v, x, a, f)
  PROVE  IInv'
<1>1. /\ \A j \in Proc : Named(j) => procs[j].pagetablepfn # f
      /\ \A j \in Proc, w \in VPN : Mapped(j, w) => FrameOf(j, w) # f
      /\ f \notin pagebitmap
  BY FreshFrame DEF pagealloc
<1>2. /\ \A j \in Proc : Named(j)' <=> Named(j)
      /\ \A j \in Proc : Named(j) => TableOf(j)' \in [VPN -> pte]
  BY <1>1, LoadMapping
<1>3. /\ Mapped(i, v)' /\ FrameOf(i, v)' = f
      /\ \A j \in Proc, w \in VPN : j # i \/ w # v =>
           /\ Mapped(j, w)' <=> Mapped(j, w)
           /\ Mapped(j, w) => FrameOf(j, w)' = FrameOf(j, w)
  BY <1>1, LoadMapping
<1> USE DEF LoadInto, BitmapAfterLoad
<1>4. TypeOK'
  <2>1. Entry(schar(f), TRUE, a) \in pte
    BY PagingAssumption DEF Entry, pte
  <2>2. [TableOf(i) EXCEPT ![v] = Entry(schar(f), TRUE, a)] \in [VPN -> pte]
    BY <2>1 DEF IInv, TypeOK
  <2>3. mem' \in [Frame -> Pages \cup [VPN -> pte]]
    BY <2>2, <1>1 DEF IInv, TypeOK, TableOf
  <2>4. QED
    BY <1>2, <2>3 DEF IInv, TypeOK
<1>5. FramesDisjoint'
  <2>1. \A j \in Proc : Named(j)' => procs'[j].pagetablepfn \in pagebitmap'
    BY <1>2 DEF IInv, FramesDisjoint
  <2>2. \A j, k \in Proc : Named(j)' /\ Named(k)' /\ j # k =>
          procs'[j].pagetablepfn # procs'[k].pagetablepfn
    BY <1>2 DEF IInv, FramesDisjoint
  <2>3. \A j \in Proc, w \in VPN : Mapped(j, w)' =>
          /\ FrameOf(j, w)' \in pagebitmap'
          /\ \A k \in Proc : Named(k)' => FrameOf(j, w)' # procs'[k].pagetablepfn
    BY <1>1, <1>2, <1>3 DEF IInv, FramesDisjoint
  <2>4. ASSUME NEW j \in Proc, NEW w \in VPN, Mapped(j, w)',
               NEW k \in Proc, NEW u \in VPN, Mapped(k, u)',
               FrameOf(j, w)' = FrameOf(k, u)'
        PROVE  j = k /\ w = u
    BY <1>1, <1>3, <2>4 DEF IInv, FramesDisjoint
  <2>5. QED
    BY <2>1, <2>2, <2>3, <2>4 DEF FramesDisjoint
<1>6. OneRunning' /\ NamedIsUsed' /\ MmuWalksATable'
  BY <1>2 DEF IInv, OneRunning, NamedIsUsed, MmuWalksATable
<1>7. QED
  BY <1>4, <1>5, <1>6 DEF IInv

LEMMA DispatchIInv ==
  ASSUME IInv, NEW i \in Proc, Named(i), Dispatch(i)
  PROVE  IInv'
<1> USE DEF Dispatch
<1> DEFINE PCB == [procname : Names \cup {NoName},
                  procstate : {"UNUSED", "RUNNING", "READY"},
                  pagetablepfn : Frame]
           half == [procs EXCEPT ![running_proc].procstate = "READY"]
<1>0. half \in [Proc -> PCB]
  <2>1. procs \in [Proc -> PCB] /\ running_proc \in Proc
    BY DEF IInv, TypeOK
  <2>2. [procs[running_proc] EXCEPT !.procstate = "READY"] \in PCB
    BY <2>1
  <2> HIDE DEF PCB
  <2>3. QED
    BY <2>1, <2>2
<1>1. procs' \in [Proc -> [procname : Names \cup {NoName},
                         procstate : {"UNUSED", "RUNNING", "READY"},
                         pagetablepfn : Frame]]
  <2>1. procs' = [half EXCEPT ![i].procstate = "RUNNING"]
    BY DEF Switch
  <2>2. [half[i] EXCEPT !.procstate = "RUNNING"] \in PCB
    BY <1>0
  <2> HIDE DEF PCB, half
  <2>3. procs' \in [Proc -> PCB]
    BY <1>0, <2>1, <2>2
  <2>4. QED
    BY <2>3 DEF PCB
<1>2. \A j \in Proc : /\ procs'[j].procname = procs[j].procname
                      /\ procs'[j].pagetablepfn = procs[j].pagetablepfn
  BY DEF Switch, IInv, TypeOK
<1>3. /\ FramesDisjoint'
      /\ \A j \in Proc : Named(j)' <=> Named(j)
      /\ \A j \in Proc : TableOf(j)' = TableOf(j)
  BY <1>2, SameTables
<1>4. \A j \in Proc \ {i} : procs'[j].procstate # "RUNNING"
  <2> SUFFICES ASSUME NEW j \in Proc \ {i}, procs'[j].procstate = "RUNNING"
               PROVE  FALSE
    OBVIOUS
  <2>1. j # running_proc /\ procs[j].procstate = "RUNNING"
    BY DEF Switch, IInv, TypeOK
  <2>2. QED
    BY <2>1 DEF IInv, OneRunning
<1>5. \A j \in Proc : procs'[j].procstate = "UNUSED" => procs[j].procstate = "UNUSED"
  BY DEF Switch, IInv, TypeOK
<1>6. TypeOK'
  BY <1>1, <1>3 DEF IInv, TypeOK
<1>7. OneRunning'
  BY <1>2, <1>3, <1>4 DEF OneRunning
<1>8. NamedIsUsed' /\ MmuWalksATable'
  BY <1>2, <1>3, <1>5 DEF IInv, NamedIsUsed, MmuWalksATable
<1>9. QED
  BY <1>3, <1>6, <1>7, <1>8 DEF IInv

(* What the MMU walks is a page table, with entries a TLB entry can hold.  *)
LEMMA WalkedEntry ==
  ASSUME IInv, NEW v \in VPN
  PROVE  [valid |-> TRUE, vpn |-> v, pfn |-> Table[v].pfn] \in tlbe
<1>1. CASE ptbr = Boot
  <2>1. Table[v].pfn \in {1, 2, 3, 0}
    BY <1>1 DEF Table, BootTable, Entry, zeroes
  <2>2. 0 \in Frame /\ schar(0) = 0
    BY PagingAssumption DEF Frame, PAGES, schar
  <2>3. QED
    BY <2>1, <2>2 DEF tlbe
<1>2. CASE ptbr # Boot
  <2>1. PICK i \in Proc : Named(i) /\ ptbr = procs[i].pagetablepfn
    BY <1>2 DEF IInv, MmuWalksATable
  <2>2. Table \in [VPN -> pte]
    BY <1>2, <2>1 DEF IInv, TypeOK, Table, TableOf
  <2>3. QED
    BY <2>2 DEF tlbe, pte
<1>3. QED
  BY <1>1, <1>2

LEMMA TranslationIInv ==
  ASSUME IInv, NEW v \in VPN, NEW off, NEW a, NEW r, va2pa(v, off, a, r),
         UNCHANGED os, fate' \in {"running", "panic", "SIGSEGV"}
  PROVE  IInv'
<1>1. [valid |-> TRUE, vpn |-> v, pfn |-> Table[v].pfn] \in tlbe
  BY WalkedEntry
<1>2. CASE UNCHANGED tlb
  BY <1>2, SameOsIInv DEF IInv, TypeOK
<1>3. CASE tlb' = Fill(v, Table[v].pfn)
  <2>1. tlb' \in [1..TLB_SIZE -> tlbe]
    BY <1>1, <1>3 DEF Fill, IInv, TypeOK
  <2>2. QED
    BY <2>1, SameOsIInv
<1>4. QED
  BY <1>2, <1>3 DEF va2pa

LEMMA NextIInv == IInv /\ [Next]_vars => IInv'
<1> SUFFICES ASSUME IInv, [Next]_vars PROVE IInv'
  OBVIOUS
<1>1. ASSUME NEW n \in Names, allocate_proc(n) PROVE IInv'
  BY <1>1, AllocateIInv, RefuseIInv, EndsIInv DEF allocate_proc
<1>2. ASSUME NEW n \in Names, NEW v \in VPN, NEW x \in Pages, NEW a \in Accesses,
             load_proc_page(n, v, x, a)
      PROVE  IInv'
  <2>1. \A i \in Proc : Lookup(n, i) => Named(i)
    BY PagingAssumption DEF Lookup, Named
  <2>2. QED
    BY <1>2, <2>1, LoadIInv, RefuseIInv, EndsIInv
       DEF load_proc_page
<1>3. ASSUME NEW n \in Names, remove_proc(n) PROVE IInv'
  BY <1>3, RefuseIInv, EndsIInv DEF remove_proc
<1>4. ASSUME NEW n \in Names, dispatcher(n) PROVE IInv'
  <2>1. \A i \in Proc : Lookup(n, i) => Named(i)
    BY PagingAssumption DEF Lookup, Named
  <2>2. QED
    BY <1>4, <2>1, DispatchIInv, RefuseIInv DEF dispatcher
<1>5. ASSUME NEW v \in VPN, NEW o \in Offsets, NEW a \in Accesses,
             Translate(v, o, a)
      PROVE  IInv'
  BY <1>5, TranslationIInv DEF Translate, IInv, TypeOK
<1>6. ASSUME NEW v \in VPN, NEW o \in Offsets, NEW a \in Accesses,
             memaccess(v, o, a)
      PROVE  IInv'
  BY <1>6, TranslationIInv DEF memaccess, IInv, TypeOK
<1>7. CASE UNCHANGED vars
  BY <1>7, RefuseIInv DEF Refuse
<1>8. QED
  BY <1>1, <1>2, <1>3, <1>4, <1>5, <1>6, <1>7 DEF Next

LEMMA Inductive == Spec => []IInv
BY InitIInv, NextIInv, PTL DEF Spec

-----------------------------------------------------------------------------
(* Every variable keeps its type; a process's table frame holds a table.   *)
THEOREM TypeCorrect == Spec => []TypeOK
<1>1. IInv => TypeOK
  BY DEF IInv
<1>2. QED
  BY <1>1, Inductive, PTL

(* No frame has two uses, for any number of processes and any table size.  *)
THEOREM NoFrameShared == Spec => []FramesDisjoint
<1>1. IInv => FramesDisjoint
  BY DEF IInv
<1>2. QED
  BY <1>1, Inductive, PTL

(* At most one process runs, and the MMU uses its table.                   *)
THEOREM AtMostOneRuns == Spec => []OneRunning
<1>1. IInv => OneRunning
  BY DEF IInv
<1>2. QED
  BY <1>1, Inductive, PTL

-----------------------------------------------------------------------------
(* The TLB.  It changes only when a translation that misses fills it.      *)
LEMMA TlbStep ==
  ASSUME [Next]_vars
  PROVE  \/ UNCHANGED tlb
         \/ \E v \in VPN : /\ Miss(v) /\ Table[v].valid /\ Table[v].present
                           /\ tlb' = Fill(v, Table[v].pfn)
                           /\ UNCHANGED pagebitmap
<1>1. ASSUME NEW v \in VPN, NEW off, NEW a, NEW r, va2pa(v, off, a, r), UNCHANGED os
      PROVE  \/ UNCHANGED tlb
             \/ /\ Miss(v) /\ Table[v].valid /\ Table[v].present
                /\ tlb' = Fill(v, Table[v].pfn)
                /\ UNCHANGED pagebitmap
  BY <1>1 DEF va2pa, os
<1>2. ASSUME NEW v \in VPN, NEW o \in Offsets, NEW a \in Accesses,
             Translate(v, o, a) \/ memaccess(v, o, a)
      PROVE  UNCHANGED os /\ \E r \in Results(v, schar(o)) : va2pa(v, schar(o), a, r)
  BY <1>2 DEF Translate, memaccess
<1>3. CASE \E n \in Names : allocate_proc(n) \/ remove_proc(n) \/ dispatcher(n)
  BY <1>3 DEF allocate_proc, remove_proc, dispatcher, Refuse, Ends, Create, Dispatch, vars
<1>4. CASE \E n \in Names, v \in VPN, x \in Pages, a \in Accesses :
             load_proc_page(n, v, x, a)
  BY <1>4 DEF load_proc_page, Refuse, Ends, LoadInto, vars
<1>5. CASE UNCHANGED vars
  BY <1>5 DEF vars
<1>6. QED
  BY <1>1, <1>2, <1>3, <1>4, <1>5 DEF Next

LEMMA BitmapGrows ==
  ASSUME [Next]_vars
  PROVE  pagebitmap \subseteq pagebitmap'
BY DEF Next, vars, os, allocate_proc, load_proc_page, remove_proc, dispatcher, Translate,
       memaccess, Refuse, Ends, Create, LoadInto, BitmapAfterLoad, Dispatch

(* What the MMU walks to names a frame in use, or is in the boot table.    *)
LEMMA WalkedFrame ==
  ASSUME IInv, NEW v \in VPN, Table[v].valid, Table[v].present
  PROVE  \/ uchar(Table[v].pfn) \in pagebitmap
         \/ BootTable[v].present /\ Table[v].pfn = BootTable[v].pfn
<1>1. CASE ptbr = Boot
  BY <1>1 DEF Table
<1>2. CASE ptbr # Boot
  <2>1. PICK i \in Proc : Named(i) /\ ptbr = procs[i].pagetablepfn
    BY <1>2 DEF IInv, MmuWalksATable
  <2>2. Mapped(i, v) /\ FrameOf(i, v) = uchar(Table[v].pfn)
    BY <1>2, <2>1 DEF Mapped, FrameOf, TableOf, Table
  <2>3. QED
    BY <2>2 DEF IInv, FramesDisjoint
<1>3. QED
  BY <1>1, <1>2

LEMMA FillTypes ==
  ASSUME IInv, NEW v \in VPN
  PROVE  \A k \in 1..TLB_SIZE :
           \/ Fill(v, Table[v].pfn)[k] = tlb[k]
           \/ Fill(v, Table[v].pfn)[k] =
                [valid |-> TRUE, vpn |-> v, pfn |-> Table[v].pfn]
BY DEF Fill, IInv, TypeOK

(* The TLB never holds two frames for one page.                            *)
THEOREM TlbIsAFunction == Spec => []TlbAgrees
<1>1. Init => TlbAgrees
  BY DEF Init, TlbAgrees
<1>2. IInv /\ TlbAgrees /\ [Next]_vars => TlbAgrees'
  <2> SUFFICES ASSUME IInv, TlbAgrees, [Next]_vars PROVE TlbAgrees'
    OBVIOUS
  <2>1. CASE UNCHANGED tlb
    BY <2>1 DEF TlbAgrees
  <2>2. CASE ~UNCHANGED tlb
    <3>1. PICK v \in VPN : Miss(v) /\ tlb' = Fill(v, Table[v].pfn)
      BY <2>2, TlbStep
    <3>2. \A k \in 1..TLB_SIZE :
            \/ tlb'[k] = tlb[k]
            \/ tlb'[k] = [valid |-> TRUE, vpn |-> v, pfn |-> Table[v].pfn]
      BY <3>1, FillTypes
    <3>3. QED
      BY <3>1, <3>2 DEF TlbAgrees, Miss
  <2>3. QED
    BY <2>1, <2>2
<1>3. QED
  BY <1>1, <1>2, Inductive, PTL DEF Spec

(* No translation the TLB keeps names a frame that pagealloc could hand    *)
(* out, but for the boot table's.                                          *)
THEOREM TlbFramesStayAllocated == Spec => []TlbNeverDangles
<1>1. Init => TlbNeverDangles
  BY DEF Init, TlbNeverDangles
<1>2. IInv /\ TlbNeverDangles /\ [Next]_vars => TlbNeverDangles'
  <2> SUFFICES ASSUME IInv, TlbNeverDangles, [Next]_vars PROVE TlbNeverDangles'
    OBVIOUS
  <2>1. CASE UNCHANGED tlb
    BY <2>1, BitmapGrows DEF TlbNeverDangles
  <2>2. CASE ~UNCHANGED tlb
    <3>1. PICK v \in VPN : /\ Table[v].valid /\ Table[v].present
                           /\ tlb' = Fill(v, Table[v].pfn)
                           /\ UNCHANGED pagebitmap
      BY <2>2, TlbStep
    <3>2. \A k \in 1..TLB_SIZE :
            \/ tlb'[k] = tlb[k]
            \/ tlb'[k] = [valid |-> TRUE, vpn |-> v, pfn |-> Table[v].pfn]
      BY <3>1, FillTypes
    <3>3. QED
      BY <3>1, <3>2, WalkedFrame DEF TlbNeverDangles
  <2>3. QED
    BY <2>1, <2>2
<1>3. QED
  BY <1>1, <1>2, Inductive, PTL DEF Spec

-----------------------------------------------------------------------------
(* Paging implements private address spaces: only load_proc_page changes   *)
(* what is in a space, and only at the page and process it is given.       *)
Exists == {i \in Proc : Named(i)}
PageAt(i, v) == IF Mapped(i, v) THEN mem[FrameOf(i, v)] ELSE NoPage
Space == [i \in Proc |-> [v \in VPN |-> PageAt(i, v)]]

LEMMA MappedInFrame ==
  ASSUME IInv, NEW i \in Proc, NEW v \in VPN, Mapped(i, v)
  PROVE  FrameOf(i, v) \in Frame
BY DEF IInv, TypeOK, FramesDisjoint

LEMMA CreateAllocates ==
  ASSUME IInv, NEW n \in Names, NEW i \in Proc, FreeSlot(i),
         NEW f \in Frame, f \notin pagebitmap, Create(n, i, f)
  PROVE  Spaces!Allocate(i)
<1>1. ~Named(i)
  BY DEF IInv, NamedIsUsed, FreeSlot
<1>2. Named(i)' /\ \A j \in Proc \ {i} : Named(j)' <=> Named(j)
  BY PagingAssumption DEF Create, Named, IInv, TypeOK
<1>3. \A v \in VPN : PageAt(i, v)' = NoPage /\ PageAt(i, v) = NoPage
  <2>1. TableOf(i)' = zeroes
    BY DEF Create, TableOf, IInv, TypeOK
  <2>2. QED
    BY <1>1, <2>1 DEF PageAt, Mapped, zeroes
<1>4. ASSUME NEW j \in Proc \ {i}, NEW v \in VPN
      PROVE  PageAt(j, v)' = PageAt(j, v)
  <2>1. Named(j) => TableOf(j)' = TableOf(j)
    BY FreshFrame DEF Create, TableOf, IInv, TypeOK
  <2>2. Mapped(j, v)' <=> Mapped(j, v)
    BY <1>2, <2>1 DEF Mapped
  <2>3. CASE Mapped(j, v)
    <3>1. FrameOf(j, v)' = FrameOf(j, v)
      BY <2>1, <2>3 DEF FrameOf, Mapped
    <3>2. mem'[FrameOf(j, v)] = mem[FrameOf(j, v)]
      BY <2>3, FreshFrame, MappedInFrame DEF Create, IInv, TypeOK
    <3>3. QED
      BY <2>2, <2>3, <3>1, <3>2 DEF PageAt
  <2>4. QED
    BY <2>2, <2>3 DEF PageAt
<1>5. Space' = Space
  BY <1>3, <1>4 DEF Space
<1>6. Exists' = Exists \cup {i} /\ i \notin Exists
  BY <1>1, <1>2 DEF Exists
<1>7. QED
  BY <1>5, <1>6 DEF Spaces!Allocate, Exists, Space, PageAt

LEMMA LoadLoads ==
  ASSUME IInv, NEW v \in VPN, NEW x \in Pages, NEW a \in Accesses,
         NEW i \in Proc, Named(i),
         NEW f \in Frame, f \notin pagebitmap, LoadInto(i, v, x, a, f)
  PROVE  i \in Exists /\ Spaces!Load(i, v, x)
<1>1. /\ \A j \in Proc : Named(j)' <=> Named(j)
      /\ Mapped(i, v)' /\ FrameOf(i, v)' = f
      /\ \A j \in Proc, w \in VPN : j # i \/ w # v =>
           /\ Mapped(j, w)' <=> Mapped(j, w)
           /\ Mapped(j, w) => FrameOf(j, w)' = FrameOf(j, w)
  BY LoadMapping
<1>2. procs[i].pagetablepfn # f /\ procs[i].pagetablepfn \in Frame
  BY FreshFrame DEF IInv, TypeOK
<1>3. /\ mem'[f] = x
      /\ \A g \in Frame : g # f /\ g # procs[i].pagetablepfn => mem'[g] = mem[g]
  BY <1>2 DEF LoadInto, IInv, TypeOK
<1>4. PageAt(i, v)' = x
  BY <1>1, <1>3 DEF PageAt
<1>5. ASSUME NEW j \in Proc, NEW w \in VPN, j # i \/ w # v
      PROVE  PageAt(j, w)' = PageAt(j, w)
  <2>1. CASE Mapped(j, w)
    <3>1. /\ FrameOf(j, w) # f /\ FrameOf(j, w) # procs[i].pagetablepfn
          /\ FrameOf(j, w) \in Frame
      BY <2>1, FreshFrame, MappedInFrame DEF IInv, FramesDisjoint
    <3>2. QED
      BY <1>1, <1>3, <1>5, <2>1, <3>1 DEF PageAt
  <2>2. CASE ~Mapped(j, w)
    BY <1>1, <1>5, <2>2 DEF PageAt
  <2>3. QED
    BY <2>1, <2>2
<1>6. Space' = [Space EXCEPT ![i][v] = x]
  BY <1>4, <1>5 DEF Space
<1>7. Exists' = Exists /\ i \in Exists
  BY <1>1 DEF Exists
<1>8. QED
  BY <1>6, <1>7 DEF Spaces!Load, Exists, Space, PageAt

(* Every process finds at each page what it has loaded there last, for any *)
(* number of processes and frames.                                         *)
THEOREM ImplementsAddressSpaces == Spec => SpacesSpec
<1>1. Init => Spaces!Init
  BY DEF Init, Spaces!Init, Mapped, Named
<1>2. IInv /\ [Next]_vars =>
        [Spaces!Next]_<<{i \in Proc : Named(i)},
                        [i \in Proc |-> [v \in VPN |->
                           IF Mapped(i, v) THEN mem[FrameOf(i, v)] ELSE NoPage]]>>
  <2> SUFFICES ASSUME IInv, [Next]_vars
               PROVE  Spaces!Next \/ (UNCHANGED <<Exists, Space>>)
    BY DEF Exists, Space, PageAt
  <2>1. ASSUME NEW n \in Names, NEW i \in Proc, FreeSlot(i),
               NEW f \in Frame, pagealloc(f), Create(n, i, f)
        PROVE  Spaces!Next
    BY <2>1, CreateAllocates DEF Spaces!Next, pagealloc
  <2>2. ASSUME NEW n \in Names, NEW v \in VPN, NEW x \in Pages, NEW a \in Accesses,
               NEW i \in Proc, Lookup(n, i),
               NEW f \in Frame, pagealloc(f), LoadInto(i, v, x, a, f)
        PROVE  Spaces!Next
    <3>1. Named(i)
      BY <2>2, PagingAssumption DEF Lookup, Named
    <3>2. i \in Exists /\ Spaces!Load(i, v, x)
      BY <2>2, <3>1, LoadLoads DEF pagealloc
    <3>3. QED
      BY <3>2 DEF Spaces!Next, Exists
  <2>3. ASSUME UNCHANGED mem,
               \A i \in Proc : /\ procs'[i].procname = procs[i].procname
                               /\ procs'[i].pagetablepfn = procs[i].pagetablepfn
        PROVE  UNCHANGED <<Exists, Space>>
    BY <2>3 DEF Exists, Space, PageAt, Mapped, FrameOf, TableOf, Named
  <2>4. ASSUME NEW i \in Proc, Dispatch(i)
        PROVE  UNCHANGED <<Exists, Space>>
    <3>1. \A j \in Proc : /\ procs'[j].procname = procs[j].procname
                          /\ procs'[j].pagetablepfn = procs[j].pagetablepfn
      BY <2>4 DEF Dispatch, Switch, IInv, TypeOK
    <3>2. QED
      BY <2>3, <2>4, <3>1 DEF Dispatch
  <2>5. CASE UNCHANGED <<mem, procs>>
    BY <2>3, <2>5
  <2>6. QED
    BY <2>1, <2>2, <2>4, <2>5
       DEF Next, vars, os, allocate_proc, load_proc_page, remove_proc, dispatcher,
           Translate, memaccess, Refuse, Ends
<1>3. QED
  BY <1>1, <1>2, Inductive, PTL DEF Spec, SpacesSpec, Spaces!Spec
=============================================================================
