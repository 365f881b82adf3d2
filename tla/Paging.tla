------------------------------- MODULE Paging -------------------------------
(***************************************************************************)
(* The paged memory of memorylab/paging.c: frames and their bitmap,        *)
(* processes with a page table each, the page table base register and the  *)
(* TLB, and the calls on them in any order.                                *)
(*                                                                         *)
(* The sizes keep their proportions: a frame is PAGES bytes, PAGES is also *)
(* the number of frames and of values of a char, and one frame holds NPTE  *)
(* = PAGES/4 page table entries.  pfn, vpn and offset pass through signed  *)
(* chars.  The content of a frame is a page table, a page, or the zeroes   *)
(* pagealloc writes, which read as a table without valid entries.          *)
(*                                                                         *)
(* statusreg and the asid field are written and never read; the prints     *)
(* change nothing.  A definition marked "fault" is a wrong variant of the  *)
(* one after it: TLC shows with it that the properties can fail.           *)
(***************************************************************************)
EXTENDS Integers

CONSTANTS
  NPTE,       \* entries of a page table (64 in paging.c)
  MAX_PROCS,  \* 8 in paging.c
  TLB_SIZE,   \* 4 in paging.c
  Names,      \* the process names callers pass
  NoName,     \* the empty string
  Offsets,    \* the offsets callers use
  Accesses,   \* the access codes callers use
  Pages       \* the pages callers load

PAGES == 4 * NPTE
Frame == 0..(PAGES - 1)
VPN   == 0..(NPTE - 1)

ASSUME PagingAssumption ==
  /\ NPTE \in Nat \ {0}
  /\ MAX_PROCS \in Nat \ {0}
  /\ TLB_SIZE \in Nat \ {0}
  /\ NoName \notin Names
  /\ Offsets \subseteq Frame
  /\ Accesses \subseteq Int

VARIABLES
  pagebitmap,    \* the allocated frames
  mem,           \* content of each frame
  procs,         \* procname, procstate and pagetablepfn of each process
  running_proc,  \* index of the process dispatched last, at first 0
  ptbr,          \* frame of the table the MMU uses, or Boot
  tlb,           \* the TLB entries
  fate           \* "running", or how the program ended

vars == <<pagebitmap, mem, procs, running_proc, ptbr, tlb, fate>>
os   == <<pagebitmap, mem, procs, running_proc, ptbr>>

Proc == 0..(MAX_PROCS - 1)
Boot == -1

(* A byte stored in a char, and the frame a stored char stands for.        *)
schar(b) == IF b < 2 * NPTE THEN b ELSE b - PAGES
uchar(c) == IF c < 0 THEN c + PAGES ELSE c

pte == [pfn : {schar(f) : f \in Frame}, valid : BOOLEAN, present : BOOLEAN,
        protectbits : Int]
tlbe == [valid : BOOLEAN, vpn : VPN, pfn : {schar(f) : f \in Frame} \cup 1..3]

Entry(pfn_, present_, protectbits_) ==
  [pfn |-> pfn_, valid |-> TRUE, present |-> present_,
   protectbits |-> protectbits_]

zeroes == [v \in VPN |->
             [pfn |-> 0, valid |-> FALSE, present |-> FALSE, protectbits |-> 0]]

(* The table p1 on main's stack, used until the first dispatch.            *)
BootTable ==
  [v \in VPN |-> CASE v = 0 -> Entry(1, TRUE, 1)
                   [] v = 1 -> Entry(2, TRUE, 2)
                   [] v = 2 -> Entry(3, FALSE, 4)
                   [] OTHER -> zeroes[v]]

(* After main's first statements; procs is zeroed static memory.           *)
Init ==
  /\ pagebitmap   = {}
  /\ mem          = [f \in Frame |-> zeroes]
  /\ procs        = [i \in Proc |-> [procname |-> NoName, procstate |-> "UNUSED",
                                     pagetablepfn |-> 0]]
  /\ running_proc = 0
  /\ ptbr         = Boot
  /\ tlb          = [k \in 1..TLB_SIZE |-> [valid |-> FALSE, vpn |-> 0, pfn |-> 0]]
  /\ fate         = "running"

-----------------------------------------------------------------------------
(* pagealloc returns f, the first free frame; it panics if there is none.  *)
pagealloc(f) == f \notin pagebitmap /\ \A g \in Frame : g < f => g \in pagebitmap

OutOfFrames == \A f \in Frame : f \in pagebitmap

(* The first process of that name.                                         *)
Lookup(n, i) ==
  procs[i].procname = n /\ \A j \in Proc : j < i => procs[j].procname # n

NoSuch(n) == \A i \in Proc : procs[i].procname # n

Table == IF ptbr = Boot THEN BootTable ELSE mem[ptbr]

Refuse == UNCHANGED vars
Ends(how) == fate' = how /\ UNCHANGED <<os, tlb>>

FreeSlot(i) == procs[i].procstate = "UNUSED"

(* Process i gets a name and an empty table in frame f.                    *)
Create(n, i, f) ==
  /\ pagebitmap' = pagebitmap \cup {f}
  /\ mem' = [mem EXCEPT ![f] = zeroes]
  /\ procs' = [procs EXCEPT ![i] =
       [procname |-> n, procstate |-> "READY", pagetablepfn |-> f]]
  /\ UNCHANGED <<running_proc, ptbr, tlb, fate>>

(* The first UNUSED process but procs[0] is the one created.               *)
allocate_proc(n) ==
  \/ (\A i \in Proc \ {0} : ~FreeSlot(i)) /\ Refuse
  \/ \E i \in Proc \ {0} :
       /\ FreeSlot(i)
       /\ \A j \in Proc \ {0} : j < i => ~FreeSlot(j)
       /\ \/ OutOfFrames /\ Ends("panic")
          \/ \E f \in Frame : pagealloc(f) /\ Create(n, i, f)

(* fault: the frame a page had before is freed                             *)
BitmapFreesOld(i, v, f) ==
  (pagebitmap \ (IF mem[procs[i].pagetablepfn][v].valid
                 THEN {uchar(mem[procs[i].pagetablepfn][v].pfn)} ELSE {}))
    \cup {f}

(* fault: the bit of the frame is not set                                  *)
BitmapUnmarked(i, v, f) == pagebitmap

(* The bitmap once v of process i is in frame f: the frame v had, if any,  *)
(* stays allocated.                                                        *)
BitmapAfterLoad(i, v, f) == pagebitmap \cup {f}

LoadInto(i, v, page, access, f) ==
  /\ pagebitmap' = BitmapAfterLoad(i, v, f)
  /\ mem' = [mem EXCEPT
               ![procs[i].pagetablepfn][v] = Entry(schar(f), TRUE, access),
               ![f] = page]
  /\ UNCHANGED <<procs, running_proc, ptbr, tlb, fate>>

load_proc_page(n, v, page, access) ==
  \/ NoSuch(n) /\ Refuse
  \/ \E i \in Proc :
       /\ Lookup(n, i)
       /\ \/ OutOfFrames /\ Ends("panic")
          \/ \E f \in Frame : pagealloc(f) /\ LoadInto(i, v, page, access, f)

(* Every removal ends the program: it frees the pfn of PAGES entries, of   *)
(* which the table has NPTE, and chars that are not negative are only      *)
(* PAGES/2, so that some pfn is freed twice, which panics, or is negative  *)
(* and indexes far out of the bitmap.                                      *)
remove_proc(n) ==
  \/ (\A i \in Proc \ {0} : procs[i].procname # n) /\ Refuse
  \/ /\ \E i \in Proc \ {0} : procs[i].procname = n
     /\ Ends("panic") \/ Ends("SIGSEGV")

(* fault: the process that ran stays RUNNING                               *)
SwitchKeepsState(i) == [procs EXCEPT ![i].procstate = "RUNNING"]

(* The process that ran, or the unused procs[0], becomes READY.            *)
Switch(i) == [procs EXCEPT ![running_proc].procstate = "READY",
                           ![i].procstate = "RUNNING"]

(* The TLB is not invalidated.                                             *)
Dispatch(i) ==
  /\ procs' = Switch(i)
  /\ running_proc' = i
  /\ ptbr' = procs[i].pagetablepfn
  /\ UNCHANGED <<pagebitmap, mem, tlb, fate>>

dispatcher(n) ==
  \/ NoSuch(n) /\ Refuse
  \/ \E i \in Proc : Lookup(n, i) /\ Dispatch(i)

-----------------------------------------------------------------------------
(* pfn << 8 | off, both signed: a negative off fills all the higher bits.  *)
Address(pfn, off) == IF off < 0 THEN off ELSE pfn * PAGES + off

Hit(v, k) ==
  /\ tlb[k].valid /\ tlb[k].vpn = v
  /\ \A l \in 1..TLB_SIZE : l < k => ~(tlb[l].valid /\ tlb[l].vpn = v)

(* fault: only the first entry is looked at                                *)
MissFirst(v) == ~(tlb[1].valid /\ tlb[1].vpn = v)

Miss(v) == \A k \in 1..TLB_SIZE : ~(tlb[k].valid /\ tlb[k].vpn = v)

(* The translation goes into every invalid entry, or else evicts tlb[0].   *)
Fill(v, pfn) ==
  LET e == [valid |-> TRUE, vpn |-> v, pfn |-> pfn]
  IN  IF \E k \in 1..TLB_SIZE : ~tlb[k].valid
      THEN [k \in 1..TLB_SIZE |-> IF tlb[k].valid THEN tlb[k] ELSE e]
      ELSE [tlb EXCEPT ![1] = e]

(* va2pa returns r.  A hit ignores access.                                 *)
va2pa(v, off, access, r) ==
  \/ \E k \in 1..TLB_SIZE :
       Hit(v, k) /\ r = Address(tlb[k].pfn, off) /\ UNCHANGED tlb
  \/ Miss(v) /\ ~Table[v].valid /\ r = -1 /\ UNCHANGED tlb
  \/ Miss(v) /\ Table[v].valid /\ ~Table[v].present /\ r = -3 /\ UNCHANGED tlb
  \/ /\ Miss(v) /\ Table[v].valid /\ Table[v].present
     /\ access # Table[v].protectbits /\ r = -2 /\ UNCHANGED tlb
  \/ /\ Miss(v) /\ Table[v].valid /\ Table[v].present
     /\ access = Table[v].protectbits
     /\ r = Address(Table[v].pfn, off)
     /\ tlb' = Fill(v, Table[v].pfn)

Results(v, off) ==
  {-1, -2, -3, Address(Table[v].pfn, off)}
    \cup {Address(tlb[k].pfn, off) : k \in 1..TLB_SIZE}

(* A call of va2pa alone; its result is only printed.                      *)
Translate(v, off, access) ==
  /\ \E r \in Results(v, schar(off)) : va2pa(v, schar(off), access, r)
  /\ UNCHANGED <<os, fate>>

(* A negative address panics; another is the place of the byte returned.   *)
memaccess(v, off, access) ==
  \E r \in Results(v, schar(off)) :
    /\ va2pa(v, schar(off), access, r)
    /\ fate' = IF r < 0 THEN "panic" ELSE fate
    /\ UNCHANGED os

Next ==
  /\ fate = "running"
  /\ \/ \E n \in Names : allocate_proc(n)
     \/ \E n \in Names, v \in VPN, x \in Pages, a \in Accesses :
          load_proc_page(n, v, x, a)
     \/ \E n \in Names : remove_proc(n)
     \/ \E n \in Names : dispatcher(n)
     \/ \E v \in VPN, o \in Offsets, a \in Accesses : Translate(v, o, a)
     \/ \E v \in VPN, o \in Offsets, a \in Accesses : memaccess(v, o, a)

Spec == Init /\ [][Next]_vars

-----------------------------------------------------------------------------
Named(i) == procs[i].procname # NoName
TableOf(i) == mem[procs[i].pagetablepfn]
Mapped(i, v) == Named(i) /\ TableOf(i)[v].valid
FrameOf(i, v) == uchar(TableOf(i)[v].pfn)

(* Type invariant.  A process table is read as a table only.               *)
TypeOK ==
  /\ pagebitmap \subseteq Frame
  /\ mem \in [Frame -> Pages \cup [VPN -> pte]]
  /\ procs \in [Proc -> [procname : Names \cup {NoName},
                        procstate : {"UNUSED", "RUNNING", "READY"},
                        pagetablepfn : Frame]]
  /\ \A i \in Proc : Named(i) => TableOf(i) \in [VPN -> pte]
  /\ running_proc \in Proc
  /\ ptbr \in Frame \cup {Boot}
  /\ tlb \in [1..TLB_SIZE -> tlbe]
  /\ fate \in {"running", "panic", "SIGSEGV"}

(* No frame has two uses: the page tables and the mapped pages of all the  *)
(* processes are in allocated frames, all of them different, although a    *)
(* table names its frames in signed chars and a page may be loaded again.  *)
FramesDisjoint ==
  /\ \A i \in Proc : Named(i) => procs[i].pagetablepfn \in pagebitmap
  /\ \A i, j \in Proc : Named(i) /\ Named(j) /\ i # j =>
       procs[i].pagetablepfn # procs[j].pagetablepfn
  /\ \A i \in Proc, v \in VPN : Mapped(i, v) =>
       /\ FrameOf(i, v) \in pagebitmap
       /\ \A j \in Proc : Named(j) => FrameOf(i, v) # procs[j].pagetablepfn
       /\ \A j \in Proc, w \in VPN :
            Mapped(j, w) /\ FrameOf(i, v) = FrameOf(j, w) => i = j /\ v = w

(* At most one process is RUNNING, the MMU uses its table, and it has one. *)
OneRunning ==
  \A i \in Proc : procs[i].procstate = "RUNNING" =>
    i = running_proc /\ Named(i) /\ ptbr = procs[i].pagetablepfn

(* The TLB never holds two translations of one page, whatever the fill of  *)
(* all its invalid entries and the evictions of the first have left in it. *)
TlbAgrees ==
  \A k, l \in 1..TLB_SIZE :
    tlb[k].valid /\ tlb[l].valid /\ tlb[k].vpn = tlb[l].vpn =>
      tlb[k].pfn = tlb[l].pfn

(* Stale translations are harmless to the extent that the TLB never names  *)
(* a frame that is free to be given to someone else, except those the boot *)
(* table names: a page that is loaded again keeps its old frame allocated. *)
TlbNeverDangles ==
  \A k \in 1..TLB_SIZE : tlb[k].valid =>
    \/ uchar(tlb[k].pfn) \in pagebitmap
    \/ BootTable[tlb[k].vpn].present /\ tlb[k].pfn = BootTable[tlb[k].vpn].pfn

(* The processes' pages are private: what a process has loaded at a page   *)
(* is there until that process loads that page again.                      *)
NoPage == NoName
Spaces == INSTANCE AddressSpaces WITH
            Absent <- NoPage,
            exists <- {i \in Proc : Named(i)},
            space  <- [i \in Proc |-> [v \in VPN |->
                         IF Mapped(i, v) THEN mem[FrameOf(i, v)] ELSE NoPage]]

SpacesSpec == Spaces!Spec

-----------------------------------------------------------------------------
(* paging.c:201 "marks all tlb entries as invalid / Called during a        *)
(* context switch": the process switched to finds no translation of the    *)
(* process that ran before.                                                *)
TlbInvalidatedOnSwitch ==
  [][ptbr' # ptbr => \A k \in 1..TLB_SIZE : ~tlb'[k].valid]_vars
=============================================================================
