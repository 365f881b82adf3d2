# TLA+ models of the operating-systems labs

The repository is a course's worth of small C programs, each a piece of an
operating system in miniature.  There is no single system: the programs share no
code, except that the scheduler of `schproj` inserts into the red-black tree it
includes.  This directory models those that keep state of which something can be
said, checks the models with TLC on small instances, and proves what matters most
about all of them but the shell's parser and the signal programs with TLAPS, for
every value of their constants.

## Inventory

| Component | State | Operations | What is hard |
|---|---|---|---|
| process table, `schproj/proc.c` | 64 slots of `struct proc`, `nextpid` | Fork, Exit, Wait, Sleep, Wakeup, Kill, scheduler | slots are recycled while parent links are raw pointers; processes are named by pid, and 0 is the pid of every free slot; any call may come for a process in any state |
| its command shell, `schproj/main.c` | the table, `curr_proc_id`, the timer's count | executeCmd | any process may be named in any command; too many arguments leave variables unset |
| red-black tree, `schproj/rbt.c` | the tree | insertion, deletion | repair loops with mirrored cases, path arrays without a test |
| paged memory, `memorylab/paging.c` | 256 frames and their bitmap, 8 processes with page tables in frames, page table base register, TLB | allocate, load, remove, dispatch, translate, access | a TLB that outlives its table; frame numbers in signed chars; running out of frames |
| allocator over sbrk, `memorylab/kr_malloc.c` | ring of free blocks, program break | kr_malloc, kr_free, morecore | splitting and joining blocks; loops round a ring that grows under them |
| allocator over an array, `memorylab/umalloc.c` | ring of free blocks, the array | my_malloc, my_free, morecore | the array can be added to the ring again; nothing keeps `base` apart from the array |
| counting threads, `class1/threads*.c` | shared counter, mutex in `threads.v1.c` | two workers and main | interleaving of loads and stores |
| process queue, `firstlab/proc.c`, `main.c` | doubly linked list ordered by priority | fork, kill, printing | the ends of the list, order of equals, null parents |
| shell, `shellproj/sh.c` | command tree; processes, descriptors and pipes | getcmd, parsecmd, runcmd, fork1, wait, signal handlers | who holds which end of which pipe, who waits for whom, a fork that fails midway, CTL-C for all processes at once, whose handlers print, perhaps to a pipe; a recursive descent without a written grammar |
| pipe programs, `processlab/q8.c`, `q9.c`, `shellproj/*pipe.c` | processes, pipe ends | fork, pipe, read, write, wait | readers hold the ends that keep the end of file away; waiting before or after writing; a message longer than its array |
| signal programs, `signallab` | a handler, a counter | sigaction, kill, the loop | a handler against the main loop, signals that are merged or come too early |
| demonstrations and text handling | none | printing, splitting strings | nothing |

Interactions: `executeCmd` calls the process table; the shell's parser hands `runcmd` a tree,
and its processes share pipes with each other and with the programs they execute; `my_kill`
sends signals; `scheduler` inserts process times into the tree; the workers of the thread
programs share one counter; `va2pa` reads the page table that `load_proc_page` writes and
`dispatcher` selects.  Everything else is called by its own `main`.

What makes each component correct:

- *process table*: a pid names one process at most; only a zombie leaves, when it
  is waited for; every process but the first has a parent; a parent is not left
  asleep over a zombie child; pids are never handed out twice.
- *paged memory*: a frame has one use; one process runs and the MMU walks its
  table; the TLB has one answer per page, which names memory that is nobody
  else's; address spaces are private.
- *allocators*: blocks neither overlap nor get lost, free neighbours are joined,
  memory is asked for in need only, every call returns.
- *tree*: no key is lost, the order holds, the tree is balanced, the path fits.
- *threads*: what the counter can end as, with the mutex and without.
- *shell*: a line is accepted exactly if the grammar has it, with the grammar's tree, and its
  words are ended; lists run in order; a program has the descriptors its line gives it and no
  others; the prompt comes back, and is quiet.
- *pipe and signal programs*: every process reads what was meant for it; all of them end.
- *process queue*: the two directions agree, the order is by priority and age,
  every command ends.

## Modules

| Module | Models | State and actions against the code |
|---|---|---|
| `ProcTable` | `schproj/proc.c` | one function per field of `struct proc`; a call is one action, because the program has one thread and its locks are dummies. `findproc` is a relation between a pid and the slot where the scan stops. Pointers are slot indices. |
| `PidPool` | promise of `ProcTable` | pids are allocated in order, never reused, at most NPROC held |
| `ProcShell` | `schproj/main.c` | extends `ProcTable`: `executeCmd` picks a call and its arguments, the timer's loop goes an iteration at a time |
| `Paging` | `memorylab/paging.c` | frames, bitmap, processes, `ptbr` and TLB with the sizes' proportions kept (a frame of `PAGES` bytes, as many frames, a page table of `PAGES`/4 entries filling one); stored frame numbers go through a signed char |
| `AddressSpaces` | promise of `Paging` | a private page map per process |
| `FreeList` | what both allocators have in common | one action per iteration of the search and of the free loop, addresses in units of a header |
| `MCPaging` | `Paging` in sessions with one page and with two | the symmetry of names and pages |
| `KrMalloc`, `UMalloc` | `morecore` of the one and of the other | extend `FreeList` with where memory comes from: the system's break, or the array `mem`, which the linker puts anywhere beside `base` |
| `Heap` | promise of the allocators | disjoint blocks in owned memory |
| `Threads` | `class1/threads.c`, `threads.v0.c` | an increment is a load and a store |
| `ThreadsMutex` | `class1/threads.v1.c` | extends `Threads`: each increment under the mutex |
| `MCThreads` | both programs in one instance | `m` is NOMUTEX in `threads.c` |
| `ShellParse` | the parser of `shellproj/sh.c` | one operator per function of the parser; a line is a sequence of tokens, a word is its place in the line; a panic is the place 0, at which every loop stops. The grammar is stated beside it by cutting lines at their separators |
| `ShellRun` | `main`, `runcmd`, `fork1` of `sh.c` and the programs executed | processes with a program counter, a descriptor table and their way into the command tree; a case of `runcmd` is an action per system call that others can observe; system calls and programs are external |
| `MCShell` | both | `ShellRun` on the trees `ShellParse` makes of nine sessions |
| `LabPrograms` | `q8.c`, `q9.c`, `parent_child_pipe.c`, `simple_pipe.c`, `catch_signals.c`, `killme_with_a_signal.c`, `my_kill.c` | the system calls of each process as a sequence (`Text`), and an action for each call |
| `ProcList` | `firstlab/proc.c` and the commands of `main.c` | one action per iteration of the two loops that change links; processes are never freed, so a pointer is a pid |
| `PriorityQueue` | promise of `ProcList` | a sequence ordered by priority, then arrival |
| `RBTree` | `schproj/rbt.c` | the descent and the change of links are one action, each iteration of a repair loop another; code written for the left and for the right is written once for a side |
| `*_proofs` | | theorems about the module of that name; `ProcShell_proofs` also about `ProcTable`, `ThreadsMutex_proofs` also about `Threads`, and `Malloc_proofs` about `FreeList`, `KrMalloc` and `UMalloc` |

A definition marked "fault" in a module is a wrong variant of the one after it, as
a slip in the code would make it.  Put in its place, it makes TLC find the property
it belongs to (listed in `PROJECT.json`) violated.

Outcomes that end the program (a null pointer followed, a division by zero, a
panic) are values of the variable `fate`; nothing happens afterwards.  Where C leaves
the outcome open, as with the uninitialized sum in `scheduler`, the model chooses
between what the built program does: a division by zero is SIGFPE on x86.

In `ShellRun` a pipe holds units, a program is a source or a filter, and standard input is a
terminal or file at its end; the choice between source, filter and a failing `execvp` is free,
and a fork or a pipe may fail at any time, because the system can run out of either.  Standard
output of the shell is taken to be a terminal, so that the type of each command, which
`runcmd` prints before it acts, is written at once, into a pipe if there is one.  A handler of
the shell catches CTL-C and the call it interrupts is restarted (`signal` of glibc); `execvp`
resets it, so that the interrupt ends programs, those in the background included.  What a
handler prints goes to standard output as well (`handler`): a full pipe holds the process up
there, and a pipe that nobody reads any more kills it.  A handler that prints to the terminal
or to a file, as that of `main` does, changes nothing and is left out.

In `LabPrograms` the word typed fits the arrays of all programs.  `q8.c` appends thirteen
characters in an array of ten all the same: `strcat` overflows in every run.  Its outcome is a
choice between a process that goes on unharmed and one that writes nothing more (the
descriptors are overwritten, or the process is ended; the history variable `smashed`).  What
is sent are the array's ten bytes, the word and the start of the suffix.

`RBTree` was compared with the compiled `rbt.c`: all sequences of calls give the same
number of different idle trees, 3968 for nine keys inserted and 1359 for six keys
inserted and deleted.

## Runs

Deadlock is not checked where a bound or the end of the program stops the model; the
allocator `KrMalloc` never stops and is checked.

| Run | Question | Bounds, and why they suffice |
|---|---|---|
| `ProcTable` | Do lookups stay unambiguous, parents real, wakeups unlost, whatever the calls and with pid 0 among them? | three slots, `MaxPid` 4: the first process and two slots, each of which can be freed and taken again, have every relation there is between a parent, a child and an orphan |
| `ProcShellStranger` | Does `wait` of the command shell return the waiter's child? | three slots, 5 pids. No, a few commands suffice: a slot freed and taken again inherits the children left by the process before |
| `Paging` | Are frames used once, does one process run, is the TLB sound, are address spaces private? | eight frames of two table entries, two processes, a TLB of two: frames run out, frame numbers get negative, the TLB overflows; access code 2 also lets main's own table into the TLB. Sessions with two pages, so that a page of one process in the place of another's is seen, fill no TLB: it has no part in what the pages hold; in those with one page everything happens |
| `PagingSwitch` | Does a dispatch invalidate the TLB, as the comment on `invalidatetlb` says? | as above. No, nothing calls it |
| `KrMalloc` | Does the allocator keep its promise and does every call return? | ten units, chunks of four and more, contiguous or with a gap: splits, all four joins, chunks larger than `NALLOC` and failures of `sbrk` occur |
| `UMalloc` | Is the allocator sound while its array lasts and `base` is in the ring, and when does `base` leave it? | an array of eight units, requests that fill it, divide it and exceed it, and three places of the array: behind `base` with nothing in between, before it with a unit in between, and before it with nothing in between |
| `Threads` | What can main print without a lock? Is every increment counted with it, and does main end? | five increments each: the value lies in 2..10 without the mutex; both are proved for any number |
| `ShellParse` | Is the parser the grammar's, and is every word ended? | every line of up to six of seven tokens, three places in `argv` (two words): `;` under `|` under parentheses, two redirections, too many arguments, every panic |
| `Shell` | Do lists run in order, is the prompt quiet and does it come back, do programs get the descriptors of their line? | nine sessions of one to three lines, six processes, two pipes of one unit, one unit per source: pipes in pipes, lists in pipes and pipes in lists, blocks, redirections inside and outside of pipes, background jobs that outlive their line, lines that do not parse; more than six processes or two pipes make fork and pipe fail, which they may at any time anyhow. A pipe of one unit makes every writer wait; CTL-C comes once, at any time, also when the reader of a shell process's output has gone |
| `LabPrograms` | Do processes read what was sent to them, and do the programs end? | the programs have as many processes as they have; six signals are two more than `catch_signals.c` waits for; a pipe holds the three messages of `simple_pipe.c` |
| `ProcList` | Does the list stay a priority queue, and does every command end? | four processes with three priorities and three names: insertion and removal at both ends and in the middle, equal priorities, unknown parents |
| `RBTree` | Does the tree stay a search tree, and while keys are only inserted a balanced one, and does every repair end? | eight keys: the eighth insertion is the first whose repair recolours and then rotates higher up |

Each bound is a constant or a guard named for it: `MaxPid` (Fork is not called beyond it),
`LastBrk` (sbrk fails beyond it), `MaxProcs`, `MaxTokens`, `MaxKills`, `MaxQuantums`, `NPROC`
and `NPIPE` of `ShellRun`, the finite sets of arguments and sessions.  `UMalloc` makes no
further call once the array has been added twice, since headers and user data may then have
overwritten each other, nor once `base` has left the ring, which may then have one block that
is free and in use at once.

**Fairness.**  The programs are sequential but for the threads: a loop that can go on
goes on, so weak fairness of the iterations (and of `morecore`, with `sbrk` free to
fail) is what the processor gives.  Nothing obliges a user to make a call.  A thread
that can go on is scheduled eventually: weak fairness per thread.  Nothing more is
assumed of the mutex; `MainEnds` holds because a worker waiting for it is enabled for
ever once the other worker is done.  In the shell and the pipe programs every process is
scheduled, and programs that are executed read their input to its end; nothing is assumed of
which process is faster, of the user, or of who is sent a signal.  A pending signal is delivered
(`Deliver`), as the kernel does when it next lets the process run.

## What disagrees with the code's comments

Two runs expect a violation and `PROJECT.json` quotes the comment each contradicts:
`ProcShellStranger` and `PagingSwitch`.  Several conditions mark where a passing property ends
because the code does something else:

- `SoundlyTiled` and `SoundCallsReturn` hold while `base` is in the ring (`BaseRemains`).  Nothing
  in `umalloc.c` is allocated between `mem` and `base`, and the linker may put `base` right behind
  `mem` (gcc without optimization does).  Then the release of the last block of `mem` takes `base`
  for its free neighbour and joins it (`umalloc.c:131`), and `base` no longer "remains in the linked
  list" (`umalloc.c:153`).  From a ring of one block a request for exactly that block leaves it
  linked while it is in use, and its release never finds a place (`umalloc.c:123`); a release
  of the block right before it leaves two free blocks that overlap.  `BaseStaysApart`
  says that `base` leaves the ring in that placement only.
- They also end where the array has been handed out (`MemLasts`).  After that `morecore`
  (`umalloc.c:180`) adds the same array again; without the condition TLC shows two users with
  overlapping blocks, though `umalloc.c:234` says that it is called "when more free memory is
  needed".
- `RedBlack` holds until a key is deleted.  The repair after a deletion takes the side from
  `dir[ht - 2]` (`rbt.c:207`) and stops at `ht < 2` (`rbt.c:204`), so it looks at the wrong sibling
  and never runs at the root; without the condition TLC shows a tree two of whose paths pass
  different numbers of black nodes.  The scheduler, the only user, does not delete.
- `ListsInOrder` and `PromptIsQuiet` hold until a fork or a pipe fails, or CTL-C kills a
  process of the shell that has a child (`failed` in `ShellRun`).  The handler prints
  (`sh.c:64`), and standard output may be a pipe that nobody reads any more: typing CTL-C into
  `((a; a) > f; a) | a; a` after the reader has ended kills the process of the inner list in
  its handler, its child, whose output goes to `f`, lives on and goes to the second `a`, and
  the prompt comes back.  Without the condition TLC shows both violated.
- `ProgramsEnd` excepts that the overflow in `q8.c` (`q8.c:40`) stops its writer (`smashed`):
  the reader then waits for ever, since it holds a write end of the pipe itself.

The models also show, without a run of their own:

- `Fork` for pid 0 takes a free slot as the parent, even the new process's own.
- `Sleep` turns a zombie into a sleeper, which can be woken (`proc.c:147`).
- `Exit` makes its children zombies of `initproc` and does not wake it, so `initproc`
  may sleep in Wait over a zombie child; `NoLostWakeup` excepts it for that reason.
- `scheduler` divides by the priority of free slots, which is 0 until they are used,
  and selects no process when it returns (`proc.c:297`).
- `memaccess` takes the address for invalid when an offset or frame is 128 or more.
- `remove_proc` of any process but the first ends the program.
- in `umalloc.c` a search may go round for ever once the array was added twice; a request
  larger than the array is granted.
- `kill` in `firstlab` never removes the last process of the list (`proc.c:149`).
- `fork` with too many arguments prints Error and forks all the same, with a pid and a
  priority nobody has set (`schproj/main.c:98`); `wait` for a pid that is not there reports that
  child -3 has terminated (`schproj/main.c:123`); the pid given to Setpid is read by no command.
- `catch_signals.c` waits for exactly four signals: a fifth before the loop looks keeps it
  running for ever; `ProgramsEnd` excepts that.
- `q8.c` notices a failed fork only if both fail; its reader holds a write end of its own pipe
  and waits for ever when there is no writer; `ProgramsEnd` excepts a failed fork.  Of its message
  the last characters are never sent.
- the shell gives up a line whose second fork fails without waiting for what runs already
  (`sh.c:225`): what is said of the prompt and of lists excepts it, `PromptReturns` does not.
- CTL-C ends background programs of the shell too.
- a deletion in an already unbalanced tree may follow a null pointer (`rbt.c:232`).

## Proofs

`tlapm` checks these with no unproved leaf, for every value of the constants that the
modules' named assumptions allow.

- `ProcShell_proofs`, the table first.  The inductive invariant is `TypeOK`, `PidsUnique`,
  `Parented` and `FreeHasNoPid` (an UNUSED slot has no pid: without it Fork could overwrite
  one, and uniqueness would not be inductive).  From it: `NoLostWakeup`, `OnlyZombiesLeave`,
  `LostSlotsStayLost`, `RealPidsAreSafe` (a caller that never passes 0 loses no slot and meets
  no null parent; no run checks it, as pid 0 is among the arguments of the run), and that the
  table implements `PidPool`.  Then the command shell: each of its steps is a step of the
  table or leaves it alone (`ShellDrivesTable`), because a command without a pid names
  `curr_proc->pid`, which is 1 by `Parented`.  So the table's theorems hold of the program
  (`ShellKeepsTable`), provided 1 and 1024 are among the numbers callers may pass.
- `Paging_proofs`.  `TypeOK`, `FramesDisjoint`, `OneRunning`, `NamedIsUsed` (a process
  still UNUSED has no name, so that allocation does not take over a table) and
  `MmuWalksATable` (which gives the type of the entry a miss reads).  From it: the two
  TLB properties, and that paging implements `AddressSpaces`, for which
  `FramesDisjoint` is what keeps a load out of other processes' pages.
- `ThreadsMutex_proofs`.  Without a lock (`Threads`): no value exceeds the stores made; a worker
  that has stored before loads at least 1, so that each store from its second on leaves at least
  2, and once both have made two, the last store was one of those.  With the mutex: a worker
  between load and store holds it, so what it loaded is still the counter (`NoneLost`).
- `Malloc_proofs`, for both allocators first.  The invariant is `RingSorted`, `Coalesced`,
  `Tiled` in terms of first and last units (`Laid`), who has which block (`Owned`), and that
  base, a block of no units, is not in managed memory and in the ring (`Shape`).  It may lie
  right behind managed memory: the lemmas about a release assume that base is in the ring
  afterwards, which is so unless it is the block joined (`JoinsBlock`).  The step that links a
  block in changes up to four headers; it is taken apart into an insertion after `pos` and two
  joins of neighbours, each of which keeps the ring `Good`.  Where memory comes from is an
  assumption, `NewMemory`: the units of a chunk were not managed before.  For `KrMalloc`, the
  heap lies below the program break, so what `sbrk` gives is new, and base, below the heap,
  stays (`BaseStays`).  From it: `Tiled`, `RingSorted`, `Coalesced`, and that the allocator
  implements `Heap`.  For `GrowsInNeed` the invariant adds what a search knows of the blocks
  it has passed (`Searched`).  For `UMalloc`, the first chunk is new, and what is unsound
  stays so: memory is not taken back, and base can leave only in a release by a user, after
  which there is no next call; hence `SoundlyTiled`, wherever the linker has put base and the
  array, and `BaseStaysApart`, since only a block that ends where base begins can be joined to it.
- `ProcList_proofs`.  Types, `LinksAgree` and `Ordered` (that the list is ordered by priority and
  age; the run sees it as part of `QueueSpec`) with what the two loops know of
  the place they are at: the predecessor kept by `enqueue_proc` is in the list and not
  after the new process, and the loop of `kill` is in the list.  From these: the walk from
  `kernel_proc`, which `Entry` defines by recursion on its length, goes up in priority and
  age, so it meets nobody twice; it ends behind the last process, and no process can be missed,
  because the first one missed has a predecessor that was met (`AllReached`).
  What the walk meets is the queue of `PriorityQueue`: linking a process in is its insertion behind
  those of its priority, `kill` its removal, and the other iterations are stutters
  (`ImplementsQueue`).
- `RBTree_proofs`.  A step of a repair changes links in the middle of a tree, of which a
  recursive definition sees nothing but the root.  So the invariant says that there is a
  certificate: for each node the set of the nodes below it, with everything in the left set
  less than the node and everything in the right one greater, and no node linked to twice.
  Each change of links, a rotation, a new leaf, a cut, a successor taking the place of the
  deleted node, has a lemma that gives the certificate of the tree after it.  The other part
  says that the path the code keeps in `stack` and `dir` leads down the tree to where it is
  changed (`InsertPath`, `DeletePath`); without it a rotation would be hung to the wrong
  parent, and some of the links set would belong to no node.  That `inorder` lists the
  certificate's set in order, hence `Sorted`, follows because inclusion of finite sets is well
  founded.  `IInvInvariant` states the invariant.  Colours have no part in this: that the
  repair after a deletion takes the wrong side unbalances the tree, and does not unsort it.
  As long as no key is deleted there is a second certificate (`BInv`, `BalanceKept`): for each
  node its height in black nodes, the same on both sides.  It is right between two iterations
  of a repair too, because a repair moves colours and links so that no height changes; what a
  repair has still to put right is one red node below a red one, and that only at the end of
  the path (`Exempt`).  When the repair is over nothing is excepted, hence `RedBlack`.  A red
  root with a red child is never left: `insertion` ends by making the root black, and a red
  root that `insertion` makes itself is the only node.  `PathFits` follows from the heights: a
  subtree of black height h has at least 2^h - 1 nodes, and on a path at least every other
  node is black.
- `ShellRun_proofs`.  The invariant holds until a fork or a pipe has failed (a line that is
  given up leaves its processes behind) or a process has died in its handler while it had a
  child.  A process that dies so without one leaves as one that exits: `Catching` says that
  only processes of a line that have not ended have a handler to run.  Every process works for
  a command of its own (`Unique`), which is a part of its parent's (`Parents`); a branch of a
  command that its process has not turned to has no process (`Fresh`); a process has no more
  children than it will wait for (`Families`), so the children that `wait` may return are the
  ones meant; and everyone who works for a part of a command is in the background of it, or is
  a child of the command's process or works for a part of such a child's command (`Tended`).
  When the last child has been waited for, nobody but the background is left, which is what
  `ListsInOrder` and `PromptIsQuiet` say.  Descriptors play no part in this.  What is said of
  descriptors holds after failures as well, so it rests on less: `Base`, the part of the
  invariant that a line given up does not disturb (`OneCommandEach`).  Beside it `WInv` says
  of every process that its descriptors are those that the way to its command in the tree
  gives and no others (`Wired`), but that the process of a PIPE command has both ends of its
  pipe beside them from `pipe` until it closes them, and so have its two children until each
  has put one of them in the place of a standard descriptor; and that every pipe somebody
  holds belongs to one PIPE command of one line (`Pipes`: the map `own` from pipes to
  commands, one to one on the pipes in use).  A pipe is given out again only when nobody holds
  it, so a new command may take it over.  When a program starts, the two say that its input
  and output are what the line says (`Connected`).  The theorem `ProgramsConnected` has a
  hypothesis, `StandardRedirections`: the redirections in a session's trees are of descriptors
  0 and 1, as `parseredirs` makes them (`sh.c:427`); `MCShell` states it again as an
  assumption, which TLC evaluates on the trees that the parser makes of the run's sessions.
- `LabPrograms_proofs`.  For each program the invariant (`LInv`) says how far each process has
  come in its text and what, at that point, the pipes hold and the processes have read.  For
  `q9` and `parent_child_pipe` that is one argument over two numbers, the steps the parent and
  the child have done (`Paired`): the question is in the first pipe after the parent has
  written and until the child has read it, the answer in the second in the same way, and until
  then each of them still holds the end the other needs, so that no read meets an end of file
  and no write kills.  The texts come in only by where they write, read and close
  (`PairFacts`).  In `q8`, where more processes are forked than are used and any fork may
  fail, each process by itself is idle, forks, reads or writes, whoever the others are; a
  writer that its overflow has spoiled is idle.  `MessagesArrive` states `ReadsWhatWasSent`.

Only model-checked:

- `ParsesTheGrammar` and `WordsEnded`: the parser is written with RECURSIVE operators, which
  the prover does not reason about.
- All liveness (`CallsReturn`, `SoundCallsReturn`, `MainEnds`, `CommandsEnd`, `RepairsEnd`,
  `PromptReturns`, `ProgramsEnd`).  The prover handles neither fairness nor ENABLED.
- What becomes of the red-black tree's balance once a key is deleted: it is lost, see above.

The library's induction theorems take an operator as a parameter, which no prover here can
instantiate.  The inductions above (along the list, over the sets of a tree) go through the
existence of a minimal element instead: a set of counterexamples without one is empty.

## Not modelled

- Registers, open files, names, sizes and times of `struct proc`, `statusreg` and the
  TLB's asid: written and never read to decide anything.
- `procdump`, `print_*`, `inorderTraversal`, `leftMostNode`, the demonstrations in `main`.
- Of `sh.c`: `cd`, standard error, the characters of a word and white space, the limit of 99
  characters after which the rest of a line is read as the next command, and files' contents.
- Of `LabPrograms`' sources: the sizes of the buffers but the one that overflows, what is
  printed, the options of `my_kill`.
- `rbtree.c`, an unfinished stub nothing includes; `class1` cpu, mem and io; the
  `memorylab` programs that print addresses; `redirect_stdout.c`, `FPE_signal.c`; argument and
  string handling (`mainargslab`, `split.c`, `skipwhitespace.c`, `shellprac`): straight lines of
  code, or text without state between two inputs.

## Plan

Done, in order of importance: process table and its shell, paging, allocators, the shell
(execution, then parser), threads, process queue, red-black tree, pipe and signal programs;
proofs of the table, the shell that drives it, paging, both allocators, both thread programs, the
queue, the order and the balance of the tree, the shell's processes and their
descriptors, and the pipe programs.  Every invariant and every refinement that a run checks is
proved, but for the two of the parser; these would need its operators written as recursive
functions over positions, and an induction along the line.
