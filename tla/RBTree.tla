------------------------------- MODULE RBTree -------------------------------
(***************************************************************************)
(* The red-black tree of schproj/rbt.c, into which the scheduler inserts.  *)
(* The descents to a leaf, which change nothing, are operators; changing   *)
(* the links is one action, and so is each iteration of the two repair     *)
(* loops.                                                                  *)
(*                                                                         *)
(* A key stays in its node and occurs once, so a pointer to a node is its  *)
(* key.  color and link are defined for the nodes of the tree.  Code for   *)
(* the left and for the right side is written once, for a side.  A         *)
(* definition marked "fault" is a wrong variant of the one after it.       *)
(***************************************************************************)
EXTENDS Integers, SequencesExt

CONSTANTS
  Keys,     \* the keys inserted
  Deleted,  \* those of them that may be deleted
  NULL

ASSUME RBTreeAssumption == Keys \subseteq Int /\ Deleted \subseteq Keys /\ NULL \notin Keys

VARIABLES
  root, color, link,
  stack, dir,  \* the path to the node looked at, and the sides it takes
  pc,          \* "idle", "insert" or "delete": the repair loop that runs
  fate,        \* "running" or "SIGSEGV"
  keys,        \* history: the keys inserted and not deleted
  pruned       \* history: a key has been deleted

tree == <<root, color, link>>
path == <<stack, dir>>
history == <<keys, pruned>>
vars == <<tree, path, pc, fate, history>>

Init ==
  /\ root = NULL /\ color = <<>> /\ link = <<>>
  /\ stack = <<>> /\ dir = <<>>
  /\ pc = "idle" /\ fate = "running"
  /\ keys = {} /\ pruned = FALSE

Node == DOMAIN link
top == Last(stack)
IsRed(n) == n # NULL /\ color[n] = "RED"

(* The side on which to look for k below n, and the nodes passed when k is *)
(* looked for, up to but without the place where it is or should be.       *)
side(k, n) == IF k > n THEN 1 ELSE 0
down(k, n) ==
  LET from[m \in Node \cup {NULL}] ==
        IF m = NULL \/ m = k THEN <<>> ELSE <<m>> \o from[link[m][side(k, m)]]
  IN  from[n]

(* The nodes from n along the left side, the last one without left child.  *)
spine[n \in Node] ==
  <<n>> \o IF link[n][0] = NULL THEN <<>> ELSE spine[link[n][0]]

(* fault: the subtree between the two nodes is forgotten                   *)
RaiseForgets(lk, x, s) == [lk EXCEPT ![x][s] = NULL, ![lk[x][s]][1 - s] = x]

(* The child of x on side s takes its place above x.                       *)
Raise(lk, x, s) ==
  LET y == lk[x][s] IN [lk EXCEPT ![x][s] = lk[y][1 - s], ![y][1 - s] = x]

(* y hangs where x did, in the k-th place of the path.                     *)
Hang(lk, k, x, y) == IF x = root THEN lk ELSE [lk EXCEPT ![stack[k - 1]][dir[k - 1]] = y]

NewRoot(x, y) == IF x = root THEN y ELSE root

Idle == pc' = "idle" /\ stack' = <<>> /\ dir' = <<>>

-----------------------------------------------------------------------------
(* createNode.                                                             *)
createNode(k) ==
  /\ color' = [n \in Node \cup {k} |-> IF n = k THEN "RED" ELSE color[n]]
  /\ link' = [n \in Node \cup {k} |->
                IF n = k THEN [s \in 0..1 |-> NULL]
                ELSE IF root # NULL /\ n = Last(down(k, root))
                     THEN [link[n] EXCEPT ![side(k, n)] = k]
                     ELSE link[n]]
  /\ keys' = keys \cup {k} /\ UNCHANGED pruned

(* The first node stays red until the next insertion.  The path starts     *)
(* with the root twice.                                                    *)
insertion(k) ==
  /\ pc = "idle" /\ k \notin Node      \* duplicates are refused
  /\ createNode(k)
  /\ IF root = NULL
     THEN root' = k /\ UNCHANGED <<path, pc>>
     ELSE LET p == down(k, root)
          IN  /\ stack' = <<root>> \o p
              /\ dir' = <<0>> \o [j \in DOMAIN p |-> side(k, p[j])]
              /\ pc' = "insert"
              /\ UNCHANGED root
  /\ UNCHANGED fate

parent == top
grandparent == stack[Len(stack) - 1]
turn == dir[Len(stack) - 1]
uncle == link[grandparent][1 - turn]

(* fault: the children of the root are left alone                          *)
TwoRedsDeeper == pc = "insert" /\ Len(stack) >= 4 /\ color[parent] = "RED"

TwoReds == pc = "insert" /\ Len(stack) >= 3 /\ color[parent] = "RED"

Recolor ==
  /\ TwoReds /\ IsRed(uncle)
  /\ color' = [color EXCEPT ![grandparent] = "RED", ![parent] = "BLACK",
                            ![uncle] = "BLACK"]
  /\ stack' = SubSeq(stack, 1, Len(stack) - 2)
  /\ dir' = SubSeq(dir, 1, Len(stack) - 2)
  /\ UNCHANGED <<root, link, pc, fate, history>>

(* fault: the inner grandchild is not turned outwards                      *)
OuterAsIs == link

(* The links with the new node, or what has become of it, on the outer     *)
(* side.                                                                   *)
Outer ==
  IF Last(dir) = turn THEN link
  ELSE [Raise(link, parent, 1 - turn) EXCEPT
          ![grandparent][turn] = link[parent][1 - turn]]

Rotate ==
  /\ TwoReds /\ ~IsRed(uncle)
  /\ LET y == Outer[grandparent][turn]
         r == NewRoot(grandparent, y)
     IN  /\ link' = Hang(Raise(Outer, grandparent, turn), Len(stack) - 1,
                         grandparent, y)
         /\ root' = r
         /\ color' = [color EXCEPT ![grandparent] = "RED", ![y] = "BLACK",
                                   ![r] = "BLACK"]
  /\ Idle
  /\ UNCHANGED <<fate, history>>

Inserted ==
  /\ pc = "insert" /\ ~TwoReds
  /\ color' = [color EXCEPT ![root] = "BLACK"]
  /\ Idle
  /\ UNCHANGED <<root, link, fate, history>>

-----------------------------------------------------------------------------
(* k leaves the tree; its node is freed or forgotten.  The node with links *)
(* lk and colors co that takes its place is y.  p and d are the path to    *)
(* where a black node is missing if the color that went was black.         *)
Vacate(k, y, lk, co, p, d, gone) ==
  /\ link' = [n \in Node \ {k} |->
                IF p # <<>> /\ Len(down(k, root)) > 0 /\ n = Last(down(k, root))
                THEN [lk[n] EXCEPT ![side(k, n)] = y] ELSE lk[n]]
  /\ color' = [n \in Node \ {k} |-> co[n]]
  /\ root' = NewRoot(k, y)
  /\ keys' = keys \ {k} /\ pruned' = TRUE
  /\ IF p # <<>> /\ gone = "BLACK"
     THEN pc' = "delete" /\ stack' = p /\ dir' = d
     ELSE UNCHANGED <<pc, path>>
  /\ UNCHANGED fate

(* Without right child a node is replaced by its left one, else by its     *)
(* successor.                                                              *)
deletion(k) ==
  /\ pc = "idle" /\ root # NULL
  /\ LET up == down(k, root)
         sides == [j \in DOMAIN up |-> side(k, up[j])]
         x == link[k][1]
     IN  \/ k \notin Node /\ fate' = "SIGSEGV" /\ UNCHANGED <<tree, path, pc, history>>
         \/ /\ k \in Node /\ x = NULL
            /\ Vacate(k, link[k][0], link, color, up, sides, color[k])
         \/ /\ k \in Node /\ x # NULL
            /\ LET sp == spine[x]
                   y  == Last(sp)
                   lk == IF y = x
                         THEN [link EXCEPT ![x][0] = link[k][0]]
                         ELSE [link EXCEPT ![y] = link[k],
                                           ![sp[Len(sp) - 1]][0] = link[y][1]]
               IN  Vacate(k, y, lk, [color EXCEPT ![y] = color[k]],
                          up \o <<y>> \o Front(sp),
                          sides \o <<1>> \o [j \in DOMAIN Front(sp) |-> 0],
                          color[y])

deficient == link[top][Last(dir)]

(* fault: the repair stops at a red node only                              *)
RepairedAtRed ==
  /\ pc = "delete" /\ IsRed(deficient)
  /\ color' = [color EXCEPT ![deficient] = "BLACK"]
  /\ Idle
  /\ UNCHANGED <<root, link, fate, history>>

(* The repair stops at a red node, which it makes black, and one step      *)
(* below the root.                                                         *)
Repaired ==
  /\ pc = "delete"
  /\ IsRed(deficient) \/ Len(stack) < 2
  /\ color' = IF IsRed(deficient) THEN [color EXCEPT ![deficient] = "BLACK"]
              ELSE color
  /\ Idle
  /\ UNCHANGED <<root, link, fate, history>>

Deficient == pc = "delete" /\ ~IsRed(deficient) /\ Len(stack) >= 2

(* The side is that of the node at the top in its parent, not that of the  *)
(* deficient node in the node at the top.                                  *)
at == dir[Len(stack) - 1]
sibling == link[top][1 - at]

NoSibling ==
  /\ Deficient /\ sibling = NULL
  /\ Idle
  /\ UNCHANGED <<tree, fate, history>>

(* A red sibling is raised first, in the same iteration.                   *)
Raised == Deficient /\ IsRed(sibling)
lk0 == IF Raised THEN Hang(Raise(link, top, 1 - at), Len(stack), top, sibling)
       ELSE link
co0 == IF Raised THEN [color EXCEPT ![top] = "RED", ![sibling] = "BLACK"]
       ELSE color
root0 == IF Raised THEN NewRoot(top, sibling) ELSE root
stack0 == IF Raised THEN Front(stack) \o <<sibling, top>> ELSE stack
dir0 == IF Raised THEN Append(dir, at) ELSE dir
r0 == lk0[top][1 - at]
Black0(n) == n # NULL => co0[n] = "BLACK"

(* The side now looked at is still that of the iteration's beginning.      *)
Crash ==
  /\ Deficient /\ sibling # NULL /\ r0 = NULL
  /\ fate' = "SIGSEGV"
  /\ UNCHANGED <<tree, path, pc, history>>

PushUp ==
  /\ Deficient /\ sibling # NULL /\ r0 # NULL
  /\ Black0(lk0[r0][0]) /\ Black0(lk0[r0][1])
  /\ color' = [co0 EXCEPT ![r0] = "RED"]
  /\ link' = lk0 /\ root' = root0
  /\ stack' = Front(stack0) /\ dir' = Front(dir0)
  /\ UNCHANGED <<pc, fate, history>>

Restructure ==
  /\ Deficient /\ sibling # NULL /\ r0 # NULL
  /\ ~(Black0(lk0[r0][0]) /\ Black0(lk0[r0][1]))
  /\ LET inner == Black0(lk0[r0][1 - at])
         q   == IF inner THEN lk0[r0][at] ELSE r0
         lk1 == IF inner THEN [Raise(lk0, r0, at) EXCEPT ![top][1 - at] = q]
                ELSE lk0
         co1 == IF inner THEN [co0 EXCEPT ![r0] = "RED", ![q] = "BLACK"] ELSE co0
         k   == Len(stack0)
         lk2 == Raise(lk1, top, 1 - at)
     IN  /\ link' = IF top = root0 THEN lk2
                    ELSE [lk2 EXCEPT ![stack0[k - 1]][dir0[k - 1]] = q]
         /\ root' = IF top = root0 THEN q ELSE root0
         /\ color' = [co1 EXCEPT ![q] = co1[top], ![top] = "BLACK",
                                 ![lk1[q][1 - at]] = "BLACK"]
  /\ Idle
  /\ UNCHANGED <<fate, history>>

Iterate == Recolor \/ Rotate \/ Inserted \/ Repaired \/ NoSibling \/ Crash
           \/ PushUp \/ Restructure

Next ==
  /\ fate = "running"
  /\ \/ \E k \in Keys : insertion(k)
     \/ \E k \in Deleted : deletion(k)
     \/ Iterate

(* A loop that can go on does.                                             *)
Spec == Init /\ [][Next]_vars /\ WF_vars(fate = "running" /\ Iterate)

-----------------------------------------------------------------------------
(* The subtree at n in symmetric order, and the black nodes down its left  *)
(* side.                                                                   *)
inorder[n \in Node \cup {NULL}] ==
  IF n = NULL THEN <<>> ELSE inorder[link[n][0]] \o <<n>> \o inorder[link[n][1]]
blacks[n \in Node \cup {NULL}] ==
  IF n = NULL THEN 0
  ELSE blacks[link[n][0]] + IF color[n] = "BLACK" THEN 1 ELSE 0

(* Type invariant.                                                         *)
TypeOK ==
  /\ root \in Node \cup {NULL}
  /\ color \in [Node -> {"RED", "BLACK"}]
  /\ link \in [Node -> [0..1 -> Node \cup {NULL}]]
  /\ Node \subseteq Keys
  /\ Len(stack) = Len(dir)
  /\ pc \in {"idle", "insert", "delete"}
  /\ fate \in {"running", "SIGSEGV"}

(* A traversal in order lists exactly the keys inserted and not deleted,   *)
(* in order, between any two iterations of the repairs too.                *)
Sorted ==
  /\ TypeOK
  /\ ToSet(inorder[root]) = keys
  /\ \A j \in 2..Len(inorder[root]) : inorder[root][j - 1] < inorder[root][j]

(* The tree is a red-black tree, but for its root, which may be red: no    *)
(* red node has a red child, and all the paths down from a node pass as    *)
(* many black nodes.                                                       *)
Balanced ==
  \A n \in Node :
    /\ IsRed(n) => ~IsRed(link[n][0]) /\ ~IsRed(link[n][1])
    /\ blacks[link[n][0]] = blacks[link[n][1]]

(* While keys are only inserted, which is all the scheduler does, every    *)
(* call leaves a red-black tree.                                           *)
RedBlack == pc = "idle" /\ ~pruned => Balanced

(* The path insertion keeps has at most 2 log(n) + 1 places for a tree of  *)
(* n nodes, the new one included, less than the 98 there are.              *)
log2[n \in Nat] == IF n < 2 THEN 0 ELSE 1 + log2[n \div 2]

PathFits ==
  pc = "insert" /\ ~pruned => Len(stack) <= 2 * log2[Cardinality(keys)] + 1

(* Every call comes to an end.                                             *)
RepairsEnd == pc # "idle" ~> pc = "idle" \/ fate # "running"
=============================================================================
