---------------------------- MODULE RBTree_proofs ----------------------------
(***************************************************************************)
(* Proofs about RBTree, for every set of keys: whatever is inserted and    *)
(* deleted, a traversal in order lists the keys of the tree in order,      *)
(* between any two iterations of the repairs too; and while keys are only  *)
(* inserted, every call leaves a red-black tree, by a path that fits.      *)
(*                                                                         *)
(* The recursive functions of RBTree are never unfolded along a step.  A   *)
(* tree is known by certificates that each step can be shown to keep: the  *)
(* set of the nodes below each node, and its height in black nodes.        *)
(***************************************************************************)
EXTENDS RBTree, FiniteSetTheorems, SequenceTheorems, TLAPS

(* m is another key than n and belongs on side s of n.                     *)
Beside(m, s, n) == m # n /\ side(m, n) = s

(* S[n] are the nodes of the subtree at n, in a search tree with root r    *)
(* and links lk whose nodes are N.                                         *)
Tree(lk, r, N, S) ==
  /\ N \subseteq Int /\ NULL \notin N /\ IsFiniteSet(N)
  /\ lk \in [N -> [0..1 -> N \cup {NULL}]]
  /\ r \in N \cup {NULL}
  /\ S \in [N \cup {NULL} -> SUBSET N] /\ S[NULL] = {} /\ S[r] = N
  /\ \A n \in N : S[n] = S[lk[n][0]] \cup {n} \cup S[lk[n][1]]
  /\ \A n \in N, s \in 0..1 : \A m \in S[lk[n][s]] : Beside(m, s, n)
  /\ \A n, m \in N, s, t \in 0..1 :
       lk[n][s] = lk[m][t] /\ lk[n][s] # NULL => n = m /\ s = t

-----------------------------------------------------------------------------
(* Sides and subtrees.                                                     *)
LEMMA Sides == \A s \in 0..1 : s = 0 \/ s = 1
  OBVIOUS

LEMMA SideIs == \A m, n : side(m, n) \in 0..1
  BY DEF side

LEMMA BesideInverse ==
  \A m, n \in Int, s \in 0..1 : Beside(m, s, n) => Beside(n, 1 - s, m)
  BY Sides DEF Beside, side

LEMMA BesideTransitive ==
  \A l, m, n \in Int, s \in 0..1 :
    Beside(l, s, m) /\ Beside(m, s, n) => Beside(l, s, n)
  BY Sides DEF Beside, side

LEMMA Below ==
  ASSUME NEW lk, NEW r, NEW N, NEW S, Tree(lk, r, N, S), NEW n \in N, NEW s \in 0..1
  PROVE  /\ 1 - s \in 0..1 /\ 1 - (1 - s) = s
         /\ lk[n][s] \in N \cup {NULL} /\ lk[n][1 - s] \in N \cup {NULL}
         /\ S[n] = S[lk[n][s]] \cup {n} \cup S[lk[n][1 - s]]
         /\ n \in S[n] /\ n \notin S[lk[n][s]]
         /\ \A m \in S[lk[n][s]] : Beside(m, s, n) /\ m \notin S[lk[n][1 - s]]
         /\ S[n] \subseteq N
<1>1. /\ 1 - s \in 0..1 /\ 1 - (1 - s) = s /\ s # 1 - s
      /\ lk[n][s] \in N \cup {NULL} /\ lk[n][1 - s] \in N \cup {NULL}
  BY Sides DEF Tree
<1>2. S[n] = S[lk[n][s]] \cup {n} \cup S[lk[n][1 - s]]
  BY Sides DEF Tree
<1>3. \A m \in S[lk[n][s]] : Beside(m, s, n)
  BY DEF Tree
<1>4. \A m \in S[lk[n][1 - s]] : Beside(m, 1 - s, n)
  BY <1>1 DEF Tree
<1>5. S[n] \subseteq N
  BY DEF Tree
<1>6. QED  BY <1>1, <1>2, <1>3, <1>4, <1>5 DEF Beside

(* Induction from the leaves to the root: a set that has a node whenever   *)
(* it has its children has all nodes.                                      *)
LEMMA TreeInduct ==
  ASSUME NEW lk, NEW r, NEW N, NEW S, Tree(lk, r, N, S), NEW P, NULL \in P,
         \A n \in N : lk[n][0] \in P /\ lk[n][1] \in P => n \in P
  PROVE  N \cup {NULL} \subseteq P
<1> SUFFICES ASSUME N \ P # {}  PROVE FALSE
  OBVIOUS
<1> DEFINE I == {S[n] : n \in N \ P}
<1>1. I \subseteq FiniteSubsetsOf(N) /\ I # {}
  <2>1. ASSUME NEW n \in N  PROVE S[n] \in FiniteSubsetsOf(N)
    BY FS_Subset DEF Tree, FiniteSubsetsOf
  <2>2. QED  BY <2>1
<1>2. PICK b \in I : \A t \in I : ~(<<t, b>> \in StrictSubsetOrdering(N))
  <2> HIDE DEF I
  <2>1. QED  BY <1>1, FS_StrictSubsetOrderingWellFounded, WFMin, Zenon
<1>3. PICK n \in N \ P : b = S[n]
  OBVIOUS
<1>4. ASSUME NEW s \in 0..1  PROVE lk[n][s] \in P
  <2>1. SUFFICES ASSUME lk[n][s] \in N \ P  PROVE FALSE
    BY Below
  <2>2. S[lk[n][s]] \subseteq S[n] /\ S[lk[n][s]] # S[n] /\ S[n] \subseteq N
    BY Below
  <2>3. <<S[lk[n][s]], S[n]>> \in StrictSubsetOrdering(N)
    BY <2>2 DEF StrictSubsetOrdering
  <2>4. QED  BY <2>1, <2>3, <1>2, <1>3
<1>5. QED  BY <1>4

(* A subtree holds the subtrees of its nodes.                              *)
LEMMA Nested ==
  ASSUME NEW lk, NEW r, NEW N, NEW S, Tree(lk, r, N, S)
  PROVE  \A a \in N \cup {NULL} : \A n \in S[a] : S[n] \subseteq S[a]
<1> DEFINE P == {a \in N \cup {NULL} : \A n \in S[a] : S[n] \subseteq S[a]}
<1>1. NULL \in P
  BY DEF Tree
<1>2. ASSUME NEW a \in N, lk[a][0] \in P, lk[a][1] \in P  PROVE a \in P
  BY <1>2 DEF Tree
<1>3. N \cup {NULL} \subseteq P
  <2> HIDE DEF P
  <2> QED  BY <1>1, <1>2, TreeInduct
<1>4. QED  BY <1>3

(* The root has no parent.                                                 *)
LEMMA RootOnTop ==
  ASSUME NEW lk, NEW r, NEW N, NEW S, Tree(lk, r, N, S), NEW n \in N, NEW s \in 0..1
  PROVE  lk[n][s] # r
<1>1. n \notin S[lk[n][s]]
  BY Below
<1>2. QED  BY <1>1 DEF Tree

-----------------------------------------------------------------------------
(* Recursion from the leaves to the root: F[n][a][b] is the value at n     *)
(* when a and b are those at its children.                                 *)
Recurs(f, lk, N, F, e, M) ==
  /\ f[NULL] = e
  /\ \A n \in M : f[n] = F[n][f[lk[n][0]]][f[lk[n][1]]]

LEMMA TreeRecursion ==
  ASSUME NEW lk, NEW r, NEW N, NEW S, Tree(lk, r, N, S), NEW V, NEW e \in V,
         NEW F \in [N -> [V -> [V -> V]]]
  PROVE  \E f \in [N \cup {NULL} -> V] : Recurs(f, lk, N, F, e, N)
<1> DEFINE D == N \cup {NULL}
           P == {a \in D : \E f \in [D -> V] : Recurs(f, lk, N, F, e, S[a])}
<1>1. NULL \in P
  <2>1. [n \in D |-> e] \in [D -> V] /\ Recurs([n \in D |-> e], lk, N, F, e, S[NULL])
    BY DEF Recurs, Tree
  <2>2. QED  BY <2>1
<1>2. ASSUME NEW a \in N, lk[a][0] \in P, lk[a][1] \in P  PROVE a \in P
  <2> DEFINE b == lk[a][0]
             c == lk[a][1]
  <2>1. PICK f \in [D -> V] : Recurs(f, lk, N, F, e, S[b])
    BY <1>2
  <2>2. PICK g \in [D -> V] : Recurs(g, lk, N, F, e, S[c])
    BY <1>2
  <2> DEFINE h == [n \in D |-> IF n \in S[b] THEN f[n]
                               ELSE IF n \in S[c] THEN g[n]
                               ELSE IF n = a THEN F[a][f[b]][g[c]] ELSE e]
  <2>3. /\ b \in D /\ c \in D /\ S[a] = S[b] \cup {a} \cup S[c]
        /\ a \notin S[b] /\ a \notin S[c] /\ S[b] \cap S[c] = {}
        /\ NULL \notin S[a] /\ S[a] \subseteq N
    <3>1. NULL \notin N /\ S[a] \subseteq N /\ S[a] = S[b] \cup {a} \cup S[c]
          /\ b \in N \cup {NULL} /\ c \in N \cup {NULL}
      BY DEF Tree
    <3>2. ASSUME NEW s \in 0..1
          PROVE  a \notin S[lk[a][s]] /\ \A n \in S[lk[a][s]] : n \notin S[lk[a][1 - s]]
      BY Below
    <3>3. a \notin S[b] /\ a \notin S[c] /\ S[b] \cap S[c] = {}
      BY <3>2
    <3>4. QED  BY <3>1, <3>2, <3>3 DEF D
  <2>4. \A d \in {b, c} : \A n \in S[d] : /\ lk[n][0] \in S[d] \cup {NULL}
                                         /\ lk[n][1] \in S[d] \cup {NULL}
    <3> SUFFICES ASSUME NEW d \in {b, c}, NEW n \in S[d], NEW s \in 0..1
                 PROVE  lk[n][s] \in S[d] \cup {NULL}
      OBVIOUS
    <3>1. n \in N /\ S[n] \subseteq S[d]
      BY <2>3, Nested
    <3>2. lk[n][s] \in N \cup {NULL} /\ S[lk[n][s]] \subseteq S[n]
      BY <3>1, Below
    <3>3. lk[n][s] \in N => lk[n][s] \in S[lk[n][s]]
      BY Below
    <3>4. QED  BY <3>1, <3>2, <3>3
  <2>5. h \in [D -> V] /\ h[NULL] = e /\ NULL \notin S[b] /\ NULL \notin S[c]
    BY <2>3 DEF Tree
  <2>6. f[NULL] = e /\ g[NULL] = e
    BY ONLY <2>1, <2>2, Zenon DEF Recurs
  <2>7. /\ \A n \in S[b] \cup {NULL} : h[n] = f[n]
        /\ \A n \in S[c] \cup {NULL} : h[n] = g[n]
        /\ h[a] = F[a][f[b]][g[c]]
    BY <2>3, <2>5, <2>6 DEF Tree
  <2>8. b \in S[b] \cup {NULL} /\ c \in S[c] \cup {NULL}
    <3> HIDE DEF h
    <3>1. ASSUME NEW n \in N  PROVE n \in S[n]
      <4>1. \A m \in N : S[m] = S[lk[m][0]] \cup {m} \cup S[lk[m][1]]
        BY ONLY Tree(lk, r, N, S), Zenon DEF Tree
      <4>2. S[n] = S[lk[n][0]] \cup {n} \cup S[lk[n][1]]
        BY <4>1, Zenon
      <4>3. QED  BY ONLY <4>2
    <3>2. QED  BY <3>1, <2>3
  <2> HIDE DEF h, D, b, c
  <2>9. Recurs(h, lk, N, F, e, S[a])
    <3>1. ASSUME NEW n \in S[b]  PROVE h[n] = F[n][h[lk[n][0]]][h[lk[n][1]]]
      BY <2>1, <2>4, <2>7 DEF Recurs
    <3>2. ASSUME NEW n \in S[c]  PROVE h[n] = F[n][h[lk[n][0]]][h[lk[n][1]]]
      BY <2>2, <2>4, <2>7 DEF Recurs
    <3>3. h[a] = F[a][h[lk[a][0]]][h[lk[a][1]]]
      BY <2>7, <2>8 DEF b, c
    <3>4. QED  BY <3>1, <3>2, <3>3, <2>3, <2>5 DEF Recurs
  <2>10. QED  BY <2>9, <2>5 DEF D
<1>3. D \subseteq P
  <2> HIDE DEF P
  <2> QED  BY <1>1, <1>2, TreeInduct
<1>4. r \in D /\ S[r] = N
  BY DEF Tree
<1>5. QED  BY <1>3, <1>4

-----------------------------------------------------------------------------
(* The traversal in order.                                                 *)
LEMMA Single ==
  ASSUME NEW N, NEW n \in N
  PROVE  <<n>> \in Seq(N) /\ Len(<<n>>) = 1 /\ <<n>>[1] = n
  OBVIOUS

LEMMA Around ==
  ASSUME NEW N, NEW v \in Seq(N), NEW n \in N, NEW w \in Seq(N)
  PROVE  /\ v \o <<n>> \o w \in Seq(N)
         /\ Len(v \o <<n>> \o w) = Len(v) + 1 + Len(w)
         /\ \A j \in 1..(Len(v) + 1 + Len(w)) :
              (v \o <<n>> \o w)[j] = IF j <= Len(v) THEN v[j]
                                     ELSE IF j = Len(v) + 1 THEN n
                                     ELSE w[j - (Len(v) + 1)]
<1>1. <<n>> \in Seq(N) /\ Len(<<n>>) = 1 /\ <<n>>[1] = n
  BY Single
<1> DEFINE u == v \o <<n>>
<1>2. /\ u \in Seq(N) /\ Len(u) = Len(v) + 1
      /\ \A j \in 1..(Len(v) + 1) : u[j] = IF j <= Len(v) THEN v[j] ELSE n
  BY <1>1, ConcatProperties
<1> HIDE DEF u
<1>3. /\ u \o w \in Seq(N) /\ Len(u \o w) = Len(u) + Len(w)
      /\ \A j \in 1..(Len(u) + Len(w)) :
           (u \o w)[j] = IF j <= Len(u) THEN u[j] ELSE w[j - Len(u)]
  BY <1>2, ConcatProperties
<1>4. Len(v) \in Nat /\ Len(w) \in Nat
  BY LenProperties
<1>5. QED  BY <1>2, <1>3, <1>4 DEF u

InorderStep(f) ==
  [n \in Node \cup {NULL} |->
     IF n = NULL THEN <<>> ELSE f[link[n][0]] \o <<n>> \o f[link[n][1]]]

LEMMA InorderDef ==
  ASSUME NEW S, Tree(link, root, Node, S)
  PROVE  inorder = InorderStep(inorder)
<1> DEFINE V == Seq(Node)
           F == [n \in Node |-> [v \in V |-> [w \in V |-> v \o <<n>> \o w]]]
           P(f) == f = InorderStep(f)
<1>1. F \in [Node -> [V -> [V -> V]]]
  BY Around
<1>2. PICK f \in [Node \cup {NULL} -> V] : Recurs(f, link, Node, F, <<>>, Node)
  <2>1. <<>> \in V
    OBVIOUS
  <2> HIDE DEF F, V
  <2>2. QED  BY <1>1, <2>1, TreeRecursion
<1>3. \A n \in Node : f[link[n][0]] \in V /\ f[link[n][1]] \in V
  BY DEF Tree
<1>4. P(f)
  <2>1. \A n \in Node : f[n] = f[link[n][0]] \o <<n>> \o f[link[n][1]]
    BY <1>2, <1>3 DEF Recurs
  <2>2. f[NULL] = <<>> /\ NULL \notin Node
    BY <1>2 DEF Recurs, Tree
  <2> HIDE DEF V, F
  <2>3. QED  BY <2>1, <2>2 DEF InorderStep
<1>5. P(CHOOSE g : P(g))
  <2> HIDE DEF P
  <2> QED  BY <1>4
<1>6. inorder = CHOOSE g : P(g)
  BY DEF inorder, InorderStep
<1>7. QED
  <2>1. P(inorder)
    <3> HIDE DEF P
    <3> QED  BY <1>5, <1>6
  <2>2. QED  BY <2>1

(* A sequence of the elements of M in increasing order.                    *)
Lists(w, M) ==
  /\ w \in Seq(M)
  /\ \A m \in M : \E j \in 1..Len(w) : w[j] = m
  /\ \A i, j \in 1..Len(w) : i < j => w[i] < w[j]

LEMMA InorderLists ==
  ASSUME NEW S, Tree(link, root, Node, S)
  PROVE  \A n \in Node \cup {NULL} : Lists(inorder[n], S[n])
<1> DEFINE P == {n \in Node \cup {NULL} : Lists(inorder[n], S[n])}
<1>1. NULL \in P
  <2>1. inorder[NULL] = <<>> /\ S[NULL] = {}
    <3>1. inorder = InorderStep(inorder)
      BY InorderDef
    <3>2. inorder[NULL] = <<>>
      BY ONLY <3>1 DEF InorderStep
    <3>3. QED  BY <3>2 DEF Tree
  <2>2. Lists(<<>>, {})
    BY DEF Lists
  <2>3. QED  BY <2>1, <2>2
<1>2. ASSUME NEW n \in Node, link[n][0] \in P, link[n][1] \in P  PROVE n \in P
  <2> DEFINE v == inorder[link[n][0]]
             w == inorder[link[n][1]]
             x == v \o <<n>> \o w
             A == S[link[n][0]]
             B == S[link[n][1]]
  <2>1. inorder[n] = x
    <3>1. n # NULL
      BY DEF Tree
    <3>2. QED  BY <3>1, InorderDef DEF InorderStep
  <2>2. /\ S[n] = A \cup {n} \cup B /\ S[n] \subseteq Int
        /\ \A m \in A : m < n
        /\ \A m \in B : n < m
    <3>1. S[n] = A \cup {n} \cup B /\ S[n] \subseteq Int
      BY DEF Tree
    <3>2. (\A m \in A : Beside(m, 0, n)) /\ (\A m \in B : Beside(m, 1, n))
      BY DEF Tree
    <3>3. QED  BY <3>1, <3>2 DEF Beside, side
  <2>3. Lists(v, A) /\ Lists(w, B)
    BY <1>2
  <2>4. v \in Seq(S[n]) /\ w \in Seq(S[n]) /\ Len(v) \in Nat /\ Len(w) \in Nat
    <3>1. v \in Seq(A) /\ w \in Seq(B)
      BY <2>3 DEF Lists
    <3> HIDE DEF v, w, A, B
    <3>2. QED  BY <3>1, <2>2, SeqMonotonic, LenProperties
  <2> HIDE DEF v, w, A, B
  <2>5. /\ x \in Seq(S[n]) /\ Len(x) = Len(v) + 1 + Len(w)
        /\ \A j \in 1..(Len(v) + 1 + Len(w)) :
              x[j] = IF j <= Len(v) THEN v[j]
                     ELSE IF j = Len(v) + 1 THEN n ELSE w[j - (Len(v) + 1)]
    BY <2>2, <2>4, Around
  <2> HIDE DEF x
  <2>6. \A m \in S[n] : \E j \in 1..Len(x) : x[j] = m
    <3>1. ASSUME NEW m \in A  PROVE \E j \in 1..Len(x) : x[j] = m
      <4>1. PICK j \in 1..Len(v) : v[j] = m
        BY <2>3 DEF Lists
      <4>2. j \in 1..(Len(v) + 1 + Len(w)) /\ x[j] = m
        BY <4>1, <2>4, <2>5
      <4>3. QED  BY <4>2, <2>5
    <3>2. ASSUME NEW m \in B  PROVE \E j \in 1..Len(x) : x[j] = m
      <4>1. PICK j \in 1..Len(w) : w[j] = m
        BY <2>3 DEF Lists
      <4>2. /\ j + (Len(v) + 1) \in 1..(Len(v) + 1 + Len(w))
            /\ x[j + (Len(v) + 1)] = w[(j + (Len(v) + 1)) - (Len(v) + 1)]
            /\ (j + (Len(v) + 1)) - (Len(v) + 1) = j
        <5> DEFINE l == Len(v)
                   h == Len(w)
        <5>1. l \in Nat /\ h \in Nat /\ j \in 1..h
          BY <2>4
        <5>2. \A i \in 1..(l + 1 + h) :
                x[i] = IF i <= l THEN v[i] ELSE IF i = l + 1 THEN n ELSE w[i - (l + 1)]
          BY ONLY <2>5
        <5> HIDE DEF l, h
        <5>3. /\ j + (l + 1) \in 1..(l + 1 + h) /\ (j + (l + 1)) - (l + 1) = j
              /\ ~(j + (l + 1) <= l) /\ j + (l + 1) # l + 1
          BY ONLY <5>1
        <5>4. x[j + (l + 1)] = w[(j + (l + 1)) - (l + 1)]
          BY ONLY <5>2, <5>3
        <5>5. QED  BY ONLY <5>3, <5>4 DEF l, h
      <4>3. QED  BY <4>1, <4>2, <2>5
    <3>3. Len(v) + 1 \in 1..Len(x) /\ x[Len(v) + 1] = n
      BY <2>4, <2>5
    <3>4. QED  BY <3>1, <3>2, <3>3, <2>2
  <2>7. \A i, j \in 1..Len(x) : i < j => x[i] < x[j]
    <3>1. (\A i \in 1..Len(v) : v[i] \in A) /\ (\A i \in 1..Len(w) : w[i] \in B)
      BY <2>3, ElementOfSeq DEF Lists
    <3>2. /\ \A i, j \in 1..Len(v) : i < j => v[i] < v[j]
          /\ \A i, j \in 1..Len(w) : i < j => w[i] < w[j]
      BY <2>3 DEF Lists
    <3> SUFFICES ASSUME NEW i \in 1..Len(x), NEW j \in 1..Len(x), i < j
                 PROVE  x[i] < x[j]
      OBVIOUS
    <3> DEFINE L == Len(v) + 1
    <3>3. /\ i \in Int /\ j \in Int /\ L \in Nat
          /\ i <= Len(v) => i \in 1..Len(v) /\ x[i] = v[i] /\ x[i] \in A
          /\ j <= Len(v) => j \in 1..Len(v) /\ x[j] = v[j]
          /\ i = L => x[i] = n
          /\ j = L => x[j] = n
          /\ i > L => i - L \in 1..Len(w) /\ x[i] = w[i - L]
          /\ j > L => j - L \in 1..Len(w) /\ x[j] = w[j - L] /\ x[j] \in B
      BY <2>4, <2>5, <3>1
    <3>4. CASE j <= Len(v)
      BY <3>2, <3>3, <3>4
    <3>5. CASE i > L
      BY <3>2, <3>3, <3>5
    <3>6. CASE i <= L /\ j >= L
      <4>1. (i < L => x[i] < n) /\ (i = L => x[i] = n)
        BY <3>3, <3>6, <2>2, <2>4
      <4>2. (j > L => n < x[j]) /\ (j = L => x[j] = n)
        BY <3>3, <3>6, <2>2, <2>4
      <4>3. n \in Int /\ (i < L => x[i] \in Int) /\ (j > L => x[j] \in Int)
        BY <3>3, <2>2, <2>4
      <4>4. QED  BY <4>1, <4>2, <4>3, <3>3, <3>6
    <3>7. QED  BY <3>3, <3>4, <3>5, <3>6, <2>4
  <2>8. QED  BY <2>1, <2>5, <2>6, <2>7 DEF Lists
<1>3. Node \cup {NULL} \subseteq P
  <2> HIDE DEF P
  <2> QED  BY <1>1, <1>2, TreeInduct
<1>4. QED  BY <1>3

LEMMA TreeIsSorted ==
  ASSUME TypeOK, keys = Node, NEW S, Tree(link, root, Node, S)
  PROVE  Sorted
<1> DEFINE w == inorder[root]
<1>1. Lists(w, keys)
  BY InorderLists DEF Tree
<1> HIDE DEF w
<1>2. Len(w) \in Nat /\ DOMAIN w = 1..Len(w) /\ \A j \in 1..Len(w) : w[j] \in keys
  BY <1>1, LenProperties, ElementOfSeq DEF Lists
<1>3. ToSet(w) = keys
  BY <1>1, <1>2 DEF Lists, ToSet
<1>4. \A j \in 2..Len(w) : w[j - 1] < w[j]
  BY <1>1, <1>2 DEF Lists
<1>5. QED  BY <1>3, <1>4 DEF Sorted, w

-----------------------------------------------------------------------------
(* The descents.                                                           *)
LEMMA Prefixed ==
  ASSUME NEW N, NEW n \in N, NEW w \in Seq(N)
  PROVE  /\ <<n>> \o w \in Seq(N) /\ Len(<<n>> \o w) = 1 + Len(w)
         /\ Len(w) \in Nat /\ (<<n>> \o w)[1] = n
         /\ \A j \in 1..Len(w) : (<<n>> \o w)[j + 1] = w[j]
<1>1. <<n>> \in Seq(N) /\ Len(<<n>>) = 1 /\ <<n>>[1] = n
  BY Single
<1>2. Len(w) \in Nat
  BY LenProperties
<1>3. /\ <<n>> \o w \in Seq(N) /\ Len(<<n>> \o w) = 1 + Len(w)
      /\ \A j \in 1..(1 + Len(w)) :
           (<<n>> \o w)[j] = IF j <= 1 THEN <<n>>[j] ELSE w[j - 1]
  BY <1>1, ConcatProperties
<1>4. (<<n>> \o w)[1] = n
  BY <1>1, <1>2, <1>3
<1>5. ASSUME NEW j \in 1..Len(w)  PROVE (<<n>> \o w)[j + 1] = w[j]
  BY <1>2, <1>3
<1>6. QED  BY <1>2, <1>3, <1>4, <1>5

DownStep(f, k) ==
  [n \in Node \cup {NULL} |->
     IF n = NULL \/ n = k THEN <<>> ELSE <<n>> \o f[link[n][side(k, n)]]]

LEMMA DownDef ==
  ASSUME NEW S, Tree(link, root, Node, S), NEW k
  PROVE  \E f : f = DownStep(f, k) /\ \A n : down(k, n) = f[n]
<1> DEFINE V == Seq(Node)
           F == [n \in Node |-> [v \in V |-> [w \in V |->
                   IF n = k THEN <<>>
                   ELSE <<n>> \o (IF side(k, n) = 1 THEN w ELSE v)]]]
           P(f) == f = DownStep(f, k)
<1>1. F \in [Node -> [V -> [V -> V]]]
  BY Prefixed
<1>2. PICK f \in [Node \cup {NULL} -> V] : Recurs(f, link, Node, F, <<>>, Node)
  <2>1. <<>> \in V
    OBVIOUS
  <2> HIDE DEF F, V
  <2>2. QED  BY <1>1, <2>1, TreeRecursion
<1>3. \A n \in Node : f[link[n][0]] \in V /\ f[link[n][1]] \in V
  BY DEF Tree
<1>4. P(f)
  <2>1. ASSUME NEW n \in Node
        PROVE  f[n] = IF n = k THEN <<>> ELSE <<n>> \o f[link[n][side(k, n)]]
    <3>1. f[n] = IF n = k THEN <<>>
                 ELSE <<n>> \o (IF side(k, n) = 1 THEN f[link[n][1]] ELSE f[link[n][0]])
      BY <1>2, <1>3 DEF Recurs
    <3>2. QED  BY <3>1 DEF side
  <2>2. f[NULL] = <<>> /\ NULL \notin Node
    BY <1>2 DEF Recurs, Tree
  <2> HIDE DEF V, F
  <2>3. QED  BY <2>1, <2>2 DEF DownStep
<1>5. P(CHOOSE g : P(g))
  <2> HIDE DEF P
  <2> QED  BY <1>4
<1>6. \A n : down(k, n) = (CHOOSE g : P(g))[n]
  BY DEF down, DownStep
<1>7. QED
  <2> DEFINE d == CHOOSE g : P(g)
  <2>1. P(d) /\ \A n : down(k, n) = d[n]
    BY <1>5, <1>6
  <2> HIDE DEF d
  <2>2. QED  BY <2>1

(* w are the nodes passed on the way from n down to where k is, if it is   *)
(* in M, or else should be.                                                *)
Way(w, k, n, M) ==
  /\ w \in Seq(Node)
  /\ w = <<>> <=> n = NULL \/ n = k
  /\ w # <<>> => w[1] = n
  /\ \A j \in 1..Len(w) :
       w[j] # k /\ link[w[j]][side(k, w[j])] = IF j < Len(w) THEN w[j + 1]
                                               ELSE IF k \in M THEN k ELSE NULL

LEMMA DownIs ==
  ASSUME NEW S, Tree(link, root, Node, S), NEW k \in Keys, NEW n \in Node \cup {NULL}
  PROVE  down(k, n) = IF n = NULL \/ n = k THEN <<>>
                      ELSE <<n>> \o down(k, link[n][side(k, n)])
<1>1. PICK f : f = DownStep(f, k) /\ \A m : down(k, m) = f[m]
  BY DownDef
<1>2. f[n] = IF n = NULL \/ n = k THEN <<>> ELSE <<n>> \o f[link[n][side(k, n)]]
  BY <1>1 DEF DownStep
<1>3. QED  BY <1>1, <1>2

LEMMA DownIsWay ==
  ASSUME NEW S, Tree(link, root, Node, S), NEW k \in Keys
  PROVE  \A n \in Node \cup {NULL} : Way(down(k, n), k, n, S[n])
<1> DEFINE P == {n \in Node \cup {NULL} : Way(down(k, n), k, n, S[n])}
<1>1. ASSUME NEW n \in Node \cup {NULL}
      PROVE  down(k, n) = IF n = NULL \/ n = k THEN <<>>
                          ELSE <<n>> \o down(k, link[n][side(k, n)])
  BY DownIs
<1>2. Way(<<>>, k, NULL, S[NULL]) /\ Way(<<>>, k, k, S[k])
  BY DEF Way
<1>3. NULL \in P
  BY <1>1, <1>2
<1>4. ASSUME NEW n \in Node, link[n][0] \in P, link[n][1] \in P  PROVE n \in P
  <2>1. CASE n = k
    BY <1>1, <1>2, <2>1
  <2>2. CASE n # k
    <3> DEFINE s == side(k, n)
               c == link[n][s]
               w == down(k, c)
               v == <<n>> \o w
    <3>1. n # NULL /\ Node \subseteq Int /\ k \in Int
      BY RBTreeAssumption DEF Tree
    <3>2. down(k, n) = v
      BY <1>1, <2>2, <3>1
    <3>3. c \in P /\ c \in Node \cup {NULL}
      BY <1>4 DEF side
    <3>4. Way(w, k, c, S[c])
      BY <3>3
    <3>5. k \in S[n] <=> k \in S[c]
      <4>1. S[n] = S[link[n][0]] \cup {n} \cup S[link[n][1]]
        BY DEF Tree
      <4>2. (\A m \in S[link[n][0]] : Beside(m, 0, n)) /\ (\A m \in S[link[n][1]] : Beside(m, 1, n))
        BY DEF Tree
      <4>3. QED  BY <4>1, <4>2, <2>2 DEF side, Beside
    <3>6. c = k => k \in S[c]
      <4>1. c = k => c \in Node
        BY <3>3, <3>1, RBTreeAssumption
      <4>2. \A m \in Node : m \in S[m]
        BY DEF Tree
      <4>3. QED  BY <4>1, <4>2
    <3>7. c = NULL => S[c] = {}
      BY DEF Tree
    <3> HIDE DEF P, w, c
    <3>8. /\ v \in Seq(Node) /\ Len(v) = 1 + Len(w) /\ Len(w) \in Nat /\ v[1] = n
          /\ \A j \in 1..Len(w) : v[j + 1] = w[j]
      BY <3>4, Prefixed DEF Way
    <3> HIDE DEF v
    <3>9. w = <<>> <=> Len(w) = 0
      BY <3>4, EmptySeq DEF Way
    <3>10. ASSUME NEW j \in 1..Len(v)
           PROVE  v[j] # k /\ link[v[j]][side(k, v[j])] =
                    IF j < Len(v) THEN v[j + 1] ELSE IF k \in S[n] THEN k ELSE NULL
      <4>1. CASE j = 1 /\ w = <<>>
        <5>1. c = IF k \in S[n] THEN k ELSE NULL
          BY <3>4, <3>5, <3>6, <3>7, <4>1 DEF Way
        <5>2. v[j] = n /\ ~(j < Len(v))
          BY <3>8, <3>9, <4>1
        <5>3. QED  BY <5>1, <5>2, <2>2 DEF c
      <4>2. CASE j = 1 /\ w # <<>>
        <5>1. w[1] = c /\ v[2] = w[1]
          <6>1. w[1] = c /\ 1 \in 1..Len(w)
            BY <3>4, <3>8, <3>9, <4>2 DEF Way
          <6>2. v[1 + 1] = w[1]
            BY <6>1, <3>8
          <6>3. QED  BY <6>1, <6>2
        <5>2. v[j] = n /\ j < Len(v) /\ j + 1 = 2
          BY <3>8, <3>9, <4>2
        <5>3. QED  BY <5>1, <5>2, <2>2 DEF c
      <4>3. CASE j > 1
        <5> DEFINE i == j - 1
        <5>1. i \in 1..Len(w) /\ j = i + 1 /\ (j < Len(v) <=> i < Len(w))
          BY <3>8, <4>3
        <5> HIDE DEF i
        <5>2. v[j] = w[i] /\ (i < Len(w) => v[j + 1] = w[i + 1])
          <6>1. v[i + 1] = w[i]
            BY <3>8, <5>1
          <6>2. i < Len(w) => i + 1 \in 1..Len(w)
            BY <5>1, <3>8
          <6>3. i < Len(w) => v[(i + 1) + 1] = w[i + 1]
            BY <6>2, <3>8
          <6>4. QED  BY <6>1, <6>3, <5>1
        <5>3. w[i] # k /\ link[w[i]][side(k, w[i])] =
                IF i < Len(w) THEN w[i + 1] ELSE IF k \in S[c] THEN k ELSE NULL
          BY <3>4, <5>1 DEF Way
        <5>4. QED  BY <5>1, <5>2, <5>3, <3>5
      <4>4. QED  BY <4>1, <4>2, <4>3, <3>8
    <3>11. v # <<>>
      BY <3>8
    <3>12. Way(v, k, n, S[n])
      BY <3>8, <3>10, <3>11, <3>1, <2>2 DEF Way
    <3>13. QED  BY <3>2, <3>12 DEF P
  <2>3. QED  BY <2>1, <2>2
<1>5. Node \cup {NULL} \subseteq P
  <2> HIDE DEF P
  <2> QED  BY <1>3, <1>4, TreeInduct
<1>6. QED  BY <1>5

SpineStep(f) ==
  [n \in Node |-> <<n>> \o IF link[n][0] = NULL THEN <<>> ELSE f[link[n][0]]]

LEMMA SpineDef ==
  ASSUME NEW S, Tree(link, root, Node, S)
  PROVE  spine = SpineStep(spine)
<1> DEFINE V == Seq(Node)
           F == [n \in Node |-> [v \in V |-> [w \in V |-> <<n>> \o v]]]
           P(f) == f = SpineStep(f)
<1>1. F \in [Node -> [V -> [V -> V]]]
  BY Prefixed
<1>2. PICK f \in [Node \cup {NULL} -> V] : Recurs(f, link, Node, F, <<>>, Node)
  <2>1. <<>> \in V
    OBVIOUS
  <2> HIDE DEF F, V
  <2>2. QED  BY <1>1, <2>1, TreeRecursion
<1>3. /\ NULL \notin Node
      /\ \A n \in Node : /\ link[n][0] \in Node \cup {NULL}
                         /\ f[link[n][0]] \in V /\ f[link[n][1]] \in V
  BY DEF Tree
<1> DEFINE g == [n \in Node |-> f[n]]
<1>4. P(g)
  <2> SUFFICES ASSUME NEW n \in Node
               PROVE  f[n] = <<n>> \o IF link[n][0] = NULL THEN <<>> ELSE g[link[n][0]]
    BY DEF SpineStep
  <2>1. f[n] = <<n>> \o f[link[n][0]]
    BY <1>2, <1>3 DEF Recurs
  <2>2. f[NULL] = <<>>
    BY <1>2 DEF Recurs
  <2>3. link[n][0] # NULL => g[link[n][0]] = f[link[n][0]]
    BY <1>3
  <2> HIDE DEF g
  <2>4. QED  BY <2>1, <2>2, <2>3
<1>5. P(CHOOSE h : P(h))
  <2> HIDE DEF P, g
  <2> QED  BY <1>4
<1>6. spine = CHOOSE h : P(h)
  BY DEF spine, SpineStep
<1>7. QED
  <2>1. P(spine)
    <3> HIDE DEF P
    <3> QED  BY <1>5, <1>6
  <2>2. QED  BY <2>1

(* w are the nodes from n down the left side to the least one of M.        *)
LeftSide(w, n, M) ==
  /\ w \in Seq(M) /\ Len(w) \in Nat \ {0} /\ w[1] = n
  /\ \A j \in 1..Len(w) : link[w[j]][0] = IF j < Len(w) THEN w[j + 1] ELSE NULL
  /\ \A m \in M : m # w[Len(w)] => w[Len(w)] < m

LEMMA SpineIsLeftSide ==
  ASSUME NEW S, Tree(link, root, Node, S)
  PROVE  \A n \in Node : LeftSide(spine[n], n, S[n])
<1> DEFINE P == {n \in Node \cup {NULL} : n # NULL => LeftSide(spine[n], n, S[n])}
<1>1. NULL \in P
  OBVIOUS
<1>2. ASSUME NEW n \in Node, link[n][0] \in P, link[n][1] \in P  PROVE n \in P
  <2> DEFINE c == link[n][0]
             w == IF c = NULL THEN <<>> ELSE spine[c]
             v == <<n>> \o w
             b == v[Len(v)]
  <2>1. /\ spine[n] = v
        /\ S[c] \subseteq S[n] /\ n \in S[n] /\ S[n] \subseteq Int
        /\ \A m \in S[n] : m \in S[c] \/ m = n \/ n < m
        /\ \A m \in S[c] : m < n
        /\ c # NULL => c \in S[c] /\ LeftSide(w, c, S[c])
        /\ c = NULL => S[c] = {}
    <3>1. spine[n] = v
      BY SpineDef DEF SpineStep
    <3>2. S[n] = S[c] \cup {n} \cup S[link[n][1]] /\ S[n] \subseteq Int
      BY DEF Tree
    <3>3. (\A m \in S[c] : Beside(m, 0, n)) /\ (\A m \in S[link[n][1]] : Beside(m, 1, n))
      BY DEF Tree
    <3>4. (\A m \in S[c] : m < n) /\ (\A m \in S[link[n][1]] : n < m)
      BY <3>2, <3>3 DEF Beside, side
    <3>5. c # NULL => c \in Node /\ LeftSide(w, c, S[c])
      BY <1>2
    <3>6. (\A m \in Node : m \in S[m]) /\ S[NULL] = {}
      BY DEF Tree
    <3> HIDE DEF c, w, v
    <3>7. QED  BY <3>1, <3>2, <3>4, <3>5, <3>6
  <2>2. c = NULL => link[n][0] = NULL
    OBVIOUS
  <2>3. CASE c = NULL
    <3>1. v = <<n>> /\ b = n
      <4>1. v = <<n>>
        BY <2>3
      <4>2. QED  BY <4>1
    <3>2. LeftSide(<<n>>, n, S[n])
      <4>1. /\ n \in S[n] /\ link[n][0] = NULL
            /\ \A m \in S[n] : m # n => n < m
        BY <2>1, <2>3
      <4>2. <<n>> \in Seq(S[n]) /\ Len(<<n>>) = 1 /\ <<n>>[1] = n
        BY <4>1, Single
      <4> DEFINE u == <<n>>
      <4> HIDE DEF u
      <4>3. u \in Seq(S[n]) /\ Len(u) = 1 /\ u[1] = n
        BY <4>2 DEF u
      <4>4. LeftSide(u, n, S[n])
        BY ONLY <4>1, <4>3 DEF LeftSide
      <4>5. QED  BY <4>4 DEF u
    <3>3. QED  BY <2>1, <3>1, <3>2
  <2>4. CASE c # NULL
    <3>1. LeftSide(w, c, S[c])
      BY <2>1, <2>4
    <3> HIDE DEF w
    <3>2. w \in Seq(S[n]) /\ Len(w) \in Nat \ {0}
      BY <3>1, <2>1, SeqMonotonic DEF LeftSide
    <3>3. /\ v \in Seq(S[n]) /\ Len(v) = 1 + Len(w) /\ v[1] = n
          /\ \A j \in 1..Len(w) : v[j + 1] = w[j]
      <4>1. n \in S[n] /\ w \in Seq(S[n])
        BY <2>1, <3>2
      <4>2. QED  BY ONLY <4>1, Prefixed
    <3> HIDE DEF v, c, P
    <3>4. b = w[Len(w)] /\ b \in S[c]
      <4>1. Len(w) \in 1..Len(w) /\ Len(v) = Len(w) + 1
        BY <3>2, <3>3
      <4>2. w[Len(w)] \in S[c]
        BY <4>1, <3>1, ElementOfSeq DEF LeftSide
      <4>3. QED  BY <4>1, <4>2, <3>3
    <3>5. ASSUME NEW j \in 1..Len(v)
          PROVE  link[v[j]][0] = IF j < Len(v) THEN v[j + 1] ELSE NULL
      <4>1. CASE j = 1
        <5>1. v[1 + 1] = w[1] /\ w[1] = c
          BY <3>1, <3>2, <3>3 DEF LeftSide
        <5>2. QED  BY <4>1, <5>1, <3>2, <3>3 DEF c
      <4>2. CASE j > 1
        <5> DEFINE i == j - 1
        <5>1. i \in 1..Len(w) /\ j = i + 1 /\ (j < Len(v) <=> i < Len(w))
          BY <3>2, <3>3, <4>2
        <5> HIDE DEF i
        <5>2. v[i + 1] = w[i] /\ (i < Len(w) => v[(i + 1) + 1] = w[i + 1])
          <6>1. i < Len(w) => i + 1 \in 1..Len(w)
            BY <5>1, <3>2
          <6>2. QED  BY <6>1, <5>1, <3>3
        <5>3. link[w[i]][0] = IF i < Len(w) THEN w[i + 1] ELSE NULL
          BY <3>1, <5>1 DEF LeftSide
        <5>4. QED  BY <5>1, <5>2, <5>3
      <4>3. QED  BY <4>1, <4>2, <3>2, <3>3
    <3>6. \A m \in S[n] : m # b => b < m
      <4>1. b \in Int /\ n \in Int /\ b < n
        BY <3>4, <2>1
      <4>2. \A m \in S[c] : m # b => b < m
        BY <3>1, <3>4 DEF LeftSide
      <4> HIDE DEF b
      <4>3. QED  BY <4>1, <4>2, <2>1
    <3>7. LeftSide(v, n, S[n])
      <4>1. Len(v) \in Nat \ {0}
        BY ONLY <3>2, <3>3
      <4>2. \A m \in S[n] : m # v[Len(v)] => v[Len(v)] < m
        BY ONLY <3>6
      <4>3. QED  BY ONLY <4>1, <4>2, <3>3, <3>5 DEF LeftSide
    <3>8. QED  BY <2>1, <3>7 DEF P
  <2>5. QED  BY <2>3, <2>4
<1>3. Node \cup {NULL} \subseteq P
  <2> HIDE DEF P
  <2> QED  BY <1>1, <1>2, TreeInduct
<1>4. QED
  <2>1. NULL \notin Node
    BY DEF Tree
  <2>2. QED  BY <1>3, <2>1

-----------------------------------------------------------------------------
(* Rotations.                                                              *)

(* The child of x on side s has taken its place.                           *)
Rotated(lk, r, x, s, lk2, r2) ==
  LET y == lk[x][s]
  IN  \/ x = r /\ r2 = y /\ lk2 = Raise(lk, x, s)
      \/ /\ x # r /\ r2 = r
         /\ \E p \in DOMAIN lk, d \in 0..1 :
              lk[p][d] = x /\ lk2 = [Raise(lk, x, s) EXCEPT ![p][d] = y]

Turned(S, lk, x, s) ==
  [S EXCEPT ![lk[x][s]] = S[x],
            ![x] = S[lk[x][1 - s]] \cup {x} \cup S[lk[lk[x][s]][1 - s]]]

(* The links after the rotation, one by one.                               *)
Relinked(lk, r, N, x, s, lk2, r2) ==
  LET y == lk[x][s]
  IN  /\ lk2 \in [N -> [0..1 -> N \cup {NULL}]]
      /\ r2 = IF x = r THEN y ELSE r
      /\ lk2[x][s] = lk[y][1 - s] /\ lk2[x][1 - s] = lk[x][1 - s]
      /\ lk2[y][1 - s] = x /\ lk2[y][s] = lk[y][s]
      /\ \A n \in N \ {x, y}, t \in 0..1 :
           lk2[n][t] = IF lk[n][t] = x THEN y ELSE lk[n][t]

(* The nodes that take part in a rotation are different.                   *)
LEMMA Family ==
  ASSUME NEW lk, NEW r, NEW N, NEW S, Tree(lk, r, N, S), NEW x \in N, NEW s \in 0..1,
         NEW y, y = lk[x][s], y # NULL
  PROVE  /\ y \in N /\ y # x /\ Beside(y, s, x) /\ 1 - s \in 0..1 /\ s # 1 - s
         /\ lk[x][1 - s] \notin {x, y} /\ lk[y][1 - s] \notin {x, y} /\ lk[y][s] \notin {x, y}
         /\ \A d \in 0..1 : lk[x][d] # x /\ lk[y][d] # x
         /\ S[x] = S[lk[x][1 - s]] \cup {x} \cup S[y]
         /\ S[y] = S[lk[y][1 - s]] \cup {y} \cup S[lk[y][s]]
<1>1. 1 - s \in 0..1 /\ s # 1 - s /\ 1 - (1 - s) = s
  BY Sides
<1>2. y \in N /\ S[x] = S[lk[x][s]] \cup {x} \cup S[lk[x][1 - s]] /\ x \notin S[y]
      /\ S[y] = S[lk[y][s]] \cup {y} \cup S[lk[y][1 - s]]
  <2>1. y \in N
    BY Below
  <2>2. QED  BY <2>1, Below
<1>3. \A m \in N, d \in 0..1 : m \notin S[lk[m][d]] /\ S[lk[m][d]] \subseteq S[m]
  BY Below
<1>4. \A m \in N : m \in S[m]
  BY DEF Tree
<1>5. y \in S[lk[x][s]] /\ Beside(y, s, x)
  <2>1. y \in S[lk[x][s]]
    BY <1>2, <1>4
  <2>2. QED  BY <2>1 DEF Tree
<1>6. lk[x][1 - s] # y
  BY <1>1 DEF Tree
<1>7. QED  BY <1>1, <1>2, <1>3, <1>4, <1>5, <1>6

LEMMA RotatedIsRelinked ==
  ASSUME NEW lk, NEW r, NEW N, NEW S, Tree(lk, r, N, S), NEW x \in N, NEW s \in 0..1,
         lk[x][s] # NULL, NEW lk2, NEW r2, Rotated(lk, r, x, s, lk2, r2)
  PROVE  Relinked(lk, r, N, x, s, lk2, r2)
<1> DEFINE y == lk[x][s]
           lk1 == Raise(lk, x, s)
<1>1. /\ y \in N /\ y # x /\ 1 - s \in 0..1 /\ s # 1 - s
      /\ \A d \in 0..1 : lk[x][d] # x /\ lk[y][d] # x
  BY Family
<1>2. lk \in [N -> [0..1 -> N \cup {NULL}]]
  BY DEF Tree
<1>3. /\ lk1 \in [N -> [0..1 -> N \cup {NULL}]]
      /\ lk1[x][s] = lk[y][1 - s] /\ lk1[x][1 - s] = lk[x][1 - s]
      /\ lk1[y][1 - s] = x /\ lk1[y][s] = lk[y][s]
      /\ \A n \in N \ {x, y} : lk1[n] = lk[n]
  BY <1>1, <1>2 DEF Raise
<1> HIDE DEF lk1, y
<1>4. CASE x = r
  <2>1. lk2 = lk1 /\ r2 = y
    BY <1>4 DEF Rotated, y, lk1
  <2>2. \A n \in N, t \in 0..1 : lk[n][t] # x
    BY <1>4, RootOnTop
  <2>3. QED  BY <2>1, <2>2, <1>3, <1>4 DEF Relinked, y
<1>5. CASE x # r
  <2>1. PICK p \in N, d \in 0..1 : lk[p][d] = x /\ lk2 = [lk1 EXCEPT ![p][d] = y] /\ r2 = r
    BY <1>5, <1>2 DEF Rotated, y, lk1
  <2>2. p \notin {x, y}
    BY <2>1, <1>1
  <2>3. \A n \in N, t \in 0..1 : lk[n][t] = x => n = p /\ t = d
    <3>1. x # NULL
      BY DEF Tree
    <3>2. QED  BY <2>1, <3>1 DEF Tree
  <2>4. lk2 \in [N -> [0..1 -> N \cup {NULL}]]
    BY <2>1, <1>1, <1>3
  <2>5. \A n \in N \ {p} : lk2[n] = lk1[n]
    BY <2>1, <1>3
  <2>6. \A t \in 0..1 : lk2[p][t] = IF t = d THEN y ELSE lk1[p][t]
    BY <2>1, <1>3
  <2>7. \A n \in N \ {x, y}, t \in 0..1 :
          lk2[n][t] = IF lk[n][t] = x THEN y ELSE lk[n][t]
    BY <2>1, <2>2, <2>3, <2>5, <2>6, <1>3
  <2>8. /\ lk2[x][s] = lk[y][1 - s] /\ lk2[x][1 - s] = lk[x][1 - s]
        /\ lk2[y][1 - s] = x /\ lk2[y][s] = lk[y][s]
    BY <2>2, <2>5, <1>1, <1>3
  <2>9. QED  BY <2>1, <2>4, <2>7, <2>8, <1>5 DEF Relinked, y
<1>6. QED  BY <1>4, <1>5

LEMMA RotationKeepsTree ==
  ASSUME NEW lk, NEW r, NEW N, NEW S, Tree(lk, r, N, S), NEW x \in N, NEW s \in 0..1,
         lk[x][s] # NULL, NEW lk2, NEW r2, Relinked(lk, r, N, x, s, lk2, r2)
  PROVE  Tree(lk2, r2, N, Turned(S, lk, x, s))
<1> DEFINE y == lk[x][s]
           a == lk[x][1 - s]
           b == lk[y][1 - s]
           c == lk[y][s]
           T == Turned(S, lk, x, s)
<1>1. /\ y \in N /\ y # x /\ Beside(y, s, x) /\ 1 - s \in 0..1 /\ s # 1 - s
      /\ a \notin {x, y} /\ b \notin {x, y} /\ c \notin {x, y}
      /\ \A d \in 0..1 : lk[x][d] # x /\ lk[y][d] # x
      /\ S[x] = S[a] \cup {x} \cup S[y]
      /\ S[y] = S[b] \cup {y} \cup S[c]
  <2>1. y = lk[x][s] /\ y # NULL /\ a = lk[x][1 - s] /\ b = lk[y][1 - s] /\ c = lk[y][s]
    OBVIOUS
  <2> HIDE DEF y, a, b, c
  <2>2. /\ y \in N /\ y # x /\ Beside(y, s, x) /\ 1 - s \in 0..1 /\ s # 1 - s
        /\ \A d \in 0..1 : lk[x][d] # x /\ lk[y][d] # x
    BY <2>1, Family
  <2>3. lk[x][1 - s] \notin {x, y} /\ lk[y][1 - s] \notin {x, y} /\ lk[y][s] \notin {x, y}
    BY <2>1, Family
  <2>4. S[x] = S[lk[x][1 - s]] \cup {x} \cup S[y]
    BY <2>1, Family
  <2>5. S[y] = S[lk[y][1 - s]] \cup {y} \cup S[lk[y][s]]
    BY <2>1, Family
  <2>6. QED  BY <2>1, <2>2, <2>3, <2>4, <2>5
<1>2. /\ a \in N \cup {NULL} /\ b \in N \cup {NULL} /\ c \in N \cup {NULL}
      /\ lk \in [N -> [0..1 -> N \cup {NULL}]] /\ NULL \notin N /\ N \subseteq Int
      /\ S \in [N \cup {NULL} -> SUBSET N]
  <2>1. lk \in [N -> [0..1 -> N \cup {NULL}]]
    BY DEF Tree
  <2>2. a \in N \cup {NULL} /\ b \in N \cup {NULL} /\ c \in N \cup {NULL}
    BY <2>1, <1>1
  <2>3. QED  BY <2>1, <2>2 DEF Tree
<1>3. /\ T \in [N \cup {NULL} -> SUBSET N]
      /\ T[y] = S[x] /\ T[x] = S[a] \cup {x} \cup S[b]
      /\ \A n \in (N \cup {NULL}) \ {x, y} : T[n] = S[n]
  <2> HIDE DEF y, a, b, c
  <2>1. T = [S EXCEPT ![y] = S[x], ![x] = S[a] \cup {x} \cup S[b]]
    BY DEF Turned, y, a, b
  <2> HIDE DEF T
  <2>2. S[x] \subseteq N /\ S[a] \cup {x} \cup S[b] \subseteq N
    BY <1>2
  <2>3. QED  BY <2>1, <2>2, <1>1, <1>2
<1>4. /\ lk2 \in [N -> [0..1 -> N \cup {NULL}]]
      /\ r2 = IF x = r THEN y ELSE r
      /\ lk2[x][s] = b /\ lk2[x][1 - s] = a /\ lk2[y][1 - s] = x /\ lk2[y][s] = c
      /\ \A n \in N \ {x, y}, t \in 0..1 :
           lk2[n][t] = IF lk[n][t] = x THEN y ELSE lk[n][t]
  BY DEF Relinked
<1> HIDE DEF T
<1>5. \A n \in N \ {x, y}, t \in 0..1 : T[lk2[n][t]] = S[lk[n][t]]
  <2> SUFFICES ASSUME NEW n \in N \ {x, y}, NEW t \in 0..1
               PROVE  T[lk2[n][t]] = S[lk[n][t]]
    OBVIOUS
  <2>1. lk[n][t] # y
    <3>1. lk[n][t] = lk[x][s] => n = x \/ lk[n][t] = NULL
      BY DEF Tree
    <3>2. QED  BY <3>1
  <2>2. lk[n][t] \in N \cup {NULL}
    BY <1>2
  <2> HIDE DEF y
  <2>3. QED  BY <2>1, <2>2, <1>3, <1>4
<1>6. T[b] = S[b] /\ T[a] = S[a] /\ T[c] = S[c]
  BY <1>1, <1>2, <1>3
<1>7. \A n \in N : T[n] = T[lk2[n][0]] \cup {n} \cup T[lk2[n][1]]
  <2> SUFFICES ASSUME NEW n \in N  PROVE T[n] = T[lk2[n][0]] \cup {n} \cup T[lk2[n][1]]
    OBVIOUS
  <2>1. CASE n = x
    <3>1. T[n] = T[lk2[n][s]] \cup {n} \cup T[lk2[n][1 - s]]
      BY <2>1, <1>3, <1>4, <1>6
    <3>2. QED  BY <3>1, Sides
  <2>2. CASE n = y
    <3>1. T[n] = T[lk2[n][s]] \cup {n} \cup T[lk2[n][1 - s]]
      <4>1. T[y] = S[lk[x][1 - s]] \cup {x} \cup S[lk[y][1 - s]] \cup {y} \cup S[lk[y][s]]
        BY ONLY <1>1, <1>3
      <4>2. T[lk2[y][s]] = S[c] /\ T[lk2[y][1 - s]] = S[a] \cup {x} \cup S[b]
        BY ONLY <1>3, <1>4, <1>6
      <4>3. QED  BY ONLY <2>2, <4>1, <4>2
    <3>2. QED  BY <3>1, Sides
  <2>3. CASE n \notin {x, y}
    <3>1. T[n] = S[n] /\ S[n] = S[lk[n][0]] \cup {n} \cup S[lk[n][1]]
      BY <2>3, <1>3 DEF Tree
    <3>2. T[lk2[n][0]] = S[lk[n][0]] /\ T[lk2[n][1]] = S[lk[n][1]]
      BY <2>3, <1>5
    <3>3. QED  BY <3>1, <3>2
  <2>4. QED  BY <2>1, <2>2, <2>3
<1>8. \A n \in N, t \in 0..1 : \A m \in T[lk2[n][t]] : Beside(m, t, n)
  <2> SUFFICES ASSUME NEW n \in N, NEW t \in 0..1, NEW m \in T[lk2[n][t]]
               PROVE  Beside(m, t, n)
    OBVIOUS
  <2>1. \A i \in N, d \in 0..1 : \A j \in S[lk[i][d]] : Beside(j, d, i)
    BY DEF Tree
  <2>2. t = s \/ t = 1 - s
    BY Sides
  <2>3. CASE n = x
    <3>1. CASE t = s
      <4>1. m \in S[lk[x][s]]
        BY <2>3, <3>1, <1>1, <1>4, <1>6
      <4>2. QED  BY <4>1, <2>1, <2>3, <3>1
    <3>2. CASE t = 1 - s
      <4>1. m \in S[lk[x][1 - s]]
        BY <2>3, <3>2, <1>4, <1>6
      <4>2. QED  BY <4>1, <2>1, <2>3, <3>2
    <3>3. QED  BY <3>1, <3>2, <2>2
  <2>4. CASE n = y
    <3>1. CASE t = s
      <4>1. m \in S[lk[y][s]]
        BY <2>4, <3>1, <1>4, <1>6
      <4>2. QED  BY <4>1, <2>1, <2>4, <3>1, <1>1
    <3>2. CASE t = 1 - s
      <4>1. m \in S[lk[x][1 - s]] \/ m = x \/ m \in S[lk[y][1 - s]]
        BY <2>4, <3>2, <1>1, <1>3, <1>4
      <4>2. Beside(x, 1 - s, y)
        BY <1>1, <1>2, BesideInverse
      <4>3. CASE m \in S[lk[x][1 - s]]
        <5>1. Beside(m, 1 - s, x)
          BY <4>3, <2>1, <1>1
        <5>2. m \in Int /\ x \in Int /\ y \in Int /\ 1 - s \in 0..1
          BY <4>3, <1>1, <1>2
        <5> HIDE DEF y
        <5>3. QED  BY <5>1, <5>2, <4>2, <2>4, <3>2, BesideTransitive
      <4>4. CASE m \in S[lk[y][1 - s]]
        <5>1. Beside(m, 1 - s, y)
          BY ONLY <4>4, <2>1, <1>1
        <5>2. QED  BY ONLY <5>1, <2>4, <3>2
      <4>5. QED  BY <4>1, <4>2, <4>3, <4>4, <2>4, <3>2
    <3>3. QED  BY <3>1, <3>2, <2>2
  <2>5. CASE n \notin {x, y}
    <3>1. m \in S[lk[n][t]]
      BY <2>5, <1>5
    <3>2. QED  BY <3>1, <2>1
  <2>6. QED  BY <2>3, <2>4, <2>5
<1>9. ASSUME NEW n \in N, NEW m \in N, NEW t \in 0..1, NEW u \in 0..1,
             lk2[n][t] = lk2[m][u], lk2[n][t] # NULL
      PROVE  n = m /\ t = u
  <2> DEFINE v == lk2[n][t]
  <2>0. \A i \in 0..1 : i = s \/ i = 1 - s
    BY Sides
  <2>1. \A i, j \in N, d, e \in 0..1 :
          lk[i][d] = lk[j][e] /\ lk[i][d] # NULL => i = j /\ d = e
    BY DEF Tree
  <2>2. x # NULL /\ y # NULL /\ lk[x][s] = y /\ lk[x][1 - s] = a /\ lk[y][1 - s] = b
        /\ lk[y][s] = c
    BY <1>2
  <2> HIDE DEF y, a, b, c
  <2>3. \A i \in N, d \in 0..1 : lk2[i][d] = x => i = y /\ d = 1 - s
    BY <2>0, <1>1, <1>4
  <2>4. \A i \in N, d \in 0..1 : lk2[i][d] = y => i \in N \ {x, y} /\ lk[i][d] = x
    BY <2>0, <2>1, <2>2, <1>1, <1>4
  <2>5. \A i \in N, d \in 0..1 :
          lk2[i][d] \notin {x, y} =>
            lk2[i][d] = IF i = x /\ d = s THEN lk[y][1 - s]
                        ELSE lk[i][d]
    <3> SUFFICES ASSUME NEW i \in N, NEW d \in 0..1, lk2[i][d] \notin {x, y}
                 PROVE  lk2[i][d] = IF i = x /\ d = s THEN lk[y][1 - s] ELSE lk[i][d]
      OBVIOUS
    <3>1. CASE i \in {x, y}
      BY <3>1, <2>0, <2>2, <1>1, <1>4
    <3>2. CASE i \notin {x, y}
      BY <3>2, <1>4
    <3>3. QED  BY <3>1, <3>2
  <2>6. \A i \in N, d \in 0..1 : i = y /\ d = 1 - s => lk2[i][d] = x
    BY <1>4
  <2>7. CASE v = x
    BY <2>7, <2>3, <1>9
  <2>8. CASE v = y
    BY <2>8, <2>4, <2>1, <2>2, <1>9
  <2>9. CASE v \notin {x, y}
    <3>1. /\ v = IF n = x /\ t = s THEN lk[y][1 - s] ELSE lk[n][t]
          /\ v = IF m = x /\ u = s THEN lk[y][1 - s] ELSE lk[m][u]
          /\ ~(n = y /\ t = 1 - s) /\ ~(m = y /\ u = 1 - s) /\ v # NULL
      BY <2>9, <2>5, <2>6, <1>9
    <3> HIDE DEF v
    <3>2. QED  BY <3>1, <2>1, <1>1
  <2>10. QED  BY <2>7, <2>8, <2>9
<1>10. r2 \in N \cup {NULL} /\ T[r2] = N /\ T[NULL] = {}
  <2>1. r \in N \cup {NULL} /\ S[r] = N /\ S[NULL] = {}
    BY DEF Tree
  <2>2. r # y
    BY RootOnTop
  <2> HIDE DEF y
  <2>3. QED  BY <2>1, <2>2, <1>1, <1>2, <1>3, <1>4
<1>11. IsFiniteSet(N)
  BY DEF Tree
<1>12. QED
  <2>1. lk2 \in [N -> [0..1 -> N \cup {NULL}]] /\ T \in [N \cup {NULL} -> SUBSET N]
    BY <1>3, <1>4
  <2> HIDE DEF a, b, c, y
  <2>2. QED  BY ONLY <2>1, <1>2, <1>7, <1>8, <1>9, <1>10, <1>11 DEF Tree, T

-----------------------------------------------------------------------------
(* Insertion: a new leaf at the end of the way down.                       *)

(* Q are the nodes on the way down from the root to the place for k, and l *)
(* is the last of them.                                                    *)
Passed(lk, r, N, k, Q, l) ==
  /\ Q \subseteq N /\ (r # NULL => r \in Q /\ l \in Q) /\ (r = NULL => Q = {})
  /\ \A q \in Q : IF q = l THEN lk[q][side(k, q)] = NULL ELSE lk[q][side(k, q)] \in Q
  /\ \A n \in N, s \in 0..1 : lk[n][s] \in Q => n \in Q /\ s = side(k, n)

Grown(S, N, k, Q) ==
  [n \in N \cup {k, NULL} |->
     IF n = k THEN {k} ELSE IF n \in Q THEN S[n] \cup {k} ELSE S[n]]

LEMMA LeafKeepsTree ==
  ASSUME NEW lk, NEW r, NEW N, NEW S, Tree(lk, r, N, S), NEW k \in Int \ N, k # NULL,
         NEW Q, NEW l, Passed(lk, r, N, k, Q, l), NEW lk2,
         lk2 \in [N \cup {k} -> [0..1 -> N \cup {k, NULL}]],
         \A s \in 0..1 : lk2[k][s] = NULL,
         \A n \in N, s \in 0..1 :
           lk2[n][s] = IF n \in Q /\ n = l /\ s = side(k, n) THEN k ELSE lk[n][s]
  PROVE  Tree(lk2, IF r = NULL THEN k ELSE r, N \cup {k}, Grown(S, N, k, Q))
<1> DEFINE T == Grown(S, N, k, Q)
           M == N \cup {k}
           r2 == IF r = NULL THEN k ELSE r
<1>1. /\ N \subseteq Int /\ NULL \notin N /\ IsFiniteSet(N) /\ r \in N \cup {NULL}
      /\ lk \in [N -> [0..1 -> N \cup {NULL}]]
      /\ S \in [N \cup {NULL} -> SUBSET N] /\ S[NULL] = {} /\ S[r] = N
  BY DEF Tree
<1>2. M \subseteq Int /\ NULL \notin M /\ IsFiniteSet(M)
  BY <1>1, FS_AddElement
<1>3. /\ T \in [M \cup {NULL} -> SUBSET M]
      /\ T[k] = {k} /\ T[NULL] = {} /\ Q \subseteq N
      /\ \A n \in N \cup {NULL} : T[n] = IF n \in Q THEN S[n] \cup {k} ELSE S[n]
  <2>1. Q \subseteq N
    BY DEF Passed
  <2>2. T \in [M \cup {NULL} -> SUBSET M]
    BY <1>1, <2>1 DEF Grown
  <2>3. QED  BY <1>1, <2>1, <2>2 DEF Grown
<1> HIDE DEF T
<1>4. ASSUME NEW n \in N, NEW s \in 0..1
      PROVE  T[lk2[n][s]] = IF n \in Q /\ s = side(k, n) THEN S[lk[n][s]] \cup {k}
                            ELSE S[lk[n][s]]
  <2>1. lk[n][s] \in N \cup {NULL}
    BY <1>1
  <2>2. lk[n][s] \in Q => n \in Q /\ s = side(k, n)
    BY DEF Passed
  <2>3. CASE n \in Q /\ s = side(k, n) /\ n = l
    <3>1. lk[n][s] = NULL /\ lk2[n][s] = k
      BY <2>3 DEF Passed
    <3>2. QED  BY <3>1, <2>3, <1>1, <1>3
  <2>4. CASE n \in Q /\ s = side(k, n) /\ n # l
    <3>1. lk[n][s] \in Q /\ lk2[n][s] = lk[n][s]
      BY <2>4 DEF Passed
    <3>2. QED  BY <3>1, <2>1, <2>4, <1>3
  <2>5. CASE ~(n \in Q /\ s = side(k, n))
    <3>1. lk[n][s] \notin Q /\ lk2[n][s] = lk[n][s]
      BY <2>2, <2>5
    <3>2. T[lk[n][s]] = S[lk[n][s]]
      BY <3>1, <2>1, <1>3
    <3>3. QED  BY <3>1, <3>2, <2>5
  <2>6. QED  BY <2>3, <2>4, <2>5
<1>5. \A n \in M : T[n] = T[lk2[n][0]] \cup {n} \cup T[lk2[n][1]]
  <2>1. ASSUME NEW n \in N  PROVE T[n] = T[lk2[n][0]] \cup {n} \cup T[lk2[n][1]]
    <3>1. S[n] = S[lk[n][0]] \cup {n} \cup S[lk[n][1]]
      BY DEF Tree
    <3>2. side(k, n) = 0 \/ side(k, n) = 1
      BY DEF side
    <3>3. T[n] = IF n \in Q THEN S[n] \cup {k} ELSE S[n]
      BY <1>3
    <3>4. /\ T[lk2[n][0]] = IF n \in Q /\ 0 = side(k, n) THEN S[lk[n][0]] \cup {k}
                            ELSE S[lk[n][0]]
          /\ T[lk2[n][1]] = IF n \in Q /\ 1 = side(k, n) THEN S[lk[n][1]] \cup {k}
                            ELSE S[lk[n][1]]
      BY <1>4
    <3>5. QED  BY <3>1, <3>2, <3>3, <3>4
  <2>2. T[k] = T[lk2[k][0]] \cup {k} \cup T[lk2[k][1]]
    BY <1>3
  <2>3. QED  BY <2>1, <2>2
<1>6. ASSUME NEW n \in M, NEW s \in 0..1, NEW m \in T[lk2[n][s]]  PROVE Beside(m, s, n)
  <2>1. CASE n = k
    BY <2>1, <1>3
  <2>2. CASE n \in N
    <3>1. T[lk2[n][s]] = IF n \in Q /\ s = side(k, n) THEN S[lk[n][s]] \cup {k}
                         ELSE S[lk[n][s]]
      BY <2>2, <1>4
    <3>2. m \in S[lk[n][s]] \/ (m = k /\ s = side(k, n))
      BY <3>1, <1>6
    <3>3. m \in S[lk[n][s]] => Beside(m, s, n)
      BY <2>2 DEF Tree
    <3>4. QED  BY <3>2, <3>3, <2>2 DEF Beside
  <2>3. QED  BY <2>1, <2>2
<1>7. ASSUME NEW n \in M, NEW m \in M, NEW s \in 0..1, NEW t \in 0..1,
             lk2[n][s] = lk2[m][t], lk2[n][s] # NULL
      PROVE  n = m /\ s = t
  <2>1. n \in N /\ m \in N
    BY <1>7
  <2>2. \A i \in N, d \in 0..1 : lk[i][d] # k
    BY <1>1
  <2>3. CASE lk2[n][s] = k
    BY <2>1, <2>2, <2>3, <1>7
  <2>4. CASE lk2[n][s] # k
    <3>1. lk[n][s] = lk[m][t] /\ lk[n][s] # NULL
      BY <2>1, <2>4, <1>7
    <3>2. QED  BY <3>1, <2>1 DEF Tree
  <2>5. QED  BY <2>3, <2>4
<1>8. r2 \in M \cup {NULL} /\ T[r2] = M
  <2>1. CASE r = NULL
    BY <2>1, <1>1, <1>3
  <2>2. CASE r # NULL
    <3>1. r \in Q
      BY <2>2 DEF Passed
    <3>2. QED  BY <3>1, <2>2, <1>1, <1>3
  <2>3. QED  BY <2>1, <2>2
<1>9. QED
  BY <1>2, <1>3, <1>5, <1>6, <1>7, <1>8 DEF Tree, T

(* What createNode does where the tree is a search tree.                   *)
LEMMA WayIsPassed ==
  ASSUME NEW S, Tree(link, root, Node, S), NEW k \in Keys \ Node, NEW w,
         Way(w, k, root, Node)
  PROVE  Passed(link, root, Node, k, {w[j] : j \in 1..Len(w)}, w[Len(w)])
<1> DEFINE Q == {w[j] : j \in 1..Len(w)}
           l == w[Len(w)]
<1>1. w \in Seq(Node) /\ Len(w) \in Nat /\ \A j \in 1..Len(w) : w[j] \in Node
  BY LenProperties, ElementOfSeq DEF Way
<1>2. /\ root \in Node \cup {NULL} /\ k # NULL /\ NULL \notin Node
      /\ link \in [Node -> [0..1 -> Node \cup {NULL}]]
  BY RBTreeAssumption DEF Tree
<1>3. IF root = NULL THEN Len(w) = 0 ELSE Len(w) >= 1 /\ w[1] = root
  <2>1. w = <<>> <=> root = NULL
    BY <1>2 DEF Way
  <2>2. w # <<>> => w[1] = root
    BY DEF Way
  <2>3. QED  BY <2>1, <2>2, <1>1, EmptySeq
<1>4. \A j \in 1..Len(w) :
        link[w[j]][side(k, w[j])] = IF j < Len(w) THEN w[j + 1] ELSE NULL
  BY DEF Way
<1>5. Q \subseteq Node /\ (root # NULL => root \in Q /\ l \in Q) /\ (root = NULL => Q = {})
  BY <1>1, <1>3
<1>6. ASSUME NEW q \in Q
      PROVE  IF q = l THEN link[q][side(k, q)] = NULL ELSE link[q][side(k, q)] \in Q
  <2>1. PICK j \in 1..Len(w) : q = w[j]
    OBVIOUS
  <2>2. CASE j = Len(w)
    BY <2>1, <2>2, <1>1, <1>4
  <2>3. CASE j < Len(w)
    <3>1. j + 1 \in 1..Len(w) /\ link[q][side(k, q)] = w[j + 1]
      BY <2>1, <2>3, <1>1, <1>4
    <3>2. q # l
      <4>1. Len(w) \in 1..Len(w) /\ link[l][side(k, l)] = NULL
        BY <1>1, <1>4, <2>3
      <4>2. w[j + 1] # NULL
        BY <3>1, <1>1, <1>2
      <4>3. QED  BY <3>1, <4>1, <4>2
    <3>3. QED  BY <3>1, <3>2
  <2>4. QED  BY <2>1, <2>2, <2>3, <1>1
<1>7. ASSUME NEW n \in Node, NEW s \in 0..1, link[n][s] \in Q
      PROVE  n \in Q /\ s = side(k, n)
  <2>1. PICK j \in 1..Len(w) : link[n][s] = w[j]
    BY <1>7
  <2>2. link[n][s] # root
    BY RootOnTop
  <2>3. j # 1
    BY <2>1, <2>2, <1>3
  <2> DEFINE i == j - 1
             p == w[i]
  <2>4. i \in 1..Len(w) /\ link[p][side(k, p)] = w[j] /\ p \in Node /\ p \in Q
    <3>1. i \in 1..Len(w) /\ i < Len(w) /\ i + 1 = j
      BY <2>3, <1>1
    <3>2. link[w[i]][side(k, w[i])] = w[i + 1]
      BY <3>1, <1>4
    <3> HIDE DEF i
    <3>3. QED  BY <3>1, <3>2, <1>1
  <2>5. side(k, p) \in 0..1 /\ w[j] # NULL
    BY <1>1, <1>2, SideIs
  <2> HIDE DEF p, Q
  <2>6. QED  BY <2>1, <2>4, <2>5 DEF Tree
<1>8. QED  BY <1>5, <1>6, <1>7 DEF Passed

-----------------------------------------------------------------------------
(* The inductive invariant: the links are those of a search tree, and the  *)
(* path is one in it.  That of insertion has the root twice and ends above *)
(* a node; below the end of that of deletion there may be none.            *)
SearchTree == \E S : Tree(link, root, Node, S)

Places ==
  /\ stack \in Seq(Node) /\ dir \in Seq(0..1) /\ Len(stack) = Len(dir)
  /\ pc = "idle" => stack = <<>>

InsertPath ==
  pc = "insert" =>
    /\ Len(stack) >= 1 /\ stack[1] = root
    /\ Len(stack) >= 2 => stack[2] = root /\ link[top][Last(dir)] # NULL
    /\ \A j \in 2..(Len(stack) - 1) : link[stack[j]][dir[j]] = stack[j + 1]

DeletePath ==
  pc = "delete" =>
    /\ Len(stack) >= 1 /\ stack[1] = root
    /\ \A j \in 1..(Len(stack) - 1) : link[stack[j]][dir[j]] = stack[j + 1]

IInv == TypeOK /\ keys = Node /\ SearchTree /\ Places /\ InsertPath /\ DeletePath

LEMMA InitIInv == ASSUME Init PROVE IInv
<1>1. link = [n \in {} |-> 0] /\ color = [n \in {} |-> 0] /\ Node = {}
  BY DEF Init, Node
<1>2. TypeOK
  BY <1>1 DEF Init, TypeOK
<1>3. Tree(link, root, Node, [n \in {NULL} |-> {}])
  BY <1>1, FS_EmptySet DEF Init, Tree
<1>4. SearchTree
  BY <1>3 DEF SearchTree
<1>5. QED
  BY <1>1, <1>2, <1>4 DEF Init, IInv, Places, InsertPath, DeletePath

LEMMA Prefix ==
  ASSUME NEW N, NEW w \in Seq(N), NEW n \in 0..Len(w)
  PROVE  /\ SubSeq(w, 1, n) \in Seq(N) /\ Len(SubSeq(w, 1, n)) = n
         /\ \A j \in 1..n : SubSeq(w, 1, n)[j] = w[j]
<1>1. Len(w) \in Nat /\ n \in Int /\ 1 \in Int
  BY LenProperties
<1>2. \A j \in 1..n : w[j] \in N
  BY <1>1, ElementOfSeq
<1>3. QED  BY <1>1, <1>2, SubSeqProperties

LEMMA IdlePlaces == Idle => Places' /\ InsertPath' /\ DeletePath'
  BY DEF Idle, Places, InsertPath, DeletePath

LEMMA Nodes ==
  ASSUME IInv
  PROVE  /\ Node = DOMAIN link /\ Node \subseteq Keys /\ Node \subseteq Int /\ NULL \notin Node
         /\ root \in Node \cup {NULL}
         /\ link \in [Node -> [0..1 -> Node \cup {NULL}]]
         /\ color \in [Node -> {"RED", "BLACK"}]
         /\ Len(stack) \in Nat /\ Len(dir) = Len(stack)
         /\ \A j \in 1..Len(stack) : stack[j] \in Node /\ dir[j] \in 0..1
<1>1. Len(stack) \in Nat /\ \A j \in 1..Len(stack) : stack[j] \in Node /\ dir[j] \in 0..1
  BY LenProperties, ElementOfSeq DEF IInv, Places
<1>2. QED
  BY <1>1, RBTreeAssumption DEF IInv, TypeOK, Node, Places

LEMMA InsertionKeepsIInv ==
  ASSUME IInv, NEW k \in Keys, insertion(k)
  PROVE  IInv'
<1> DEFINE w == down(k, root)
           Q == {w[j] : j \in 1..Len(w)}
           l == w[Len(w)]
           M == Node \cup {k}
<1>1. /\ Node \subseteq Keys /\ Node \subseteq Int /\ NULL \notin Node
      /\ root \in Node \cup {NULL} /\ link \in [Node -> [0..1 -> Node \cup {NULL}]]
      /\ k \in Int /\ k # NULL /\ k \notin Node /\ pc = "idle"
  BY Nodes, RBTreeAssumption DEF insertion
<1>2. PICK S : Tree(link, root, Node, S)
  BY DEF IInv, SearchTree
<1>3. Way(w, k, root, Node)
  <2>1. S[root] = Node
    BY <1>2 DEF Tree
  <2>2. QED  BY <1>1, <1>2, <2>1, DownIsWay
<1>4. Passed(link, root, Node, k, Q, l)
  BY <1>1, <1>2, <1>3, WayIsPassed
<1>5. Node' = M
  BY DEF insertion, createNode, Node
<1>6. /\ link' \in [M -> [0..1 -> Node \cup {k, NULL}]]
      /\ \A s \in 0..1 : link'[k][s] = NULL
      /\ \A n \in Node, s \in 0..1 :
           link'[n][s] = IF n \in Q /\ n = l /\ s = side(k, n) THEN k ELSE link[n][s]
  <2>1. /\ link' = [n \in M |->
                      IF n = k THEN [s \in 0..1 |-> NULL]
                      ELSE IF root # NULL /\ n = l THEN [link[n] EXCEPT ![side(k, n)] = k]
                      ELSE link[n]]
        /\ \A n \in Node : n = l => (n \in Q <=> root # NULL)
    BY <1>4 DEF insertion, createNode, Last, Passed
  <2> HIDE DEF w, Q, l
  <2>2. \A n \in Node, s \in 0..1 :
          link'[n][s] = IF root # NULL /\ n = l /\ s = side(k, n) THEN k ELSE link[n][s]
    BY <2>1, <1>1
  <2>3. link' \in [M -> [0..1 -> Node \cup {k, NULL}]]
    <3>1. ASSUME NEW n \in M  PROVE link'[n] \in [0..1 -> Node \cup {k, NULL}]
      <4>1. CASE n = k
        BY <4>1, <2>1
      <4>2. CASE n # k
        <5>1. link[n] \in [0..1 -> Node \cup {k, NULL}]
          BY <4>2, <1>1
        <5>2. link'[n] = link[n] \/ link'[n] = [link[n] EXCEPT ![side(k, n)] = k]
          BY <4>2, <2>1
        <5>3. QED  BY <5>1, <5>2
      <4>3. QED  BY <4>1, <4>2
    <3>2. link' = [n \in M |-> link'[n]]
      BY <2>1
    <3>3. QED  BY <3>1, <3>2
  <2>4. \A s \in 0..1 : link'[k][s] = NULL
    BY <2>1
  <2>5. QED  BY <2>1, <2>2, <2>3, <2>4
<1>7. root' = (IF root = NULL THEN k ELSE root)
  BY DEF insertion
<1>8. SearchTree'
  <2> HIDE DEF w, Q, l
  <2>1. Tree(link', root', M, Grown(S, Node, k, Q))
    <3> DEFINE lk2 == link'
    <3>1. /\ lk2 \in [M -> [0..1 -> Node \cup {k, NULL}]]
          /\ \A s \in 0..1 : lk2[k][s] = NULL
          /\ \A n \in Node, s \in 0..1 :
               lk2[n][s] = IF n \in Q /\ n = l /\ s = side(k, n) THEN k ELSE link[n][s]
      BY <1>6
    <3>2. k \in Int \ Node /\ k # NULL
      BY <1>1
    <3> HIDE DEF lk2
    <3>3. Tree(lk2, IF root = NULL THEN k ELSE root, M, Grown(S, Node, k, Q))
      BY ONLY <1>2, <1>4, <3>1, <3>2, LeafKeepsTree
    <3>4. QED  BY <3>3, <1>7 DEF lk2
  <2>2. QED  BY <2>1, <1>5 DEF SearchTree
<1>9. TypeOK' /\ keys' = Node'
  <2>1. root' \in M \cup {NULL}
    BY <1>1, <1>7
  <2>2. color' \in [M -> {"RED", "BLACK"}]
    BY Nodes DEF insertion, createNode
  <2>3. keys' = M /\ fate' = fate /\ pc' \in {"idle", "insert"}
    BY <1>1 DEF insertion, createNode, IInv
  <2>4. Len(stack') = Len(dir')
    <3>1. CASE root = NULL
      BY <3>1 DEF insertion, path, IInv, TypeOK
    <3>2. CASE root # NULL
      <4>1. w \in Seq(Node) /\ 0 \in 0..1 /\ root \in Node
        BY <1>1, <1>3, <3>2 DEF Way
      <4>2. [j \in DOMAIN w |-> side(k, w[j])] \in Seq(0..1)
            /\ Len([j \in DOMAIN w |-> side(k, w[j])]) = Len(w)
        BY <4>1, LenProperties, SideIs
      <4>3. stack' = <<root>> \o w /\ dir' = <<0>> \o [j \in DOMAIN w |-> side(k, w[j])]
        BY <3>2 DEF insertion
      <4> HIDE DEF w
      <4>4. QED  BY <4>1, <4>2, <4>3, Prefixed
    <3>3. QED  BY <3>1, <3>2
  <2>5. QED
    BY <2>1, <2>2, <2>3, <2>4, <1>1, <1>5, <1>6 DEF TypeOK, IInv
<1>10. Places' /\ InsertPath' /\ DeletePath'
  <2>1. CASE root = NULL
    <3>1. UNCHANGED <<stack, dir, pc>>
      BY <2>1 DEF insertion, path
    <3>2. stack \in Seq(M)
      BY SeqMonotonic DEF IInv, Places
    <3>3. QED
      BY <3>1, <3>2, <1>1, <1>5 DEF Places, InsertPath, DeletePath, IInv
  <2>2. CASE root # NULL
    <3> DEFINE d == [j \in DOMAIN w |-> side(k, w[j])]
    <3>1. w \in Seq(Node) /\ Len(w) \in Nat \ {0} /\ 0 \in 0..1 /\ root \in Node /\ w[1] = root
      <4>1. w \in Seq(Node) /\ w # <<>> /\ w[1] = root
        BY <1>1, <1>3, <2>2 DEF Way
      <4>2. QED  BY <4>1, <1>1, <2>2, EmptySeq
    <3>2. d \in Seq(0..1) /\ Len(d) = Len(w) /\ \A j \in 1..Len(w) : d[j] = side(k, w[j])
      BY <3>1, LenProperties, SideIs
    <3>3. stack' = <<root>> \o w /\ dir' = <<0>> \o d /\ pc' = "insert" /\ root' = root
      BY <2>2 DEF insertion
    <3>4. \A j \in 1..Len(w) :
            w[j] \in Node /\ link[w[j]][side(k, w[j])] = IF j < Len(w) THEN w[j + 1] ELSE NULL
      BY <1>1, <1>3, <3>1, ElementOfSeq DEF Way
    <3> HIDE DEF w, d, Q
    <3>5. /\ stack' \in Seq(Node) /\ Len(stack') = 1 + Len(w) /\ stack'[1] = root
          /\ \A j \in 1..Len(w) : stack'[j + 1] = w[j]
      BY <3>1, <3>3, Prefixed
    <3>6. /\ dir' \in Seq(0..1) /\ Len(dir') = 1 + Len(w)
          /\ \A j \in 1..Len(w) : dir'[j + 1] = side(k, w[j])
      BY <3>1, <3>2, <3>3, Prefixed
    <3>7. Places'
      <4>1. stack' \in Seq(M)
        BY <3>5, SeqMonotonic
      <4>2. QED  BY <4>1, <3>3, <3>5, <3>6, <1>5 DEF Places
    <3>8. stack'[2] = root
      <4>1. stack'[1 + 1] = w[1]
        BY <3>1, <3>5
      <4>2. QED  BY <4>1, <3>1
    <3>9. link'[top'][Last(dir')] # NULL
      <4>1. top' = l /\ Last(dir') = side(k, l) /\ Len(w) \in 1..Len(w)
        BY <3>1, <3>5, <3>6 DEF top, Last
      <4>2. l \in Node /\ l \in Q /\ side(k, l) \in 0..1
        BY <4>1, <3>4, SideIs DEF Q
      <4>3. link'[l][side(k, l)] = k
        BY <4>2, <1>6
      <4>4. QED  BY <4>1, <4>3, <1>1
    <3>10. ASSUME NEW j \in 2..(Len(stack') - 1)
           PROVE  link'[stack'[j]][dir'[j]] = stack'[j + 1]
      <4> DEFINE i == j - 1
      <4>1. i \in 1..Len(w) /\ i + 1 \in 1..Len(w) /\ i < Len(w) /\ j = i + 1 /\ j \in Nat
        BY <3>1, <3>5
      <4>2. stack'[j] = w[i] /\ dir'[j] = side(k, w[i]) /\ stack'[j + 1] = w[i + 1]
        <5>1. stack'[i + 1] = w[i] /\ dir'[i + 1] = side(k, w[i])
          BY <4>1, <3>5, <3>6
        <5>2. stack'[(i + 1) + 1] = w[i + 1]
          BY <4>1, <3>5
        <5>3. QED  BY <5>1, <5>2, <4>1
      <4> HIDE DEF i
      <4>3. w[i] \in Node /\ w[i + 1] \in Node /\ link[w[i]][side(k, w[i])] = w[i + 1]
        BY <4>1, <3>4
      <4>4. w[i] # l
        <5>1. link[l][side(k, l)] = NULL
          BY <3>1, <3>4
        <5>2. QED  BY <5>1, <4>3, <1>1
      <4>5. QED  BY <4>2, <4>3, <4>4, <1>6, SideIs
    <3>11. InsertPath'
      <4>1. Len(stack') >= 2 /\ stack'[1] = root' /\ stack'[2] = root'
        BY <3>1, <3>3, <3>5
      <4>2. (link[top][Last(dir)] # NULL)'
        BY <3>9
      <4>3. \A j \in 2..(Len(stack') - 1) : link'[stack'[j]][dir'[j]] = stack'[j + 1]
        BY <3>10
      <4>4. Len(stack') \in Nat
        BY <3>1, <3>5
      <4>5. QED  BY ONLY <4>1, <4>2, <4>3, <4>4 DEF InsertPath
    <3>12. DeletePath'
      BY <3>3 DEF DeletePath
    <3>13. QED  BY <3>7, <3>11, <3>12
  <2>3. QED  BY <2>1, <2>2
<1>11. QED
  BY <1>8, <1>9, <1>10 DEF IInv

-----------------------------------------------------------------------------
(* Steps that change colors and the path only.                             *)
LEMMA LinksStay ==
  ASSUME IInv, UNCHANGED <<root, link, keys>>
  PROVE  /\ Node' = Node /\ SearchTree' /\ keys' = Node'
         /\ root' \in Node' \cup {NULL}
         /\ link' \in [Node' -> [0..1 -> Node' \cup {NULL}]] /\ Node' \subseteq Keys
<1>1. Node' = Node
  BY DEF Node
<1>2. QED
  BY <1>1, Nodes DEF IInv, SearchTree

LEMMA IdleKeepsIInv ==
  ASSUME IInv, Idle, UNCHANGED <<root, link, fate, keys>>,
         color' \in [Node -> {"RED", "BLACK"}]
  PROVE  IInv'
<1>1. TypeOK'
  BY LinksStay DEF TypeOK, IInv, Idle
<1>2. QED  BY <1>1, LinksStay, IdlePlaces DEF IInv

LEMMA RecolorKeepsIInv == ASSUME IInv, Recolor PROVE IInv'
<1> DEFINE L == Len(stack)
<1>1. L \in Nat /\ L >= 3 /\ L - 2 \in 0..L /\ L = Len(dir) /\ pc = "insert" /\ pc' = pc
  BY Nodes DEF Recolor, TwoReds
<1>2. UNCHANGED <<root, link, keys, fate>>
  BY DEF Recolor, history
<1>3. stack \in Seq(Node) /\ dir \in Seq(0..1) /\ Node' = Node
  BY <1>2, LinksStay DEF IInv, Places
<1>4. /\ stack' \in Seq(Node) /\ Len(stack') = L - 2
      /\ \A j \in 1..(L - 2) : stack'[j] = stack[j]
  BY <1>1, <1>3, Prefix DEF Recolor
<1>5. /\ dir' \in Seq(0..1) /\ Len(dir') = L - 2
      /\ \A j \in 1..(L - 2) : dir'[j] = dir[j]
  BY <1>1, <1>3, Prefix DEF Recolor
<1>6. color' \in [Node -> {"RED", "BLACK"}]
  BY Nodes DEF Recolor
<1>7. TypeOK'
  BY <1>1, <1>2, <1>4, <1>5, <1>6, LinksStay DEF TypeOK, IInv
<1>8. Places'
  BY <1>1, <1>3, <1>4, <1>5 DEF Places
<1>9. /\ stack[1] = root /\ stack[2] = root
      /\ \A j \in 2..(L - 1) : link[stack[j]][dir[j]] = stack[j + 1]
  BY <1>1 DEF IInv, InsertPath
<1>10. InsertPath'
  <2>1. Len(stack') >= 1 /\ stack'[1] = root' /\ Len(stack') \in Nat
    BY <1>1, <1>2, <1>4, <1>9
  <2>2. Len(stack') >= 2 => stack'[2] = root' /\ (link[top][Last(dir)] # NULL)'
    <3> SUFFICES ASSUME L - 2 >= 2
                 PROVE  stack'[2] = root' /\ (link[top][Last(dir)] # NULL)'
      BY <1>4
    <3>1. stack'[2] = root'
      BY <1>1, <1>2, <1>4, <1>9
    <3>2. top' = stack[L - 2] /\ Last(dir)' = dir[L - 2]
      BY <1>1, <1>4, <1>5 DEF top, Last
    <3>3. L - 2 \in 2..(L - 1) /\ (L - 2) + 1 \in 1..Len(stack)
      BY <1>1
    <3>4. link[stack[L - 2]][dir[L - 2]] = stack[(L - 2) + 1] /\ stack[(L - 2) + 1] \in Node
      BY <3>3, <1>9, Nodes
    <3>5. QED  BY <3>1, <3>2, <3>4, <1>2, Nodes
  <2>3. \A j \in 2..(Len(stack') - 1) : link'[stack'[j]][dir'[j]] = stack'[j + 1]
    <3> SUFFICES ASSUME NEW j \in 2..(Len(stack') - 1)
                 PROVE  link'[stack'[j]][dir'[j]] = stack'[j + 1]
      OBVIOUS
    <3>1. j \in 1..(L - 2) /\ j + 1 \in 1..(L - 2) /\ j \in 2..(L - 1)
      BY <1>1, <1>4
    <3>2. QED  BY <3>1, <1>2, <1>4, <1>5, <1>9
  <2>4. QED  BY ONLY <2>1, <2>2, <2>3 DEF InsertPath
<1>11. QED
  BY <1>1, <1>2, <1>7, <1>8, <1>10, LinksStay DEF IInv, DeletePath

LEMMA InsertedKeepsIInv == ASSUME IInv, Inserted PROVE IInv'
<1>1. color' \in [Node -> {"RED", "BLACK"}]
  BY Nodes DEF Inserted
<1>2. QED  BY <1>1, IdleKeepsIInv DEF Inserted, history

LEMMA RepairedKeepsIInv == ASSUME IInv, Repaired PROVE IInv'
<1>1. color' \in [Node -> {"RED", "BLACK"}]
  BY Nodes DEF Repaired
<1>2. QED  BY <1>1, IdleKeepsIInv DEF Repaired, history

LEMMA NoSiblingKeepsIInv == ASSUME IInv, NoSibling PROVE IInv'
<1>1. color' \in [Node -> {"RED", "BLACK"}]
  BY Nodes DEF NoSibling, tree
<1>2. QED  BY <1>1, IdleKeepsIInv DEF NoSibling, tree, history

LEMMA StandingStillKeepsIInv ==
  ASSUME IInv, UNCHANGED <<tree, path, pc, history>>, fate' \in {"running", "SIGSEGV"}
  PROVE  IInv'
<1>1. UNCHANGED <<root, link, keys, color, stack, dir, pc>>
  BY DEF tree, path, history
<1>2. TypeOK'
  BY <1>1, LinksStay DEF TypeOK, IInv
<1>3. top' = top
  BY <1>1 DEF top
<1>4. QED
  BY <1>1, <1>2, <1>3, LinksStay DEF IInv, Places, InsertPath, DeletePath

-----------------------------------------------------------------------------
(* Steps that rotate.                                                      *)

(* Above a rotation nothing changes.                                       *)
LEMMA AboveRotation ==
  ASSUME NEW lk, NEW r, NEW N, NEW S, Tree(lk, r, N, S), NEW x \in N, NEW s \in 0..1,
         lk[x][s] # NULL, NEW lk2, NEW r2, Relinked(lk, r, N, x, s, lk2, r2),
         NEW p \in N, NEW d \in 0..1, lk[p][d] \in N, lk[p][d] \notin S[x]
  PROVE  lk2[p][d] = lk[p][d]
<1> DEFINE y == lk[x][s]
           g == lk[p][d]
<1>1. y \in N /\ S[y] \subseteq S[x] /\ x \in S[x]
  BY Below
<1>2. \A m \in N : m \in S[m]
  BY DEF Tree
<1>3. p # x /\ p # y
  <2>1. \A m \in N, t \in 0..1 : S[lk[m][t]] \subseteq S[m]
    BY Below
  <2>2. S[g] \subseteq S[p] /\ g \in S[g]
    BY <2>1, <1>2
  <2> HIDE DEF g, y
  <2>3. QED  BY <2>2, <1>1 DEF g
<1>4. QED  BY <1>1, <1>3 DEF Relinked

(* The new node is turned to the outer side of its parent x, on side t of  *)
(* its grandparent g, and then the node between is raised above g.         *)
RotatedTwice(x, g, t, d) ==
  /\ x \in Node /\ g \in Node /\ t \in 0..1 /\ d \in 0..1
  /\ link[g][t] = x /\ link[x][d] # NULL
  /\ IF d = t THEN Outer = link
     ELSE d = 1 - t /\ Relinked(link, root, Node, x, d, Outer, root)
  /\ Outer[g][t] # NULL
  /\ \E T : Tree(Outer, root, Node, T)
  /\ Relinked(Outer, root, Node, g, t, link', root')

LEMMA RotateTwice ==
  ASSUME IInv, Rotate
  PROVE  RotatedTwice(parent, grandparent, turn, Last(dir))
<1> DEFINE L == Len(stack)
           x == stack[L]
           g == stack[L - 1]
           t == dir[L - 1]
           y == Outer[g][t]
           lk2 == link'
           r2 == root'
<1>1. PICK S : Tree(link, root, Node, S)
  BY DEF IInv, SearchTree
<1>2. /\ L \in Nat /\ L >= 3 /\ L = Len(dir) /\ parent = x /\ grandparent = g /\ turn = t
      /\ Last(dir) = dir[L]
  BY Nodes DEF Rotate, TwoReds, parent, grandparent, turn, top, Last
<1>3. /\ x \in Node /\ g \in Node /\ t \in 0..1 /\ dir[L] \in 0..1
      /\ \A j \in 1..L : stack[j] \in Node /\ dir[j] \in 0..1
  BY <1>2, Nodes
<1>4. link[g][t] = x /\ link[x][dir[L]] # NULL
  <2>1. /\ \A j \in 2..(L - 1) : link[stack[j]][dir[j]] = stack[j + 1]
        /\ link[top][Last(dir)] # NULL
    BY <1>2 DEF IInv, InsertPath, Rotate, TwoReds
  <2>2. L - 1 \in 2..(L - 1) /\ (L - 1) + 1 = L
    BY <1>2
  <2>3. QED  BY <2>1, <2>2, <1>2 DEF top, Last
<1>5. g # root =>
        /\ L - 2 \in 1..L /\ (L - 1) - 1 = L - 2
        /\ link[stack[L - 2]][dir[L - 2]] = g
  <2> SUFFICES ASSUME g # root
               PROVE  /\ L - 2 \in 1..L /\ (L - 1) - 1 = L - 2
                      /\ link[stack[L - 2]][dir[L - 2]] = g
    OBVIOUS
  <2>1. /\ stack[2] = root
        /\ \A j \in 2..(L - 1) : link[stack[j]][dir[j]] = stack[j + 1]
    BY <1>2 DEF IInv, InsertPath, Rotate, TwoReds
  <2>2. L - 1 # 2
    BY <2>1
  <2>3. L - 2 \in 2..(L - 1) /\ (L - 2) + 1 = L - 1
    BY <2>2, <1>2
  <2>4. QED  BY <2>1, <2>3, <1>2
<1> HIDE DEF L, x, g, t
<1>6. \E T : /\ Tree(Outer, root, Node, T) /\ y # NULL
             /\ IF dir[L] = t THEN Outer = link
                ELSE dir[L] = 1 - t /\ Relinked(link, root, Node, x, dir[L], Outer, root)
             /\ g # root => Outer[stack[L - 2]][dir[L - 2]] = g
  <2>1. CASE dir[L] = t
    <3>1. Outer = link
      BY <2>1, <1>2 DEF Outer
    <3>2. x # NULL
      BY <1>3, Nodes
    <3>3. QED  BY <2>1, <3>1, <3>2, <1>1, <1>4, <1>5
  <2>2. CASE dir[L] # t
    <3>1. dir[L] = 1 - t /\ 1 - t \in 0..1
      BY <2>2, <1>3, Sides
    <3> DEFINE lk1 == Outer
    <3>2. lk1 = [Raise(link, x, 1 - t) EXCEPT ![g][t] = link[x][1 - t]]
      BY <2>2, <1>2 DEF Outer
    <3>3. x # root /\ DOMAIN link = Node
      BY <1>1, <1>3, <1>4, RootOnTop, Nodes
    <3> HIDE DEF lk1
    <3>4. Rotated(link, root, x, 1 - t, lk1, root)
      BY <1>3, <1>4, <3>2, <3>3 DEF Rotated
    <3>5. link[x][1 - t] # NULL
      BY <3>1, <1>4
    <3>6. Relinked(link, root, Node, x, 1 - t, lk1, root)
      BY <1>1, <1>3, <3>1, <3>4, <3>5, RotatedIsRelinked
    <3>7. Tree(lk1, root, Node, Turned(S, link, x, 1 - t))
      BY <1>1, <1>3, <3>1, <3>5, <3>6, RotationKeepsTree
    <3>8. lk1[g][t] # NULL
      <4>1. link[x][1 - t] # g /\ g # x
        <5>1. g \notin S[link[g][t]] /\ \A m \in Node, d \in 0..1 : S[link[m][d]] \subseteq S[m]
          BY <1>1, <1>3, Below
        <5>2. \A m \in Node : m \in S[m]
          BY <1>1 DEF Tree
        <5>3. QED  BY <5>1, <5>2, <1>3, <1>4, <3>1
      <4>2. QED  BY <4>1, <1>3, <1>4, <3>5, <3>6 DEF Relinked
    <3>9. ASSUME g # root  PROVE lk1[stack[L - 2]][dir[L - 2]] = g
      <4> DEFINE p == stack[L - 2]
                 d == dir[L - 2]
      <4>1. p \in Node /\ d \in 0..1 /\ link[p][d] = g
        BY <3>9, <1>3, <1>5
      <4>2. g \notin S[x]
        BY <1>1, <1>3, <1>4, Below
      <4> HIDE DEF p, d
      <4>3. lk1[p][d] = g
        BY <1>1, <1>3, <3>1, <3>5, <3>6, <4>1, <4>2, AboveRotation
      <4>4. QED  BY <4>3 DEF p, d
    <3>10. QED  BY <2>2, <3>1, <3>6, <3>7, <3>8, <3>9 DEF lk1
  <2>3. QED  BY <2>1, <2>2
<1>7. PICK T : /\ Tree(Outer, root, Node, T) /\ y # NULL
               /\ IF dir[L] = t THEN Outer = link
                  ELSE dir[L] = 1 - t /\ Relinked(link, root, Node, x, dir[L], Outer, root)
               /\ g # root => Outer[stack[L - 2]][dir[L - 2]] = g
  BY <1>6
<1>8. Rotated(Outer, root, g, t, lk2, r2)
  <2>1. /\ lk2 = Hang(Raise(Outer, g, t), L - 1, g, y)
        /\ r2 = NewRoot(g, y)
    BY <1>2 DEF Rotate, L
  <2>2. CASE g = root
    BY <2>1, <2>2 DEF Hang, NewRoot, Rotated
  <2>3. CASE g # root
    <3>1. lk2 = [Raise(Outer, g, t) EXCEPT ![stack[L - 2]][dir[L - 2]] = y] /\ r2 = root
      BY <2>1, <2>3, <1>5 DEF Hang, NewRoot
    <3>2. stack[L - 2] \in Node /\ dir[L - 2] \in 0..1 /\ DOMAIN Outer = Node
      BY <2>3, <1>3, <1>5, <1>7 DEF Tree
    <3>3. QED  BY <2>3, <3>1, <3>2, <1>7 DEF Rotated
  <2>4. QED  BY <2>2, <2>3
<1> HIDE DEF lk2, r2, y
<1>9. Relinked(Outer, root, Node, g, t, lk2, r2)
  BY <1>3, <1>7, <1>8, RotatedIsRelinked DEF y
<1>10. QED
  <2>1. RotatedTwice(x, g, t, dir[L])
    BY <1>3, <1>4, <1>7, <1>9 DEF RotatedTwice, y, lk2, r2
  <2>2. QED  BY <2>1, <1>2

LEMMA RotateKeepsIInv == ASSUME IInv, Rotate PROVE IInv'
<1> DEFINE g == grandparent
           t == turn
           lk1 == Outer
           lk2 == link'
           r2 == root'
<1>1. /\ g \in Node /\ t \in 0..1 /\ lk1[g][t] # NULL
      /\ \E T : Tree(lk1, root, Node, T)
      /\ Relinked(lk1, root, Node, g, t, lk2, r2)
  BY RotateTwice DEF RotatedTwice
<1> HIDE DEF g, t, lk1, lk2, r2
<1>2. PICK U : Tree(lk2, r2, Node, U)
  BY <1>1, RotationKeepsTree
<1>3. Node' = Node
  BY <1>2 DEF Tree, Node, lk2
<1>4. SearchTree'
  BY <1>2, <1>3 DEF SearchTree, lk2, r2
<1>5. color' \in [Node -> {"RED", "BLACK"}]
  BY Nodes DEF Rotate
<1>6. TypeOK'
  <2>1. /\ root' \in Node \cup {NULL}
        /\ link' \in [Node -> [0..1 -> Node \cup {NULL}]]
    BY <1>2 DEF Tree, lk2, r2
  <2>2. QED  BY <2>1, <1>3, <1>5 DEF TypeOK, IInv, Rotate, Idle
<1>7. QED
  BY <1>3, <1>4, <1>6, IdlePlaces DEF IInv, Rotate, history

(* Where the repair after a deletion stands.                               *)
LEMMA DeficientAt ==
  ASSUME IInv, Deficient, NEW S, Tree(link, root, Node, S)
  PROVE  /\ Len(stack) \in Nat /\ Len(stack) >= 2 /\ Len(dir) = Len(stack)
         /\ top = stack[Len(stack)] /\ Last(dir) = dir[Len(stack)]
         /\ at = dir[Len(stack) - 1]
         /\ top \in Node /\ at \in 0..1 /\ 1 - at \in 0..1 /\ 1 - (1 - at) = at
         /\ stack[Len(stack) - 1] \in Node
         /\ link[stack[Len(stack) - 1]][at] = top /\ top # root
         /\ Raised => Last(dir) = at
<1> DEFINE L == Len(stack)
<1>1. L \in Nat /\ L >= 2 /\ Len(dir) = L /\ top = stack[L] /\ Last(dir) = dir[L]
  BY Nodes DEF Deficient, top, Last
<1>2. top \in Node /\ stack[L - 1] \in Node /\ dir[L - 1] \in 0..1 /\ dir[L] \in 0..1
  BY <1>1, Nodes
<1>3. at \in 0..1 /\ 1 - at \in 0..1 /\ 1 - (1 - at) = at /\ at = dir[L - 1]
  BY <1>2, Sides DEF at
<1>4. link[stack[L - 1]][dir[L - 1]] = top
  <2>1. \A j \in 1..(L - 1) : link[stack[j]][dir[j]] = stack[j + 1]
    BY DEF IInv, DeletePath, Deficient
  <2>2. L - 1 \in 1..(L - 1) /\ (L - 1) + 1 = L
    BY <1>1
  <2> HIDE DEF L
  <2>3. QED  BY <2>1, <2>2, <1>1
<1>5. top # root
  BY <1>2, <1>4, RootOnTop
<1>6. Raised => Last(dir) = at
  <2>1. Last(dir) # at => Last(dir) = 1 - at
    BY <1>1, <1>2, <1>3, Sides
  <2>2. Raised => ~IsRed(link[top][Last(dir)]) /\ IsRed(link[top][1 - at])
    BY DEF Raised, Deficient, deficient, sibling
  <2>3. QED  BY <2>1, <2>2
<1> HIDE DEF L
<1>7. QED  BY <1>1, <1>2, <1>3, <1>4, <1>5, <1>6 DEF L

(* The rotation that raises a red sibling.                                 *)
LEMMA SiblingRaised ==
  ASSUME IInv, Raised, sibling # NULL, NEW S, Tree(link, root, Node, S)
  PROVE  Relinked(link, root, Node, top, 1 - at, lk0, root)
<1> DEFINE L == Len(stack)
<1>1. /\ L \in Nat /\ L >= 2 /\ top \in Node /\ at \in 0..1 /\ 1 - at \in 0..1
      /\ stack[L - 1] \in Node /\ link[stack[L - 1]][at] = top /\ top # root
      /\ at = dir[L - 1]
  BY DeficientAt DEF Raised
<1>2. lk0 = [Raise(link, top, 1 - at) EXCEPT ![stack[L - 1]][at] = link[top][1 - at]]
  BY <1>1 DEF lk0, Hang, sibling
<1>3. DOMAIN link = Node /\ link[top][1 - at] # NULL
  BY DEF Node, sibling
<1> HIDE DEF L
<1>4. Rotated(link, root, top, 1 - at, lk0, root)
  BY <1>1, <1>2, <1>3 DEF Rotated
<1>5. QED  BY <1>1, <1>3, <1>4, RotatedIsRelinked

LEMMA AfterRaising ==
  ASSUME IInv, Deficient, sibling # NULL
  PROVE  /\ root0 = root /\ co0 \in [Node -> {"RED", "BLACK"}]
         /\ \E T : Tree(lk0, root, Node, T)
         /\ Len(stack0) \in Nat /\ Len(stack0) >= 2
         /\ stack0[Len(stack0) - 1] \in Node /\ dir0[Len(stack0) - 1] \in 0..1
         /\ lk0[stack0[Len(stack0) - 1]][dir0[Len(stack0) - 1]] = top
<1> DEFINE L == Len(stack)
<1>1. PICK S : Tree(link, root, Node, S)
  BY DEF IInv, SearchTree
<1>2. /\ L \in Nat /\ L >= 2 /\ Len(dir) = L /\ top = stack[L] /\ Last(dir) = dir[L]
      /\ top \in Node /\ at \in 0..1 /\ 1 - at \in 0..1 /\ 1 - (1 - at) = at
      /\ stack[L - 1] \in Node /\ link[stack[L - 1]][at] = top /\ top # root
      /\ at = dir[L - 1] /\ (Raised => Last(dir) = at)
  BY <1>1, DeficientAt
<1>3. co0 \in [Node -> {"RED", "BLACK"}]
  BY Nodes DEF co0
<1>4. CASE ~Raised
  BY <1>1, <1>2, <1>3, <1>4 DEF lk0, root0, stack0, dir0
<1>5. CASE Raised
  <2>1. Relinked(link, root, Node, top, 1 - at, lk0, root)
    BY <1>1, <1>5, SiblingRaised
  <2>2. link[top][1 - at] # NULL
    BY DEF sibling
  <2>3. \E T : Tree(lk0, root, Node, T)
    BY <1>1, <1>2, <2>1, <2>2, RotationKeepsTree
  <2>4. root0 = root
    BY <1>2 DEF root0, NewRoot
  <2>5. sibling \in Node
    BY <1>2, <2>2, Nodes DEF sibling
  <2>6. Len(stack0) = L + 1 /\ stack0[L] = sibling
    <3>1. Front(stack) \in Seq(Node) /\ Len(Front(stack)) = L - 1
      BY <1>2, Prefix DEF Front, IInv, Places
    <3>2. /\ <<sibling, top>> \in Seq(Node) /\ Len(<<sibling, top>>) = 2
          /\ <<sibling, top>>[1] = sibling
      BY <1>2, <2>5
    <3> DEFINE v == Front(stack)
               w == <<sibling, top>>
    <3>3. stack0 = v \o w
      BY <1>5 DEF stack0
    <3> HIDE DEF v, w
    <3>4. /\ Len(v \o w) = Len(v) + Len(w)
          /\ \A i \in 1..(Len(v) + Len(w)) :
               (v \o w)[i] = IF i <= Len(v) THEN v[i] ELSE w[i - Len(v)]
      BY <3>1, <3>2, ConcatProperties DEF v, w
    <3>5. Len(v) = L - 1 /\ Len(w) = 2 /\ w[1] = sibling
      BY <3>1, <3>2 DEF v, w
    <3>6. L \in 1..(Len(v) + Len(w)) /\ ~(L <= Len(v)) /\ L - Len(v) = 1
      BY <3>5, <1>2
    <3>7. QED  BY <3>3, <3>4, <3>5, <3>6, <1>2
  <2>7. dir0[L] = at
    <3>1. dir \in Seq(0..1) /\ L \in 1..Len(dir)
      BY <1>2 DEF IInv, Places
    <3> DEFINE e == at
    <3>2. e \in 0..1 /\ dir0 = Append(dir, e)
      BY <1>2, <1>5 DEF dir0
    <3> HIDE DEF e, L
    <3>3. Append(dir, e)[L] = dir[L]
      BY ONLY <3>1, <3>2, AppendProperties
    <3>4. QED  BY <3>2, <3>3, <1>2, <1>5
  <2>8. lk0[sibling][at] = top
    BY <2>1, <1>2 DEF Relinked, sibling
  <2>9. (L + 1) - 1 = L
    BY <1>2
  <2> HIDE DEF L
  <2>10. QED  BY <1>2, <1>3, <2>3, <2>4, <2>5, <2>6, <2>7, <2>8, <2>9
<1>6. QED  BY <1>4, <1>5

(* A tree on the same nodes, after a step that ends the repair.            *)
LEMMA RepairEnds ==
  ASSUME IInv, Idle, UNCHANGED <<fate, keys>>, color' \in [Node -> {"RED", "BLACK"}],
         NEW T, Tree(link', root', Node, T)
  PROVE  IInv'
<1>1. /\ root' \in Node \cup {NULL} /\ link' \in [Node -> [0..1 -> Node \cup {NULL}]]
  BY DEF Tree
<1>2. Node' = Node
  BY <1>1 DEF Node
<1>3. SearchTree'
  BY <1>2 DEF SearchTree
<1>4. TypeOK'
  BY <1>1, <1>2 DEF TypeOK, IInv, Idle
<1>5. QED  BY <1>2, <1>3, <1>4, IdlePlaces DEF IInv

LEMMA RestructureKeepsIInv == ASSUME IInv, Restructure PROVE IInv'
<1> DEFINE inner == Black0(lk0[r0][1 - at])
           q == IF inner THEN lk0[r0][at] ELSE r0
           lk1 == IF inner THEN [Raise(lk0, r0, at) EXCEPT ![top][1 - at] = q] ELSE lk0
           co1 == IF inner THEN [co0 EXCEPT ![r0] = "RED", ![q] = "BLACK"] ELSE co0
           k == Len(stack0)
           p == stack0[k - 1]
           d == dir0[k - 1]
           lk2 == link'
           r2 == root'
<1>1. PICK S : Tree(link, root, Node, S)
  BY DEF IInv, SearchTree
<1>2. /\ root0 = root /\ co0 \in [Node -> {"RED", "BLACK"}]
      /\ p \in Node /\ d \in 0..1 /\ lk0[p][d] = top
  BY AfterRaising DEF Restructure
<1>3. PICK T : Tree(lk0, root, Node, T)
  BY AfterRaising DEF Restructure
<1>4. /\ top \in Node /\ at \in 0..1 /\ 1 - at \in 0..1 /\ 1 - (1 - at) = at /\ top # root
      /\ at # 1 - at
  <2>1. Deficient /\ sibling # NULL
    BY DEF Restructure
  <2>2. top \in Node /\ at \in 0..1 /\ top # root
    BY <1>1, <2>1, DeficientAt
  <2>3. QED  BY ONLY <2>2, Sides
<1>5. r0 = lk0[top][1 - at] /\ r0 # NULL
  BY DEF r0, Restructure
<1>6. r0 \in Node /\ r0 # root /\ r0 # top /\ top \notin T[r0]
  <2>1. r0 \in Node
    BY <1>3, <1>4, <1>5 DEF Tree
  <2>2. r0 # root
    BY <1>3, <1>4, <1>5, RootOnTop
  <2>3. top \notin T[r0]
    BY <1>3, <1>4, <1>5, Below
  <2>4. r0 \in T[r0]
    BY <1>3, <2>1 DEF Tree
  <2>5. QED  BY <2>1, <2>2, <2>3, <2>4
<1>7. \E U : /\ Tree(lk1, root, Node, U) /\ q # NULL
             /\ lk1[top][1 - at] = q /\ lk1[p][d] = top
  <2>1. CASE ~inner
    BY <2>1, <1>2, <1>3, <1>5
  <2>2. CASE inner
    <3>1. lk0[r0][at] # NULL
      <4>1. ~(Black0(lk0[r0][at]) /\ Black0(lk0[r0][1 - at]))
        BY <1>4, Sides DEF Restructure
      <4>2. QED  BY <4>1, <2>2 DEF Black0
    <3> DEFINE m == lk1
    <3>2. m = [Raise(lk0, r0, at) EXCEPT ![top][1 - at] = lk0[r0][at]] /\ q = lk0[r0][at]
      BY <2>2
    <3> HIDE DEF m
    <3>3. DOMAIN lk0 = Node
      BY <1>3 DEF Tree
    <3>4. Rotated(lk0, root, r0, at, m, root)
      BY <1>4, <1>5, <1>6, <3>2, <3>3 DEF Rotated
    <3>5. Relinked(lk0, root, Node, r0, at, m, root)
      BY <1>3, <1>4, <1>6, <3>1, <3>4, RotatedIsRelinked
    <3>6. Tree(m, root, Node, Turned(T, lk0, r0, at))
      BY <1>3, <1>4, <1>6, <3>1, <3>5, RotationKeepsTree
    <3>7. m[top][1 - at] = q
      <4>1. top # lk0[r0][at]
        <5>1. T[lk0[r0][at]] \subseteq T[r0]
          BY <1>3, <1>4, <1>6, Below
        <5>2. top \in T[top]
          BY <1>3, <1>4 DEF Tree
        <5>3. QED  BY <5>1, <5>2, <1>6
      <4>2. m[top][1 - at] = IF lk0[top][1 - at] = r0 THEN lk0[r0][at] ELSE lk0[top][1 - at]
        BY <4>1, <1>4, <1>6, <3>5 DEF Relinked
      <4>3. QED  BY <4>2, <1>5, <3>2
    <3>8. m[p][d] = top
      <4> HIDE DEF p, d
      <4>1. m[p][d] = lk0[p][d]
        BY <1>2, <1>3, <1>4, <1>6, <3>1, <3>5, AboveRotation
      <4>2. QED  BY <4>1, <1>2
    <3>9. QED  BY <3>1, <3>2, <3>6, <3>7, <3>8 DEF m
  <2>3. QED  BY <2>1, <2>2
<1>8. /\ lk2 = [Raise(lk1, top, 1 - at) EXCEPT ![p][d] = q] /\ r2 = root
      /\ color' = [co1 EXCEPT ![q] = co1[top], ![top] = "BLACK", ![lk1[q][1 - at]] = "BLACK"]
      /\ Idle /\ UNCHANGED <<fate, keys>>
  BY <1>2, <1>4 DEF Restructure, history
<1>9. color' \in [Node -> {"RED", "BLACK"}]
  <2>1. co1 \in [Node -> {"RED", "BLACK"}]
    BY <1>2
  <2> HIDE DEF co1, q, lk1
  <2>2. co1[top] \in {"RED", "BLACK"}
    BY <2>1, <1>4
  <2>3. QED  BY <2>1, <2>2, <1>8
<1> HIDE DEF q, lk1, co1, p, d, lk2, r2
<1>10. PICK U : /\ Tree(lk1, root, Node, U) /\ q # NULL
                /\ lk1[top][1 - at] = q /\ lk1[p][d] = top
  BY <1>7
<1>11. Rotated(lk1, root, top, 1 - at, lk2, r2)
  <2>1. DOMAIN lk1 = Node
    BY <1>10 DEF Tree
  <2>2. QED  BY <2>1, <1>2, <1>4, <1>8, <1>10 DEF Rotated
<1>12. Relinked(lk1, root, Node, top, 1 - at, lk2, r2)
  BY <1>4, <1>10, <1>11, RotatedIsRelinked
<1>13. Tree(lk2, r2, Node, Turned(U, lk1, top, 1 - at))
  BY <1>4, <1>10, <1>12, RotationKeepsTree
<1>14. QED
  BY <1>8, <1>9, <1>13, RepairEnds DEF lk2, r2

(* Each node of a path is in the subtrees of those above it, which are not *)
(* in its own.                                                             *)
Chain(lk, N, st, d, L) ==
  /\ L \in Nat /\ \A j \in 1..L : st[j] \in N /\ d[j] \in 0..1
  /\ \A j \in 1..(L - 1) : lk[st[j]][d[j]] = st[j + 1]

LEMMA Descends ==
  ASSUME NEW lk, NEW r, NEW N, NEW S, Tree(lk, r, N, S), NEW st, NEW d, NEW L,
         Chain(lk, N, st, d, L)
  PROVE  \A i, j \in 1..L : i < j =>
           S[st[j]] \subseteq S[lk[st[i]][d[i]]] /\ st[i] \notin S[st[j]]
<1> DEFINE Reaches(i) == \A j \in 1..L : i < j => S[st[j]] \subseteq S[lk[st[i]][d[i]]]
           P == {n \in N \cup {NULL} : \A i \in 1..L : st[i] = n => Reaches(i)}
<1> USE DEF Chain
<1>1. NULL \in P
  BY DEF Tree
<1>2. ASSUME NEW n \in N, lk[n][0] \in P, lk[n][1] \in P  PROVE n \in P
  <2> SUFFICES ASSUME NEW i \in 1..L, st[i] = n, NEW j \in 1..L, i < j
               PROVE  S[st[j]] \subseteq S[lk[st[i]][d[i]]]
    OBVIOUS
  <2>1. i + 1 \in 1..L /\ i \in 1..(L - 1)
    OBVIOUS
  <2>2. lk[n][d[i]] = st[i + 1] /\ d[i] \in 0..1
    BY <2>1
  <2>3. st[i + 1] \in P
    BY <1>2, <2>2, Sides
  <2>4. CASE j = i + 1
    BY <2>2, <2>4
  <2>5. CASE i + 1 < j
    <3>1. S[st[j]] \subseteq S[lk[st[i + 1]][d[i + 1]]]
      BY <2>1, <2>3, <2>5
    <3>2. S[lk[st[i + 1]][d[i + 1]]] \subseteq S[st[i + 1]]
      BY <2>1, Below
    <3>3. QED  BY <3>1, <3>2, <2>2
  <2>6. QED  BY <2>1, <2>4, <2>5
<1>3. N \cup {NULL} \subseteq P
  <2> HIDE DEF P
  <2> QED  BY <1>1, <1>2, TreeInduct
<1>4. ASSUME NEW i \in 1..L, NEW j \in 1..L, i < j
      PROVE  S[st[j]] \subseteq S[lk[st[i]][d[i]]] /\ st[i] \notin S[st[j]]
  <2>1. S[st[j]] \subseteq S[lk[st[i]][d[i]]]
    BY <1>3, <1>4
  <2>2. st[i] \notin S[lk[st[i]][d[i]]]
    BY Below
  <2>3. QED  BY <2>1, <2>2
<1>5. QED  BY <1>4

LEMMA PushUpKeepsIInv == ASSUME IInv, PushUp PROVE IInv'
<1> DEFINE L == Len(stack)
<1>1. PICK S : Tree(link, root, Node, S)
  BY DEF IInv, SearchTree
<1>2. /\ L \in Nat /\ L >= 2 /\ Len(dir) = L /\ top = stack[L] /\ Last(dir) = dir[L]
      /\ top \in Node /\ at \in 0..1 /\ 1 - at \in 0..1 /\ 1 - (1 - at) = at
      /\ stack[L - 1] \in Node /\ link[stack[L - 1]][at] = top /\ top # root
      /\ at = dir[L - 1] /\ (Raised => Last(dir) = at)
  BY <1>1, DeficientAt DEF PushUp
<1>3. root0 = root /\ co0 \in [Node -> {"RED", "BLACK"}]
  BY AfterRaising DEF PushUp
<1>4. PICK T : Tree(lk0, root, Node, T)
  BY AfterRaising DEF PushUp
<1>5. /\ root' = root /\ link' = lk0 /\ pc = "delete"
      /\ UNCHANGED <<fate, keys, pc>>
  BY <1>3 DEF PushUp, Deficient, history
<1>6. /\ lk0 \in [Node -> [0..1 -> Node \cup {NULL}]] /\ root \in Node \cup {NULL}
      /\ color' \in [Node -> {"RED", "BLACK"}] /\ Node' = Node
  <2>1. lk0 \in [Node -> [0..1 -> Node \cup {NULL}]] /\ root \in Node \cup {NULL}
    BY <1>4 DEF Tree
  <2>2. Node' = Node
    BY <2>1, <1>5 DEF Node
  <2>3. color' \in [Node -> {"RED", "BLACK"}]
    BY <1>3 DEF PushUp
  <2>4. QED  BY <2>1, <2>2, <2>3
<1>7. /\ stack \in Seq(Node) /\ dir \in Seq(0..1)
      /\ \A j \in 1..L : stack[j] \in Node /\ dir[j] \in 0..1
      /\ stack[1] = root
      /\ \A j \in 1..(L - 1) : link[stack[j]][dir[j]] = stack[j + 1]
  BY <1>5, Nodes DEF IInv, Places, DeletePath
(* The path goes on to where the deficiency has been pushed.               *)
<1>8. \E M \in Nat \ {0} :
        /\ stack' \in Seq(Node) /\ dir' \in Seq(0..1) /\ Len(stack') = M /\ Len(dir') = M
        /\ stack'[1] = root
        /\ \A j \in 1..(M - 1) : lk0[stack'[j]][dir'[j]] = stack'[j + 1]
  <2>1. CASE ~Raised
    <3>1. stack' = SubSeq(stack, 1, L - 1) /\ dir' = SubSeq(dir, 1, L - 1) /\ lk0 = link
      BY <2>1, <1>2 DEF PushUp, stack0, dir0, lk0, Front
    <3>2. L - 1 \in 0..L /\ L - 1 \in Nat \ {0}
      BY <1>2
    <3> HIDE DEF L
    <3>3. /\ stack' \in Seq(Node) /\ Len(stack') = L - 1
          /\ \A j \in 1..(L - 1) : stack'[j] = stack[j]
      BY <3>1, <3>2, <1>7, Prefix DEF L
    <3>4. /\ dir' \in Seq(0..1) /\ Len(dir') = L - 1
          /\ \A j \in 1..(L - 1) : dir'[j] = dir[j]
      BY <3>1, <3>2, <1>2, <1>7, Prefix DEF L
    <3>5. \A j \in 1..((L - 1) - 1) : link[stack'[j]][dir'[j]] = stack'[j + 1]
      <4> SUFFICES ASSUME NEW j \in 1..((L - 1) - 1)
                   PROVE  link[stack'[j]][dir'[j]] = stack'[j + 1]
        OBVIOUS
      <4>1. j \in 1..(L - 1) /\ j + 1 \in 1..(L - 1)
        BY <1>2
      <4>2. QED  BY <4>1, <3>3, <3>4, <1>7
    <3>6. QED  BY <3>1, <3>2, <3>3, <3>4, <3>5, <1>2, <1>7
  <2>2. CASE Raised
    <3>1. Relinked(link, root, Node, top, 1 - at, lk0, root)
      BY <1>1, <2>2, SiblingRaised DEF PushUp
    <3>2. link[top][1 - at] = sibling /\ sibling # NULL /\ sibling \in Node
      <4>1. link[top][1 - at] \in Node \cup {NULL}
        BY <1>1, <1>2, Below
      <4>2. QED  BY <4>1 DEF PushUp, sibling
    <3>3. /\ stack' \in Seq(Node) /\ Len(stack') = L /\ stack'[L] = sibling
          /\ \A j \in 1..(L - 1) : stack'[j] = stack[j]
      <4> DEFINE v == Front(stack)
                 w == <<sibling, top>>
                 u == v \o w
      <4>1. w \in Seq(Node) /\ Len(w) = 2 /\ w[1] = sibling
        BY <1>2, <3>2
      <4>2. v \in Seq(Node) /\ Len(v) = L - 1 /\ \A j \in 1..(L - 1) : v[j] = stack[j]
        <5>1. L - 1 \in 0..L
          BY <1>2
        <5>2. QED  BY <5>1, <1>7, Prefix DEF Front
      <4>3. stack' = Front(u)
        BY <2>2 DEF PushUp, stack0
      <4> HIDE DEF v, w
      <4>4. /\ u \in Seq(Node) /\ Len(u) = Len(v) + Len(w)
            /\ \A i \in 1..(Len(v) + Len(w)) :
                 u[i] = IF i <= Len(v) THEN v[i] ELSE w[i - Len(v)]
        BY <4>1, <4>2, ConcatProperties
      <4> HIDE DEF u, L
      <4>5. Len(u) = L + 1 /\ L \in 0..(L + 1) /\ (L + 1) - 1 = L
        BY <4>1, <4>2, <4>4, <1>2
      <4>6. stack' = SubSeq(u, 1, L)
        BY <4>3, <4>5 DEF Front
      <4>7. stack' \in Seq(Node) /\ Len(stack') = L /\ \A j \in 1..L : stack'[j] = u[j]
        BY <4>4, <4>5, <4>6, Prefix
      <4>8. u[L] = sibling
        <5>1. L \in 1..(Len(v) + Len(w)) /\ ~(L <= Len(v)) /\ L - Len(v) = 1
          BY <4>1, <4>2, <1>2
        <5>2. QED  BY <5>1, <4>1, <4>4
      <4>9. ASSUME NEW j \in 1..(L - 1)  PROVE u[j] = stack[j]
        <5>1. j \in 1..(Len(v) + Len(w)) /\ j <= Len(v)
          BY <4>1, <4>2, <1>2
        <5>2. u[j] = v[j]
          BY <5>1, <4>4
        <5>3. QED  BY <5>2, <4>2
      <4>10. QED  BY <4>7, <4>8, <4>9, <1>2
    <3>4. dir' = dir
      <4> DEFINE e == Append(dir, at)
      <4>1. /\ e \in Seq(0..1) /\ Len(e) = L + 1
            /\ \A j \in 1..L : e[j] = dir[j]
        BY <1>2, <1>7, AppendProperties
      <4>2. dir' = SubSeq(e, 1, L)
        <5>1. dir' = SubSeq(e, 1, Len(e) - 1)
          BY <2>2 DEF PushUp, dir0, Front
        <5>2. Len(e) - 1 = L
          BY <4>1, <1>2
        <5> HIDE DEF e, L
        <5>3. QED  BY <5>1, <5>2
      <4> HIDE DEF e
      <4>3. dir' \in Seq(0..1) /\ Len(dir') = L /\ \A j \in 1..L : dir'[j] = e[j]
        <5>1. L \in 0..Len(e)
          BY <4>1, <1>2
        <5>2. QED  BY <4>1, <4>2, <5>1, Prefix
      <4>4. QED  BY <4>1, <4>3, <1>2, <1>7, SeqEqual
    <3>5. \A i, j \in 1..L : i < j => stack[i] \notin S[stack[j]]
      <4> HIDE DEF L
      <4>1. Chain(link, Node, stack, dir, L)
        BY <1>2, <1>7 DEF Chain
      <4>2. QED  BY <1>1, <4>1, Descends
    <3>6. \A j \in 1..(L - 1) : lk0[stack'[j]][dir'[j]] = stack'[j + 1]
      <4> SUFFICES ASSUME NEW j \in 1..(L - 1)
                   PROVE  lk0[stack'[j]][dir'[j]] = stack'[j + 1]
        OBVIOUS
      <4>1. stack'[j] = stack[j] /\ dir'[j] = dir[j] /\ link[stack[j]][dir[j]] = stack[j + 1]
            /\ stack[j] \in Node /\ dir[j] \in 0..1 /\ j + 1 \in 1..L /\ stack[j + 1] \in Node
        BY <3>3, <3>4, <1>2, <1>7
      <4>2. CASE j = L - 1
        <5>1. stack[j + 1] = top /\ stack'[j + 1] = sibling
          BY <4>2, <3>3, <1>2
        <5>2. stack[j] \notin {top, sibling}
          <6>1. \A m \in Node, t \in 0..1 : S[link[m][t]] \subseteq S[m] /\ m \notin S[link[m][t]]
            BY <1>1, Below
          <6>2. \A m \in Node : m \in S[m]
            BY <1>1 DEF Tree
          <6>3. QED  BY <6>1, <6>2, <4>1, <5>1, <3>2, <1>2
        <5>3. QED  BY <4>1, <5>1, <5>2, <3>1, <3>2 DEF Relinked
      <4>3. CASE j < L - 1
        <5>1. stack'[j + 1] = stack[j + 1]
          BY <4>3, <3>3, <1>2
        <5>2. stack[j + 1] \notin S[top]
          BY <4>3, <3>5, <1>2
        <5>3. lk0[stack[j]][dir[j]] = stack[j + 1]
          BY <1>1, <1>2, <3>1, <3>2, <4>1, <5>2, AboveRotation
        <5>4. QED  BY <4>1, <5>1, <5>3
      <4>4. QED  BY <4>2, <4>3, <1>2
    <3>7. stack'[1] = root
      BY <3>3, <1>2, <1>7
    <3>8. QED
      BY <3>3, <3>4, <3>6, <3>7, <1>2, <1>7
  <2>3. QED  BY <2>1, <2>2
<1>9. Places' /\ InsertPath' /\ DeletePath' /\ Len(stack') = Len(dir')
  BY <1>5, <1>6, <1>8 DEF Places, InsertPath, DeletePath
<1>10. TypeOK'
  BY <1>5, <1>6, <1>9 DEF TypeOK, IInv
<1>11. SearchTree'
  BY <1>4, <1>5, <1>6 DEF SearchTree
<1>12. QED
  BY <1>5, <1>6, <1>9, <1>10, <1>11 DEF IInv

LEMMA CrashKeepsIInv == ASSUME IInv, Crash PROVE IInv'
  BY StandingStillKeepsIInv DEF Crash

-----------------------------------------------------------------------------
(* Deletion: a node with one child at most is cut off, and where the       *)
(* successor replaces a node it has been cut off first.                    *)
Without(S, N, k) == [n \in (N \ {k}) \cup {NULL} |-> S[n] \ {k}]

(* The links lk2 that are left without k: y hangs where k did, and all else *)
(* is as in lk1.                                                           *)
Leaves(k, y, lk, lk1, lk2, N) ==
  /\ lk2 \in [N \ {k} -> [0..1 -> N \cup {NULL}]]
  /\ \A n \in N \ {k}, t \in 0..1 : lk2[n][t] = IF lk[n][t] = k THEN y ELSE lk1[n][t]

(* No subtree loses another node than k.                                   *)
LosesOnly(k, lk, S, lk2, U, N) ==
  \A n \in N \ {k}, t \in 0..1 : U[lk2[n][t]] = S[lk[n][t]] \ {k}

LEMMA CutKeepsTree ==
  ASSUME NEW lk, NEW r, NEW N, NEW S, Tree(lk, r, N, S), NEW k \in N, NEW s \in 0..1,
         lk[k][s] = NULL, NEW c, c = lk[k][1 - s], NEW r2, r2 = IF r = k THEN c ELSE r,
         NEW lk2, Leaves(k, c, lk, lk, lk2, N)
  PROVE  /\ Tree(lk2, r2, N \ {k}, Without(S, N, k))
         /\ LosesOnly(k, lk, S, lk2, Without(S, N, k), N)
<1> DEFINE M == N \ {k}
           T == Without(S, N, k)
<1>0. \A n \in M, t \in 0..1 : lk2[n][t] = IF lk[n][t] = k THEN c ELSE lk[n][t]
  BY DEF Leaves
<1>1. /\ N \subseteq Int /\ NULL \notin N /\ IsFiniteSet(N) /\ r \in N \cup {NULL}
      /\ lk \in [N -> [0..1 -> N \cup {NULL}]]
      /\ S \in [N \cup {NULL} -> SUBSET N] /\ S[NULL] = {} /\ S[r] = N
  BY DEF Tree
<1>2. M \subseteq Int /\ NULL \notin M /\ IsFiniteSet(M)
  BY <1>1, FS_RemoveElement
<1>3. /\ c \in N \cup {NULL} /\ c # k /\ S[k] = S[c] \cup {k} /\ k \notin S[c]
      /\ 1 - s \in 0..1
  <2>1. /\ 1 - s \in 0..1 /\ c \in N \cup {NULL} /\ k \in S[k]
        /\ S[k] = S[lk[k][s]] \cup {k} \cup S[c]
    BY Below
  <2>2. k \notin S[c]
    BY <2>1, Below
  <2>3. c # k
    BY <2>1, <2>2
  <2>4. QED  BY <2>1, <2>2, <2>3, <1>1
<1>4. /\ T \in [M \cup {NULL} -> SUBSET M]
      /\ \A n \in M \cup {NULL} : T[n] = S[n] \ {k}
  BY <1>1 DEF Without
<1> HIDE DEF T
<1>5. ASSUME NEW n \in M, NEW t \in 0..1
      PROVE  lk2[n][t] \in M \cup {NULL} /\ T[lk2[n][t]] = S[lk[n][t]] \ {k}
  <2>1. lk[n][t] \in N \cup {NULL}
    BY <1>1
  <2>2. CASE lk[n][t] = k
    <3>1. lk2[n][t] = c
      BY <1>0, <2>2
    <3>2. T[c] = S[c] \ {k} /\ c \in M \cup {NULL}
      BY <1>3, <1>4
    <3>3. QED  BY <3>1, <3>2, <2>2, <1>3
  <2>3. CASE lk[n][t] # k
    <3>1. lk2[n][t] = lk[n][t] /\ lk[n][t] \in M \cup {NULL}
      BY <1>0, <2>1, <2>3
    <3>2. QED  BY <3>1, <1>4
  <2>4. QED  BY <2>2, <2>3
<1>6. lk2 \in [M -> [0..1 -> M \cup {NULL}]]
  <2>1. ASSUME NEW n \in M  PROVE lk2[n] \in [0..1 -> M \cup {NULL}]
    BY <1>5 DEF Leaves
  <2>2. QED  BY <2>1 DEF Leaves
<1>7. ASSUME NEW n \in M  PROVE T[n] = T[lk2[n][0]] \cup {n} \cup T[lk2[n][1]]
  <2>1. S[n] = S[lk[n][0]] \cup {n} \cup S[lk[n][1]]
    BY DEF Tree
  <2>2. /\ T[n] = S[n] \ {k} /\ T[lk2[n][0]] = S[lk[n][0]] \ {k}
        /\ T[lk2[n][1]] = S[lk[n][1]] \ {k}
    BY <1>4, <1>5
  <2>3. QED  BY <2>1, <2>2
<1>8. ASSUME NEW n \in M, NEW t \in 0..1, NEW m \in T[lk2[n][t]]  PROVE Beside(m, t, n)
  <2>1. T[lk2[n][t]] = S[lk[n][t]] \ {k}
    BY <1>5
  <2>2. m \in S[lk[n][t]]
    BY <2>1, <1>8
  <2>3. QED  BY <2>2 DEF Tree
<1>9. ASSUME NEW n \in M, NEW m \in M, NEW t \in 0..1, NEW u \in 0..1,
             lk2[n][t] = lk2[m][u], lk2[n][t] # NULL
      PROVE  n = m /\ t = u
  <2>1. \A i, j \in N, d, e \in 0..1 :
          lk[i][d] = lk[j][e] /\ lk[i][d] # NULL => i = j /\ d = e
    BY DEF Tree
  <2>2. \A i \in M, d \in 0..1 : lk[i][d] # NULL => lk[i][d] # c
    BY <2>1, <1>3
  <2>3. k # NULL
    BY <1>1
  <2>4. lk2[n][t] = (IF lk[n][t] = k THEN c ELSE lk[n][t])
        /\ lk2[m][u] = (IF lk[m][u] = k THEN c ELSE lk[m][u])
    BY <1>0
  <2>5. QED  BY <2>1, <2>2, <2>3, <2>4, <1>9
<1>10. r2 \in M \cup {NULL} /\ T[r2] = M /\ T[NULL] = {}
  <2>1. T[NULL] = {}
    BY <1>1, <1>4
  <2>2. CASE r = k
    <3>1. r2 = c /\ c \in M \cup {NULL} /\ N = S[c] \cup {k}
      BY <2>2, <1>1, <1>3
    <3>2. T[c] = S[c] \ {k}
      BY <3>1, <1>4
    <3>3. QED  BY <2>1, <3>1, <3>2
  <2>3. CASE r # k
    <3>1. r2 = r /\ r \in M \cup {NULL} /\ S[r] = N
      BY <2>3, <1>1
    <3>2. T[r] = S[r] \ {k}
      BY <3>1, <1>4
    <3>3. QED  BY <2>1, <3>1, <3>2
  <2>4. QED  BY <2>2, <2>3
<1>11. QED
  BY <1>2, <1>4, <1>5, <1>6, <1>7, <1>8, <1>9, <1>10 DEF Tree, T, LosesOnly

(* y takes the place of k.                                                 *)
Swapped(A, k, y) == IF k \in A THEN (A \ {k}) \cup {y} ELSE A

Renamed(S, N, k, y) ==
  [n \in (N \ {k}) \cup {y, NULL} |-> Swapped(S[IF n = y THEN k ELSE n], k, y)]

(* y belongs where k is, and has the links of k in lk2.                    *)
Fits(k, y, lk, S, N) ==
  /\ \A n \in N, t \in 0..1 : k \in S[lk[n][t]] => Beside(y, t, n)
  /\ \A t \in 0..1 : \A m \in S[lk[k][t]] : Beside(m, t, y)

Takes(k, y, lk, lk2, N) ==
  /\ lk2 \in [(N \ {k}) \cup {y} -> [0..1 -> N \cup {y, NULL}]]
  /\ \A t \in 0..1 : lk2[y][t] = lk[k][t]
  /\ \A n \in N \ {k}, t \in 0..1 : lk2[n][t] = IF lk[n][t] = k THEN y ELSE lk[n][t]

LEMMA RenameKeepsTree ==
  ASSUME NEW lk, NEW r, NEW N, NEW S, Tree(lk, r, N, S), NEW k \in N,
         NEW y \in Int \ N, y # NULL,
         Fits(k, y, lk, S, N), NEW lk2, Takes(k, y, lk, lk2, N),
         NEW r2, r2 = IF r = k THEN y ELSE r
  PROVE  Tree(lk2, r2, (N \ {k}) \cup {y}, Renamed(S, N, k, y))
<1> DEFINE M == (N \ {k}) \cup {y}
           T == Renamed(S, N, k, y)
           old(n) == IF n = y THEN k ELSE n
<1> USE DEF Fits, Takes
<1>1. /\ N \subseteq Int /\ NULL \notin N /\ IsFiniteSet(N) /\ r \in N \cup {NULL}
      /\ lk \in [N -> [0..1 -> N \cup {NULL}]]
      /\ S \in [N \cup {NULL} -> SUBSET N] /\ S[NULL] = {} /\ S[r] = N
  BY DEF Tree
<1>2. M \subseteq Int /\ NULL \notin M /\ IsFiniteSet(M)
  <2>1. IsFiniteSet(N \ {k})
    BY <1>1, FS_RemoveElement
  <2>2. QED  BY <2>1, <1>1, FS_AddElement
<1>3. /\ T \in [M \cup {NULL} -> SUBSET M]
      /\ T[y] = Swapped(S[k], k, y)
      /\ \A n \in (N \ {k}) \cup {NULL} : T[n] = Swapped(S[n], k, y)
  <2>1. \A n \in M \cup {NULL} : old(n) \in N \cup {NULL}
    OBVIOUS
  <2>2. \A A \in SUBSET N : Swapped(A, k, y) \in SUBSET M
    BY DEF Swapped
  <2>3. QED  BY <2>1, <2>2, <1>1 DEF Renamed
<1> HIDE DEF T
<1>4. ASSUME NEW n \in M, NEW t \in 0..1
      PROVE  /\ old(n) \in N /\ lk[old(n)][t] \in N \cup {NULL}
             /\ lk2[n][t] = IF lk[old(n)][t] = k THEN y ELSE lk[old(n)][t]
             /\ lk2[n][t] \in M \cup {NULL}
             /\ T[lk2[n][t]] = Swapped(S[lk[old(n)][t]], k, y)
             /\ lk2[n][t] = y <=> lk[old(n)][t] = k
  <2>1. old(n) \in N /\ lk[old(n)][t] \in N \cup {NULL}
    BY <1>1
  <2>2. lk[k][t] # k
    <3>1. k \in S[k] /\ k \notin S[lk[k][t]]
      BY Below
    <3>2. QED  BY <3>1
  <2>3. lk2[n][t] = IF lk[old(n)][t] = k THEN y ELSE lk[old(n)][t]
    BY <2>2
  <2> HIDE DEF old
  <2>4. CASE lk[old(n)][t] = k
    BY <2>1, <2>3, <2>4, <1>3
  <2>5. CASE lk[old(n)][t] # k
    <3>1. lk[old(n)][t] \in (N \ {k}) \cup {NULL} /\ lk[old(n)][t] # y
      BY <2>1, <2>5
    <3>2. QED  BY <3>1, <2>1, <2>3, <2>5, <1>3
  <2>6. QED  BY <2>4, <2>5
<1>5. lk2 \in [M -> [0..1 -> M \cup {NULL}]]
  <2>1. ASSUME NEW n \in M  PROVE lk2[n] \in [0..1 -> M \cup {NULL}]
    BY <1>4
  <2>2. QED  BY <2>1
<1>6. ASSUME NEW n \in M  PROVE T[n] = T[lk2[n][0]] \cup {n} \cup T[lk2[n][1]]
  <2>1. /\ T[n] = Swapped(S[old(n)], k, y)
        /\ T[lk2[n][0]] = Swapped(S[lk[old(n)][0]], k, y)
        /\ T[lk2[n][1]] = Swapped(S[lk[old(n)][1]], k, y)
    BY <1>3, <1>4
  <2>2. S[old(n)] = S[lk[old(n)][0]] \cup {old(n)} \cup S[lk[old(n)][1]]
    BY <1>4 DEF Tree
  <2>3. y \notin N /\ S[old(n)] \subseteq N
    BY <1>1
  <2>4. CASE n = y
    <3>1. k \notin S[lk[k][0]] /\ k \notin S[lk[k][1]]
      BY Below
    <3>2. QED  BY <3>1, <2>1, <2>2, <2>4 DEF Swapped
  <2>5. CASE n # y
    <3>1. old(n) = n /\ n # k
      BY <2>5
    <3>2. QED  BY <3>1, <2>1, <2>2, <2>5 DEF Swapped
  <2>6. QED  BY <2>4, <2>5
<1>7. ASSUME NEW n \in M, NEW t \in 0..1, NEW m \in T[lk2[n][t]]  PROVE Beside(m, t, n)
  <2>1. m \in Swapped(S[lk[old(n)][t]], k, y)
    BY <1>4
  <2>2. CASE n = y
    <3>1. k \notin S[lk[k][t]]
      BY Below
    <3>2. m \in S[lk[k][t]]
      BY <3>1, <2>1, <2>2 DEF Swapped
    <3>3. QED  BY <3>2, <2>2
  <2>3. CASE n # y
    <3>1. n \in N /\ m \in Swapped(S[lk[n][t]], k, y)
      BY <2>1, <2>3
    <3>2. CASE m \in S[lk[n][t]]
      BY <3>1, <3>2 DEF Tree
    <3>3. CASE m = y /\ k \in S[lk[n][t]]
      BY <3>1, <3>3
    <3>4. QED  BY <3>1, <3>2, <3>3 DEF Swapped
  <2>4. QED  BY <2>2, <2>3
<1>8. ASSUME NEW n \in M, NEW m \in M, NEW t \in 0..1, NEW u \in 0..1,
             lk2[n][t] = lk2[m][u], lk2[n][t] # NULL
      PROVE  n = m /\ t = u
  <2>1. /\ lk2[n][t] = (IF lk[old(n)][t] = k THEN y ELSE lk[old(n)][t])
        /\ lk2[m][u] = (IF lk[old(m)][u] = k THEN y ELSE lk[old(m)][u])
        /\ (lk2[n][t] = y <=> lk[old(n)][t] = k) /\ (lk2[m][u] = y <=> lk[old(m)][u] = k)
        /\ old(n) \in N /\ old(m) \in N /\ k # NULL
    BY <1>1, <1>4
  <2>2. old(n) = old(m) => n = m
    OBVIOUS
  <2> HIDE DEF old
  <2>3. lk[old(n)][t] = lk[old(m)][u] /\ lk[old(n)][t] # NULL
    BY <2>1, <1>8
  <2>4. QED  BY <2>1, <2>2, <2>3 DEF Tree
<1>9. r2 \in M \cup {NULL} /\ T[r2] = M /\ T[NULL] = {}
  <2>1. T[NULL] = {}
    BY <1>1, <1>3 DEF Swapped
  <2>2. CASE r = k
    BY <2>1, <2>2, <1>1, <1>3 DEF Swapped
  <2>3. CASE r # k
    <3>1. r \in N
      BY <1>1
    <3>2. QED  BY <2>1, <2>3, <3>1, <1>1, <1>3 DEF Swapped
  <2>4. QED  BY <2>2, <2>3
<1>10. QED
  BY <1>2, <1>3, <1>5, <1>6, <1>7, <1>8, <1>9 DEF Tree, T

(* y, the least node of the right subtree of k, takes the place of k.      *)
Succeeds(k, y, lk, lk2, N) ==
  /\ lk2 \in [N \ {k} -> [0..1 -> N \cup {NULL}]]
  /\ \A n \in N \ {k}, t \in 0..1 :
       LET m == lk[IF n = y THEN k ELSE n][t]
       IN  lk2[n][t] = IF m = y THEN lk[y][1] ELSE IF m = k THEN y ELSE m

LEMMA SuccessorKeepsTree ==
  ASSUME NEW lk, NEW r, NEW N, NEW S, Tree(lk, r, N, S), NEW k \in N,
         NEW y \in S[lk[k][1]], lk[y][0] = NULL, \A m \in S[lk[k][1]] : m # y => y < m,
         NEW r2, r2 = IF r = k THEN y ELSE r, NEW lk2, Succeeds(k, y, lk, lk2, N)
  PROVE  \E T : Tree(lk2, r2, N \ {k}, T)
<1> DEFINE c == lk[y][1]
           M == N \ {y}
           lk1 == [n \in M |-> [t \in 0..1 |-> IF lk[n][t] = y THEN c ELSE lk[n][t]]]
           U == Without(S, N, y)
<1>1. /\ N \subseteq Int /\ NULL \notin N /\ r \in N \cup {NULL} /\ S[r] = N
      /\ S \in [N \cup {NULL} -> SUBSET N]
      /\ lk \in [N -> [0..1 -> N \cup {NULL}]]
  BY DEF Tree
<1>2. /\ lk[k][1] \in N \cup {NULL} /\ k \notin S[lk[k][1]] /\ k \in S[k]
      /\ S[lk[k][1]] \subseteq S[k] /\ S[k] \subseteq N
      /\ \A m \in S[lk[k][1]] : Beside(m, 1, k) /\ m \notin S[lk[k][0]]
  <2>1. 1 \in 0..1 /\ 1 - 1 = 0
    OBVIOUS
  <2>2. QED  BY <2>1, Below
<1>3. y \in N /\ y # k /\ y \in S[k] /\ k \notin S[y] /\ S[y] \subseteq S[lk[k][1]]
  BY <1>1, <1>2, Nested
<1>4. /\ c \in N \cup {NULL} /\ c # k /\ c # y
  <2>1. y \notin S[c] /\ S[c] \subseteq S[y] /\ c \in N \cup {NULL} /\ y \in S[y]
    <3>1. 1 \in 0..1
      OBVIOUS
    <3>2. QED  BY <3>1, <1>3, Below
  <2>2. QED  BY <2>1, <1>2, <1>3
<1>5. r # y
  BY <1>1, <1>3
<1>6. /\ Tree(lk1, r, M, U) /\ LosesOnly(y, lk, S, lk1, U, N)
  <2>1. Leaves(y, c, lk, lk, lk1, N)
    <3>1. ASSUME NEW n \in M
          PROVE  [t \in 0..1 |-> IF lk[n][t] = y THEN c ELSE lk[n][t]] \in [0..1 -> N \cup {NULL}]
      BY <1>1, <1>4
    <3> HIDE DEF c
    <3>2. QED  BY <3>1 DEF Leaves
  <2> DEFINE s == 0
  <2>2. s \in 0..1 /\ c = lk[y][1 - s] /\ lk[y][s] = NULL
    OBVIOUS
  <2>3. r = IF r = y THEN c ELSE r
    BY <1>5
  <2> HIDE DEF c, s, lk1
  <2>4. QED  BY <1>3, <2>1, <2>2, <2>3, CutKeepsTree
<1>7. \A n \in M, t \in 0..1 : lk1[n][t] = IF lk[n][t] = y THEN c ELSE lk[n][t]
  OBVIOUS
<1> HIDE DEF lk1, U, c
<1>8. Fits(k, y, lk1, U, M)
  <2>1. ASSUME NEW n \in M, NEW t \in 0..1, k \in U[lk1[n][t]]  PROVE Beside(y, t, n)
    <3>1. k \in S[lk[n][t]] /\ lk[n][t] \in N \cup {NULL}
      BY <2>1, <1>1, <1>6 DEF LosesOnly
    <3>2. y \in S[lk[n][t]]
      BY <3>1, <1>3, Nested
    <3>3. QED  BY <3>2 DEF Tree
  <2>2. ASSUME NEW t \in 0..1, NEW m \in U[lk1[k][t]]  PROVE Beside(m, t, y)
    <3>1. m \in S[lk[k][t]] /\ m # y
      BY <2>2, <1>3, <1>6 DEF LosesOnly
    <3>2. CASE t = 0
      <4>1. Beside(m, 0, k) /\ m \in Int
        BY <3>1, <3>2, <1>1, Below
      <4>2. Beside(y, 1, k)
        BY <1>2
      <4>3. QED  BY <4>1, <4>2, <3>2, <1>1, <1>3 DEF Beside, side
    <3>3. CASE t = 1
      BY <3>1, <3>3, <1>1, <1>2 DEF Beside, side
    <3>4. QED  BY <3>2, <3>3
  <2>3. QED  BY <2>1, <2>2 DEF Fits
<1>9. Takes(k, y, lk1, lk2, M)
  <2>1. /\ (M \ {k}) \cup {y} = N \ {k} /\ M \cup {y, NULL} = N \cup {NULL}
    BY <1>3
  <2>2. lk2 \in [(M \ {k}) \cup {y} -> [0..1 -> M \cup {y, NULL}]]
    BY <2>1 DEF Succeeds
  <2>3. ASSUME NEW t \in 0..1  PROVE lk2[y][t] = lk1[k][t]
    <3>1. lk[k][t] # k
      BY <1>2, Below
    <3>2. QED  BY <3>1, <1>3, <1>7 DEF Succeeds, c
  <2>4. ASSUME NEW n \in M \ {k}, NEW t \in 0..1
        PROVE  lk2[n][t] = IF lk1[n][t] = k THEN y ELSE lk1[n][t]
    BY <1>3, <1>4, <1>7 DEF Succeeds, c
  <2>5. QED  BY <2>2, <2>3, <2>4 DEF Takes
<1>10. Tree(lk2, r2, (M \ {k}) \cup {y}, Renamed(U, M, k, y))
  <2>1. k \in M /\ y \in Int \ M /\ y # NULL
    BY <1>1, <1>3
  <2> HIDE DEF M
  <2>2. QED  BY <2>1, <1>6, <1>8, <1>9, RenameKeepsTree
<1>11. (M \ {k}) \cup {y} = N \ {k}
  BY <1>3
<1>12. QED  BY <1>10, <1>11

(* The way down to a node of the tree.                                     *)
LEMMA WayToNode ==
  ASSUME IInv, NEW S, Tree(link, root, Node, S), NEW k \in Node, NEW w, w = down(k, root)
  PROVE  /\ w \in Seq(Node \ {k}) /\ Len(w) \in Nat /\ (w = <<>> <=> Len(w) = 0)
         /\ (Len(w) = 0 <=> root = k) /\ (Len(w) > 0 => w[1] = root)
         /\ \A n \in Node, t \in 0..1 :
              link[n][t] = k <=> Len(w) > 0 /\ n = w[Len(w)] /\ t = side(k, n)
         /\ \A j \in 1..Len(w) :
              /\ w[j] \in Node \ {k} /\ w[j] \notin S[k] /\ side(k, w[j]) \in 0..1
              /\ link[w[j]][side(k, w[j])] = IF j < Len(w) THEN w[j + 1] ELSE k
<1>1. /\ k \in Keys /\ k # NULL /\ root \in Node /\ S[root] = Node
      /\ NULL \notin Node
  BY Nodes DEF Tree
<1>2. Way(w, k, root, Node)
  BY <1>1, DownIsWay
<1>3. /\ w \in Seq(Node) /\ Len(w) \in Nat /\ (w = <<>> <=> Len(w) = 0)
      /\ (Len(w) = 0 <=> root = k) /\ (Len(w) > 0 => w[1] = root)
      /\ \A j \in 1..Len(w) :
           /\ w[j] \in Node \ {k} /\ side(k, w[j]) \in 0..1
           /\ link[w[j]][side(k, w[j])] = IF j < Len(w) THEN w[j + 1] ELSE k
  <2>1. w \in Seq(Node) /\ Len(w) \in Nat
    BY <1>2, LenProperties DEF Way
  <2>2. w = <<>> <=> Len(w) = 0
    BY <2>1, EmptySeq
  <2>3. \A j \in 1..Len(w) : w[j] \in Node \ {k} /\ side(k, w[j]) \in 0..1
    BY <1>2, <2>1, ElementOfSeq, SideIs DEF Way
  <2>4. QED  BY <1>1, <1>2, <2>1, <2>2, <2>3 DEF Way
<1>4. w \in Seq(Node \ {k})
  BY <1>3, LenProperties
<1>5. ASSUME NEW n \in Node, NEW t \in 0..1, link[n][t] = k
      PROVE  Len(w) > 0 /\ n = w[Len(w)] /\ t = side(k, n)
  <2>1. Len(w) > 0
    <3>1. link[n][t] # root
      BY RootOnTop
    <3>2. QED  BY <3>1, <1>3, <1>5
  <2> DEFINE l == w[Len(w)]
  <2>2. l \in Node /\ side(k, l) \in 0..1 /\ link[l][side(k, l)] = k
    BY <1>3, <2>1
  <2> HIDE DEF l
  <2>3. n = l /\ t = side(k, l)
    BY <2>2, <1>1, <1>5 DEF Tree
  <2>4. QED  BY <2>1, <2>3 DEF l
<1>6. ASSUME NEW n \in Node, NEW t \in 0..1, Len(w) > 0, n = w[Len(w)], t = side(k, n)
      PROVE  link[n][t] = k
  BY <1>3, <1>6
<1>7. \A j \in 1..Len(w) : w[j] \notin S[k]
  <2> DEFINE L == Len(w)
             d == [j \in 1..L |-> side(k, w[j])]
  <2>1. Chain(link, Node, w, d, L)
    BY <1>3 DEF Chain
  <2> HIDE DEF d, L
  <2>2. \A i, j \in 1..L : i < j => w[i] \notin S[w[j]]
    BY <2>1, Descends
  <2>3. L > 0 => w[L] \in Node /\ w[L] \notin S[k] /\ S[k] \subseteq S[w[L]]
    <3> SUFFICES ASSUME L > 0  PROVE w[L] \in Node /\ w[L] \notin S[k] /\ S[k] \subseteq S[w[L]]
      OBVIOUS
    <3>1. w[L] \in Node /\ side(k, w[L]) \in 0..1 /\ link[w[L]][side(k, w[L])] = k
      BY <1>3 DEF L
    <3> DEFINE l == w[L]
               t == side(k, w[L])
    <3>2. l \in Node /\ t \in 0..1 /\ link[l][t] = k
      BY <3>1
    <3> HIDE DEF l, t
    <3>3. l \notin S[link[l][t]] /\ S[link[l][t]] \subseteq S[l]
      BY <3>2, Below
    <3>4. QED  BY <3>2, <3>3 DEF l
  <2>4. L \in Nat
    BY <1>3 DEF L
  <2>5. ASSUME NEW j \in 1..L  PROVE w[j] \notin S[k]
    <3>1. CASE j = L
      BY <3>1, <2>3, <2>4
    <3>2. CASE j < L
      <4>1. w[j] \notin S[w[L]]
        BY <3>2, <2>2, <2>4
      <4>2. QED  BY <4>1, <2>3, <2>4
    <3>3. QED  BY <3>1, <3>2, <2>4
  <2>6. QED  BY <2>5 DEF L
<1>8. QED  BY <1>3, <1>4, <1>5, <1>6, <1>7

LEMMA VacatedLinks ==
  ASSUME IInv, NEW S, Tree(link, root, Node, S), NEW k \in Node, NEW y \in Node \cup {NULL},
         NEW lk, lk \in [Node -> [0..1 -> Node \cup {NULL}]], NEW co, NEW p, NEW d, NEW gone,
         Vacate(k, y, lk, co, p, d, gone), NEW w, w = down(k, root), p = <<>> => w = <<>>
  PROVE  Node' = Node \ {k} /\ Leaves(k, y, link, lk, link', Node)
<1> DEFINE l == w[Len(w)]
           hooks == p # <<>> /\ Len(w) > 0
<1>1. link' = [n \in Node \ {k} |->
                 IF hooks /\ n = l THEN [lk[n] EXCEPT ![side(k, n)] = y] ELSE lk[n]]
  BY DEF Vacate, Last
<1>2. /\ (w = <<>> <=> Len(w) = 0)
      /\ \A n \in Node, t \in 0..1 :
           link[n][t] = k <=> Len(w) > 0 /\ n = w[Len(w)] /\ t = side(k, n)
  <2>1. IInv /\ Tree(link, root, Node, S) /\ k \in Node /\ w = down(k, root)
    OBVIOUS
  <2>2. /\ (w = <<>> <=> Len(w) = 0)
        /\ \A n \in Node, t \in 0..1 :
              link[n][t] = k <=> Len(w) > 0 /\ n = w[Len(w)] /\ t = side(k, n)
        /\ w \in Seq(Node \ {k})
    BY ONLY <2>1, WayToNode
  <2>3. QED  BY ONLY <2>2
<1>3. \A n \in Node, t \in 0..1 : link[n][t] = k <=> hooks /\ n = l /\ t = side(k, n)
  BY <1>2
<1> HIDE DEF hooks, l
<1>4. \A n \in Node \ {k} : link'[n] \in [0..1 -> Node \cup {NULL}]
  BY <1>1
<1>5. link' \in [Node \ {k} -> [0..1 -> Node \cup {NULL}]]
  BY <1>1, <1>4
<1>6. ASSUME NEW n \in Node \ {k}, NEW t \in 0..1
      PROVE  link'[n][t] = IF link[n][t] = k THEN y ELSE lk[n][t]
  <2>1. lk[n] \in [0..1 -> Node \cup {NULL}]
    OBVIOUS
  <2>2. link'[n][t] = IF hooks /\ n = l /\ t = side(k, n) THEN y ELSE lk[n][t]
    BY <1>1, <2>1
  <2>3. QED  BY <2>2, <1>3
<1>7. Node' = Node \ {k}
  BY <1>1 DEF Node
<1>8. QED  BY <1>5, <1>6, <1>7 DEF Leaves

(* p is a path down from r that takes the sides d.                         *)
IsPath(lk, p, d, r, M) ==
  /\ p \in Seq(M) /\ d \in Seq(0..1) /\ Len(d) = Len(p) /\ (p # <<>> => p[1] = r)
  /\ \A j \in 1..(Len(p) - 1) : lk[p[j]][d[j]] = p[j + 1]

(* The rest of a deletion, once the links and the path are known.          *)
LEMMA VacatedKeepsIInv ==
  ASSUME IInv, pc = "idle", NEW k \in Node, NEW y, NEW lk, NEW co, NEW p, NEW d, NEW gone,
         Vacate(k, y, lk, co, p, d, gone), co \in [Node -> {"RED", "BLACK"}],
         Node' = Node \ {k}, NEW T, Tree(link', root', Node \ {k}, T),
         IsPath(link', p, d, root', Node \ {k})
  PROVE  IInv'
<1>0. /\ p \in Seq(Node \ {k}) /\ d \in Seq(0..1) /\ Len(d) = Len(p) /\ (p # <<>> => p[1] = root')
      /\ \A j \in 1..(Len(p) - 1) : link'[p[j]][d[j]] = p[j + 1]
  BY DEF IsPath
<1>1. /\ root' \in Node' \cup {NULL}
      /\ link' \in [Node' -> [0..1 -> Node' \cup {NULL}]]
  BY DEF Tree
<1>2. color' \in [Node' -> {"RED", "BLACK"}] /\ keys' = Node'
  BY DEF Vacate, IInv
<1>3. SearchTree'
  BY DEF SearchTree
<1>4. Node' \subseteq Keys
  BY Nodes
<1>5. CASE p # <<>> /\ gone = "BLACK"
  <2>1. stack' = p /\ dir' = d /\ pc' = "delete" /\ fate' = fate
    BY <1>5 DEF Vacate
  <2>2. Len(p) \in Nat \ {0}
    BY <1>0, <1>5, EmptySeq
  <2>3. Places' /\ InsertPath'
    BY <1>0, <2>1 DEF Places, InsertPath
  <2>4. DeletePath'
    BY <1>0, <1>5, <2>1, <2>2 DEF DeletePath
  <2>5. TypeOK'
    BY <1>0, <1>1, <1>2, <1>4, <2>1 DEF TypeOK, IInv
  <2>6. QED  BY <1>2, <1>3, <2>3, <2>4, <2>5 DEF IInv
<1>6. CASE ~(p # <<>> /\ gone = "BLACK")
  <2>1. UNCHANGED <<stack, dir, pc, fate>>
    BY <1>6 DEF Vacate, path
  <2>2. stack = <<>> /\ dir \in Seq(0..1) /\ Len(dir) = Len(stack)
    BY DEF IInv, Places
  <2>3. Places'
    BY <2>1, <2>2 DEF Places
  <2>4. InsertPath' /\ DeletePath'
    BY <2>1 DEF InsertPath, DeletePath
  <2>5. TypeOK'
    BY <1>1, <1>2, <1>4, <2>1 DEF TypeOK, IInv
  <2>6. QED  BY <1>2, <1>3, <2>3, <2>4, <2>5 DEF IInv
<1>7. QED  BY <1>5, <1>6

LEMMA LastRightKeepsIInv ==
  ASSUME IInv, NEW k \in Node, pc = "idle", link[k][1] = NULL, NEW w, w = down(k, root),
         Vacate(k, link[k][0], link, color, w, [j \in DOMAIN w |-> side(k, w[j])], color[k])
  PROVE  IInv'
<1> DEFINE c == link[k][0]
           d == [j \in DOMAIN w |-> side(k, w[j])]
           lk2 == link'
           r2 == root'
<1>1. PICK S : Tree(link, root, Node, S)
  BY DEF IInv, SearchTree
<1>2. /\ w \in Seq(Node \ {k}) /\ Len(w) \in Nat /\ (w = <<>> <=> Len(w) = 0)
      /\ (Len(w) = 0 <=> root = k) /\ (Len(w) > 0 => w[1] = root)
      /\ \A j \in 1..Len(w) :
           /\ w[j] \in Node \ {k} /\ side(k, w[j]) \in 0..1
           /\ link[w[j]][side(k, w[j])] = IF j < Len(w) THEN w[j + 1] ELSE k
  BY <1>1, WayToNode
<1>3. c \in Node \cup {NULL} /\ link \in [Node -> [0..1 -> Node \cup {NULL}]]
  BY Nodes
<1>4. Node' = Node \ {k} /\ Leaves(k, c, link, link, link', Node)
  <2>1. Vacate(k, c, link, color, w, d, color[k]) /\ (w = <<>> => w = <<>>)
    OBVIOUS
  <2> HIDE DEF c, d
  <2>2. QED  BY <2>1, <1>1, <1>3, VacatedLinks
<1>5. r2 = IF root = k THEN c ELSE root
  BY DEF Vacate, NewRoot
<1>6. Tree(lk2, r2, Node \ {k}, Without(S, Node, k))
  <2> DEFINE s == 1
  <2>1. s \in 0..1 /\ c = link[k][1 - s] /\ link[k][s] = NULL
    OBVIOUS
  <2>2. Leaves(k, c, link, link, lk2, Node)
    BY <1>4
  <2> HIDE DEF lk2, r2, c, s
  <2>3. QED  BY <2>1, <2>2, <1>1, <1>5, CutKeepsTree
<1>7. d \in Seq(0..1) /\ Len(d) = Len(w) /\ \A j \in 1..Len(w) : d[j] = side(k, w[j])
  BY <1>2, LenProperties
<1> HIDE DEF d
<1>8. w # <<>> => w[1] = root'
  BY <1>2, <1>5
<1>9. ASSUME NEW j \in 1..(Len(w) - 1)
      PROVE  link'[w[j]][d[j]] = w[j + 1]
  <2>1. /\ j \in 1..Len(w) /\ j + 1 \in 1..Len(w) /\ j < Len(w) /\ d[j] = side(k, w[j])
    BY <1>2, <1>7
  <2>2. link[w[j]][d[j]] = w[j + 1] /\ w[j + 1] # k /\ w[j] \in Node \ {k} /\ d[j] \in 0..1
    BY <2>1, <1>2
  <2>3. link'[w[j]][d[j]] = IF link[w[j]][d[j]] = k THEN c ELSE link[w[j]][d[j]]
    BY <2>2, <1>4 DEF Leaves
  <2>4. QED  BY <2>2, <2>3
<1>10. color \in [Node -> {"RED", "BLACK"}]
  BY Nodes
<1>11. Vacate(k, c, link, color, w, d, color[k])
  BY DEF d
<1> HIDE DEF c
<1>12. IsPath(link', w, d, root', Node \ {k})
  BY <1>2, <1>7, <1>8, <1>9 DEF IsPath
<1>13. QED
  BY <1>4, <1>6, <1>10, <1>11, <1>12, VacatedKeepsIInv DEF lk2, r2

(* The successor of k is found, and its links, in the tree as it was.      *)
SuccessorLinks(k, x, y, q) ==
  IF y = x THEN [link EXCEPT ![x][0] = link[k][0]]
  ELSE [link EXCEPT ![y] = link[k], ![q][0] = link[y][1]]

(* What is known of the successor y of k, reached along sp from x.         *)
Found(k, x, y, sp, S) ==
  /\ x \in Node /\ y \in Node \ {k} /\ y \in S[x] /\ link[y][0] = NULL
  /\ \A m \in S[x] : m # y => y < m
  /\ S[x] \subseteq S[k] /\ S[x] \subseteq Node /\ k \notin S[x] /\ k \notin S[y]
  /\ y \notin S[link[k][0]]
  /\ sp \in Seq(Node) /\ Len(sp) \in Nat \ {0} /\ sp[1] = x
  /\ \A j \in 1..Len(sp) : sp[j] \in S[x]
  /\ \A j \in 1..(Len(sp) - 1) : sp[j] # y /\ link[sp[j]][0] = sp[j + 1]

LEMMA SuccessorFound ==
  ASSUME IInv, NEW S, Tree(link, root, Node, S), NEW k \in Node, NEW x, x = link[k][1],
         x # NULL, NEW sp, sp = spine[x], NEW y, y = sp[Len(sp)]
  PROVE  Found(k, x, y, sp, S)
<1>1. x \in Node /\ NULL \notin Node
  BY Nodes
<1>2. LeftSide(sp, x, S[x])
  BY <1>1, SpineIsLeftSide
<1>3. /\ S[x] \subseteq S[k] /\ k \notin S[x] /\ S[x] \subseteq Node
      /\ \A m \in S[x] : m \notin S[link[k][0]]
  <2>1. 1 \in 0..1 /\ 1 - 1 = 0
    OBVIOUS
  <2>2. S[x] \subseteq Node
    BY <1>1 DEF Tree
  <2>3. QED  BY <2>1, <2>2, Below
<1>4. \A n \in Node : n \in S[n]
  BY DEF Tree
<1>5. /\ sp \in Seq(S[x]) /\ Len(sp) \in Nat \ {0} /\ sp[1] = x
      /\ \A j \in 1..Len(sp) : sp[j] \in S[x]
  BY <1>2, ElementOfSeq DEF LeftSide
<1>6. sp \in Seq(Node)
  BY <1>3, <1>5, LenProperties
<1>7. \A j \in 1..Len(sp) : link[sp[j]][0] = IF j < Len(sp) THEN sp[j + 1] ELSE NULL
  BY <1>2 DEF LeftSide
<1>8. y \in S[x] /\ link[y][0] = NULL
  BY <1>5, <1>7
<1>9. S[y] \subseteq S[x]
  BY <1>1, <1>8, Nested
<1>10. ASSUME NEW j \in 1..(Len(sp) - 1)  PROVE sp[j] # y /\ link[sp[j]][0] = sp[j + 1]
  <2>1. j \in 1..Len(sp) /\ j < Len(sp) /\ j + 1 \in 1..Len(sp)
    BY <1>5
  <2>2. link[sp[j]][0] = sp[j + 1] /\ sp[j + 1] # NULL
    BY <2>1, <1>1, <1>3, <1>5, <1>7
  <2>3. QED  BY <2>2, <1>8
<1>11. \A m \in S[x] : m # y => y < m
  BY <1>2 DEF LeftSide
<1>12. QED  BY <1>1, <1>3, <1>4, <1>5, <1>6, <1>8, <1>9, <1>10, <1>11 DEF Found

LEMMA SuccessorSucceeds ==
  ASSUME IInv, NEW S, Tree(link, root, Node, S), NEW k \in Node, NEW x, x = link[k][1],
         NEW y \in Node, y \in S[x], k \notin S[y], y \notin S[link[k][0]], NEW q,
         y # x => q \in Node /\ q # y /\ link[q][0] = y,
         NEW lk, lk = SuccessorLinks(k, x, y, q), NEW lk2, Leaves(k, y, link, lk, lk2, Node)
  PROVE  Succeeds(k, y, link, lk2, Node)
<1>1. /\ link \in [Node -> [0..1 -> Node \cup {NULL}]] /\ NULL \notin Node
      /\ \A n, m \in Node, s, t \in 0..1 :
           link[n][s] = link[m][t] /\ link[n][s] # NULL => n = m /\ s = t
  BY DEF Tree
<1>2. y # k /\ \A n \in Node : n \in S[n]
  BY DEF Tree
<1>3. /\ lk2 \in [Node \ {k} -> [0..1 -> Node \cup {NULL}]]
      /\ \A n \in Node \ {k}, t \in 0..1 : lk2[n][t] = IF link[n][t] = k THEN y ELSE lk[n][t]
  BY DEF Leaves
<1>4. \A t \in 0..1 : link[k][t] # k /\ link[y][t] # k
  BY <1>2, Below
<1>5. link[k][0] # y
  BY <1>2
<1>6. CASE y = x
  <2>1. /\ lk[y][0] = link[k][0] /\ lk[y][1] = link[y][1]
        /\ \A n \in Node \ {y}, t \in 0..1 : lk[n][t] = link[n][t]
    BY <1>1, <1>2, <1>6 DEF SuccessorLinks
  <2>2. \A n \in Node \ {k}, t \in 0..1 : link[n][t] # y
    BY <1>1, <1>2, <1>6
  <2>3. ASSUME NEW n \in Node \ {k}, NEW t \in 0..1, n # y
        PROVE  lk2[n][t] = IF link[n][t] = k THEN y ELSE link[n][t]
    BY <2>1, <2>3, <1>3
  <2>4. lk2[y][0] = link[k][0] /\ lk2[y][1] = link[y][1]
    BY <2>1, <1>2, <1>3, <1>4
  <2>5. QED  BY <2>2, <2>3, <2>4, <1>2, <1>3, <1>4, <1>5, <1>6, Sides DEF Succeeds
<1>7. CASE y # x
  <2>1. q \in Node /\ q # y /\ link[q][0] = y
    BY <1>7
  <2>2. lk = [link EXCEPT ![y] = link[k], ![q][0] = link[y][1]]
    BY <1>7 DEF SuccessorLinks
  <2>3. /\ \A t \in 0..1 : lk[y][t] = link[k][t]
        /\ \A n \in Node \ {y}, t \in 0..1 :
             lk[n][t] = IF n = q /\ t = 0 THEN link[y][1] ELSE link[n][t]
    BY <2>1, <2>2, <1>1, <1>2
  <2>4. ASSUME NEW n \in Node, NEW t \in 0..1  PROVE link[n][t] = y <=> n = q /\ t = 0
    <3>1. 0 \in 0..1 /\ y # NULL
      BY <1>1, <1>2
    <3>2. QED  BY <3>1, <2>1, <1>1
  <2>5. ASSUME NEW t \in 0..1  PROVE lk2[y][t] = link[k][t] /\ link[k][t] # y
    BY <2>3, <1>2, <1>3, <1>4, <1>5, <1>7, Sides
  <2>6. ASSUME NEW n \in Node \ {k}, NEW t \in 0..1, n # y
        PROVE  lk2[n][t] = IF link[n][t] = y THEN link[y][1]
                           ELSE IF link[n][t] = k THEN y ELSE link[n][t]
    BY <2>3, <2>4, <2>6, <1>2, <1>3
  <2>7. QED  BY <2>5, <2>6, <1>2, <1>3, <1>4 DEF Succeeds
<1>8. QED  BY <1>6, <1>7

(* Two ways joined by a node y, whose right child starts the second one.   *)
Joins(lk, w, a, y, v, b) ==
  /\ \A j \in 1..Len(w) : lk[w[j]][a[j]] = IF j < Len(w) THEN w[j + 1] ELSE y
  /\ Len(v) > 0 => lk[y][1] = v[1]
  /\ \A j \in 1..(Len(v) - 1) : lk[v[j]][b[j]] = v[j + 1]

LEMMA JoinedWays ==
  ASSUME NEW M, NEW w \in Seq(M), NEW y \in M, NEW v \in Seq(M),
         NEW a \in Seq(0..1), Len(a) = Len(w), NEW b \in Seq(0..1), Len(b) = Len(v),
         NEW lk, Joins(lk, w, a, y, v, b)
  PROVE  IsPath(lk, w \o <<y>> \o v, a \o <<1>> \o b, IF Len(w) = 0 THEN y ELSE w[1], M)
<1> DEFINE p == w \o <<y>> \o v
           d == a \o <<1>> \o b
           l == Len(w)
           h == Len(v)
<1>1. /\ p \in Seq(M) /\ Len(p) = l + 1 + h
      /\ \A j \in 1..(l + 1 + h) : p[j] =
           IF j <= l THEN w[j] ELSE IF j = l + 1 THEN y ELSE v[j - (l + 1)]
  BY Around
<1>2. /\ d \in Seq(0..1) /\ Len(d) = l + 1 + h
      /\ \A j \in 1..(l + 1 + h) : d[j] =
           IF j <= l THEN a[j] ELSE IF j = l + 1 THEN 1 ELSE b[j - (l + 1)]
  <2>1. 1 \in 0..1
    OBVIOUS
  <2>2. /\ d \in Seq(0..1) /\ Len(d) = Len(a) + 1 + Len(b)
        /\ \A j \in 1..(Len(a) + 1 + Len(b)) :
             d[j] = IF j <= Len(a) THEN a[j] ELSE IF j = Len(a) + 1 THEN 1
                    ELSE b[j - (Len(a) + 1)]
    <3> DEFINE D == 0..1
               e == 1
               u == a \o <<e>> \o b
    <3>1. a \in Seq(D) /\ b \in Seq(D) /\ e \in D
      BY <2>1
    <3> HIDE DEF D, e
    <3>2. /\ u \in Seq(D) /\ Len(u) = Len(a) + 1 + Len(b)
          /\ \A j \in 1..(Len(a) + 1 + Len(b)) :
               u[j] = IF j <= Len(a) THEN a[j] ELSE IF j = Len(a) + 1 THEN e
                      ELSE b[j - (Len(a) + 1)]
      BY ONLY <3>1, Around
    <3>3. QED  BY <3>2 DEF D, e
  <2>3. Len(a) = l /\ Len(b) = h
    OBVIOUS
  <2> HIDE DEF d, l, h
  <2>4. QED  BY ONLY <2>2, <2>3
<1>3. l \in Nat /\ h \in Nat
  BY LenProperties
<1>4. /\ \A j \in 1..l : lk[w[j]][a[j]] = IF j < l THEN w[j + 1] ELSE y
      /\ h > 0 => lk[y][1] = v[1]
      /\ \A j \in 1..(h - 1) : lk[v[j]][b[j]] = v[j + 1]
  BY DEF Joins
<1> HIDE DEF p, d, l, h
<1>5. ASSUME NEW j \in 1..(Len(p) - 1)  PROVE lk[p[j]][d[j]] = p[j + 1]
  <2>1. /\ j \in Nat /\ j <= l + h /\ j >= 1 /\ j \in 1..(l + 1 + h) /\ j + 1 \in 1..(l + 1 + h)
    BY ONLY <1>5, <1>1, <1>3
  <2>2. CASE j <= l
    <3>1. /\ p[j] = w[j] /\ d[j] = a[j] /\ p[j + 1] = IF j < l THEN w[j + 1] ELSE y
          /\ j \in 1..l
      BY ONLY <2>1, <2>2, <1>1, <1>2, <1>3
    <3>2. QED  BY ONLY <3>1, <1>4
  <2>3. CASE j = l + 1
    <3>1. p[j] = y /\ d[j] = 1 /\ p[j + 1] = v[1] /\ h > 0
      BY ONLY <2>1, <2>3, <1>1, <1>2, <1>3
    <3>2. QED  BY ONLY <3>1, <1>4
  <2>4. CASE j > l + 1
    <3>1. /\ j - (l + 1) \in 1..(h - 1) /\ (j + 1) - (l + 1) = (j - (l + 1)) + 1
      BY ONLY <2>1, <2>4, <1>3
    <3>2. p[j] = v[j - (l + 1)] /\ d[j] = b[j - (l + 1)] /\ p[j + 1] = v[(j + 1) - (l + 1)]
      BY ONLY <2>1, <2>4, <1>1, <1>2, <1>3
    <3>3. QED  BY ONLY <3>1, <3>2, <1>4
  <2>5. QED  BY ONLY <2>1, <2>2, <2>3, <2>4, <1>3
<1>6. p[1] = IF l = 0 THEN y ELSE w[1]
  <2>1. 1 \in 1..(l + 1 + h) /\ (l # 0 => 1 <= l)
    BY ONLY <1>3
  <2>2. QED  BY ONLY <2>1, <1>1, <1>3
<1>7. Len(p) \in Nat \ {0}
  BY ONLY <1>1, <1>3
<1>8. QED  BY <1>1, <1>2, <1>5, <1>6, <1>7 DEF p, d, l, IsPath

(* The way w to k and the left side v of its right subtree.                *)
Leads(k, y, w, v, lk2) ==
  /\ v \in Seq(Node \ {k}) /\ Len(v) \in Nat /\ w \in Seq(Node \ {k}) /\ Len(w) \in Nat
  /\ (Len(w) = 0 <=> root = k) /\ (Len(w) > 0 => w[1] = root)
  /\ Joins(lk2, w, [j \in DOMAIN w |-> side(k, w[j])], y, v, [j \in DOMAIN v |-> 0])

(* The path to where the successor was: the way to k, k's place with the   *)
(* successor in it, and the left side of the right subtree.                *)
LEMMA SuccessorPath ==
  ASSUME IInv, NEW S, Tree(link, root, Node, S), NEW k \in Node, NEW x, x = link[k][1],
         x # NULL, NEW sp, sp = spine[x], NEW y, y = sp[Len(sp)], NEW w, w = down(k, root),
         NEW v, v = Front(sp), NEW lk2, Succeeds(k, y, link, lk2, Node)
  PROVE  Leads(k, y, w, v, lk2)
<1> DEFINE M == Node \ {k}
           a == [j \in DOMAIN w |-> side(k, w[j])]
           b == [j \in DOMAIN v |-> 0]
           l == Len(w)
           h == Len(v)
<1>1. /\ x \in Node /\ y \in Node \ {k} /\ y \in S[x] /\ link[y][0] = NULL
      /\ \A m \in S[x] : m # y => y < m
      /\ S[x] \subseteq S[k] /\ S[x] \subseteq Node /\ k \notin S[x] /\ k \notin S[y]
      /\ y \notin S[link[k][0]]
      /\ sp \in Seq(Node) /\ Len(sp) \in Nat \ {0} /\ sp[1] = x
      /\ \A j \in 1..Len(sp) : sp[j] \in S[x]
      /\ \A j \in 1..(Len(sp) - 1) : sp[j] # y /\ link[sp[j]][0] = sp[j + 1]
  <2>1. /\ IInv /\ Tree(link, root, Node, S) /\ k \in Node /\ x = link[k][1] /\ x # NULL
        /\ sp = spine[x] /\ y = sp[Len(sp)]
    OBVIOUS
  <2>2. Found(k, x, y, sp, S)
    BY ONLY <2>1, SuccessorFound
  <2>3. QED  BY ONLY <2>2 DEF Found
<1>2. /\ w \in Seq(M) /\ l \in Nat /\ (l = 0 <=> root = k) /\ (l > 0 => w[1] = root)
      /\ \A j \in 1..l :
           /\ w[j] \in M /\ w[j] \notin S[k] /\ side(k, w[j]) \in 0..1
           /\ link[w[j]][side(k, w[j])] = IF j < l THEN w[j + 1] ELSE k
  <2>1. IInv /\ Tree(link, root, Node, S) /\ k \in Node /\ w = down(k, root)
    OBVIOUS
  <2>2. /\ w \in Seq(Node \ {k}) /\ Len(w) \in Nat /\ (w = <<>> <=> Len(w) = 0)
        /\ (Len(w) = 0 <=> root = k) /\ (Len(w) > 0 => w[1] = root)
        /\ \A n \in Node, t \in 0..1 :
             link[n][t] = k <=> Len(w) > 0 /\ n = w[Len(w)] /\ t = side(k, n)
        /\ \A j \in 1..Len(w) :
             /\ w[j] \in Node \ {k} /\ w[j] \notin S[k] /\ side(k, w[j]) \in 0..1
             /\ link[w[j]][side(k, w[j])] = IF j < Len(w) THEN w[j + 1] ELSE k
    BY ONLY <2>1, WayToNode
  <2>3. QED  BY ONLY <2>2
<1>3. /\ v \in Seq(M) /\ h \in Nat /\ h = Len(sp) - 1 /\ \A j \in 1..h : v[j] = sp[j]
  <2>1. Len(sp) - 1 \in 0..Len(sp) /\ v = SubSeq(sp, 1, Len(sp) - 1)
    <3>1. v = Front(sp)
      OBVIOUS
    <3>2. QED  BY ONLY <3>1, <1>1 DEF Front
  <2>2. v \in Seq(Node) /\ h = Len(sp) - 1 /\ \A j \in 1..(Len(sp) - 1) : v[j] = sp[j]
    <3> DEFINE i == Len(sp) - 1
    <3>1. sp \in Seq(Node) /\ i \in 0..Len(sp) /\ v = SubSeq(sp, 1, i)
      BY ONLY <2>1, <1>1
    <3> HIDE DEF i, h
    <3>2. /\ SubSeq(sp, 1, i) \in Seq(Node) /\ Len(SubSeq(sp, 1, i)) = i
          /\ \A j \in 1..i : SubSeq(sp, 1, i)[j] = sp[j]
      BY ONLY <3>1, Prefix
    <3>3. v \in Seq(Node) /\ Len(v) = i /\ \A j \in 1..i : v[j] = sp[j]
      BY ONLY <3>1, <3>2
    <3>4. QED  BY ONLY <3>3 DEF i, h
  <2>3. \A j \in 1..h : v[j] \in M
    <3>1. \A j \in 1..(Len(sp) - 1) : sp[j] \in M
      BY ONLY <1>1
    <3>2. QED  BY ONLY <3>1, <2>2
  <2>4. QED  BY ONLY <2>2, <2>3, <1>1, LenProperties
<1>4. \A j \in 1..l : a[j] = side(k, w[j])
  BY ONLY <1>2, LenProperties
<1>5. \A j \in 1..h : b[j] = 0
  BY ONLY <1>3, LenProperties
<1>8. \A n \in M, t \in 0..1 :
        n # y => lk2[n][t] = IF link[n][t] = y THEN link[y][1]
                             ELSE IF link[n][t] = k THEN y ELSE link[n][t]
  <2>1. Succeeds(k, y, link, lk2, Node)
    OBVIOUS
  <2>2. QED  BY ONLY <2>1 DEF Succeeds
<1>9. lk2[y][1] = IF x = y THEN link[y][1] ELSE IF x = k THEN y ELSE x
  <2>1. y \in Node \ {k} /\ 1 \in 0..1 /\ Succeeds(k, y, link, lk2, Node) /\ x = link[k][1]
    BY ONLY <1>1, Succeeds(k, y, link, lk2, Node), x = link[k][1]
  <2>2. QED  BY ONLY <2>1 DEF Succeeds
<1>7. k \in S[k] /\ y # k /\ y \in S[k]
  <2>1. k \in S[k]
    BY DEF Tree
  <2>2. QED  BY ONLY <2>1, <1>1
<1> HIDE DEF M, a, b, l, h
<1>10. ASSUME NEW j \in 1..l
       PROVE  lk2[w[j]][a[j]] = IF j < l THEN w[j + 1] ELSE y
  <2>1. w[j] \in M /\ w[j] # y /\ side(k, w[j]) \in 0..1 /\ j <= l /\ j >= 1 /\ j \in Nat
    BY ONLY <1>2, <1>7, <1>10
  <2>2. link[w[j]][side(k, w[j])] = IF j < l THEN w[j + 1] ELSE k
    BY ONLY <1>2, <1>10
  <2>3. j < l => w[j + 1] # y /\ w[j + 1] # k
    <3>1. j < l => j + 1 \in 1..l
      BY ONLY <2>1, <1>2
    <3>2. QED  BY ONLY <3>1, <1>2, <1>7
  <2>4. a[j] = side(k, w[j])
    BY ONLY <1>4, <1>10
  <2>5. QED  BY ONLY <2>1, <2>2, <2>3, <2>4, <1>7, <1>8
<1>11. h > 0 => lk2[y][1] = v[1]
  <2> SUFFICES ASSUME h > 0  PROVE lk2[y][1] = v[1]
    OBVIOUS
  <2>1. 1 \in 1..h /\ 1 \in 1..(Len(sp) - 1)
    BY ONLY <1>1, <1>3, h > 0
  <2>2. v[1] = x /\ x # y
    BY ONLY <2>1, <1>1, <1>3
  <2>3. x # k
    <3>1. x \in S[x]
      BY <1>1 DEF Tree
    <3>2. QED  BY ONLY <3>1, <1>1
  <2>4. QED  BY ONLY <2>2, <2>3, <1>9
<1>12. ASSUME NEW i \in 1..(h - 1)  PROVE lk2[v[i]][b[i]] = v[i + 1]
  <2>1. i \in 1..h /\ i + 1 \in 1..h /\ i \in 1..(Len(sp) - 1) /\ i + 1 \in 1..(Len(sp) - 1)
        /\ i \in 1..Len(sp) /\ i + 1 \in 1..Len(sp) /\ 0 \in 0..1
    BY ONLY <1>1, <1>3, <1>12
  <2>2. v[i] = sp[i] /\ v[i + 1] = sp[i + 1] /\ b[i] = 0
    BY ONLY <2>1, <1>3, <1>5
  <2>3. sp[i] # y /\ sp[i + 1] # y /\ link[sp[i]][0] = sp[i + 1]
    BY ONLY <2>1, <1>1
  <2>4. sp[i] \in M /\ sp[i + 1] \in M /\ sp[i + 1] # k
    BY ONLY <2>1, <1>1 DEF M
  <2>5. lk2[sp[i]][0] = sp[i + 1]
    BY ONLY <2>1, <2>3, <2>4, <1>8
  <2>6. QED  BY ONLY <2>2, <2>5
<1>13. Joins(lk2, w, a, y, v, b)
  BY ONLY <1>10, <1>11, <1>12 DEF Joins, l, h
<1>14. QED  BY ONLY <1>2, <1>3, <1>13 DEF M, a, b, l, h, Leads

(* The quantities of deletion when there is a right child x.               *)
Succession(k, x, sp, y, lk, w) ==
  /\ k \in Node /\ x = link[k][1] /\ x # NULL /\ sp = spine[x] /\ y = sp[Len(sp)]
  /\ lk = SuccessorLinks(k, x, y, sp[Len(sp) - 1]) /\ w = down(k, root)

(* k is gone, and y is in its place.                                       *)
Gone(k, y) ==
  /\ Node' = Node \ {k} /\ Succeeds(k, y, link, link', Node)
  /\ \E T : Tree(link', root', Node \ {k}, T)
  /\ root' = IF root = k THEN y ELSE root

(* The successor's links are typed, and the links left are as told.        *)
LEMMA SuccessorVacates ==
  ASSUME IInv, NEW S, Tree(link, root, Node, S), NEW k, NEW x, NEW sp, NEW y, NEW lk, NEW w,
         Succession(k, x, sp, y, lk, w), NEW co, NEW p, NEW d, NEW gone,
         Vacate(k, y, lk, co, p, d, gone), p # <<>>
  PROVE  Gone(k, y)
<1> DEFINE q == sp[Len(sp) - 1]
           lk2 == link'
           r2 == root'
<1>0. /\ k \in Node /\ x = link[k][1] /\ x # NULL /\ sp = spine[x] /\ y = sp[Len(sp)]
      /\ lk = SuccessorLinks(k, x, y, sp[Len(sp) - 1]) /\ w = down(k, root)
  BY DEF Succession
<1>1. Found(k, x, y, sp, S)
  <2>1. /\ IInv /\ Tree(link, root, Node, S) /\ k \in Node /\ x = link[k][1] /\ x # NULL
        /\ sp = spine[x] /\ y = sp[Len(sp)]
    BY <1>0
  <2>2. QED  BY ONLY <2>1, SuccessorFound
<1>2. link \in [Node -> [0..1 -> Node \cup {NULL}]]
  BY Nodes
<1>3. y # x => q \in Node /\ q # y /\ link[q][0] = y
  <2> SUFFICES ASSUME y # x  PROVE q \in Node /\ q # y /\ link[q][0] = y
    OBVIOUS
  <2>1. /\ sp \in Seq(Node) /\ Len(sp) \in Nat \ {0} /\ sp[1] = x
        /\ \A j \in 1..(Len(sp) - 1) : sp[j] # y /\ link[sp[j]][0] = sp[j + 1]
    BY ONLY <1>1 DEF Found
  <2>2. y = sp[Len(sp)] /\ y # x
    BY ONLY <1>0, y # x
  <2>3. /\ Len(sp) - 1 \in 1..(Len(sp) - 1) /\ Len(sp) - 1 \in 1..Len(sp)
        /\ (Len(sp) - 1) + 1 = Len(sp)
    <3>1. Len(sp) # 1
      BY ONLY <2>1, <2>2
    <3>2. Len(sp) \in Nat \ {0}
      BY ONLY <2>1
    <3> DEFINE h == Len(sp)
    <3> HIDE DEF h
    <3>3. h \in Nat /\ h # 0 /\ h # 1
      BY ONLY <3>1, <3>2 DEF h
    <3>4. h - 1 \in 1..(h - 1) /\ h - 1 \in 1..h /\ (h - 1) + 1 = h
      BY ONLY <3>3
    <3>5. QED  BY ONLY <3>4 DEF h
  <2>4. sp[Len(sp) - 1] \in Node
    BY ONLY <2>1, <2>3, ElementOfSeq
  <2>5. sp[Len(sp) - 1] # y /\ link[sp[Len(sp) - 1]][0] = sp[(Len(sp) - 1) + 1]
    BY ONLY <2>1, <2>3
  <2>6. QED  BY ONLY <2>2, <2>3, <2>4, <2>5
<1> HIDE DEF q
<1>4. y \in Node /\ y # k /\ y \in S[x] /\ k \notin S[y] /\ y \notin S[link[k][0]]
      /\ x \in Node /\ link[y][0] = NULL /\ \A m \in S[x] : m # y => y < m
  BY ONLY <1>1 DEF Found
<1>5. lk = SuccessorLinks(k, x, y, q)
  BY <1>0 DEF q
<1>6. lk \in [Node -> [0..1 -> Node \cup {NULL}]]
  <2>1. /\ link[k] \in [0..1 -> Node \cup {NULL}] /\ link[k][0] \in Node \cup {NULL}
        /\ link[y][1] \in Node \cup {NULL}
    BY ONLY <1>0, <1>2, <1>4
  <2>2. CASE y = x
    BY ONLY <2>1, <2>2, <1>2, <1>5 DEF SuccessorLinks
  <2>3. CASE y # x
    <3> DEFINE u == link[k]
               z == link[y][1]
               O == Node \cup {NULL}
    <3>1. /\ u \in [0..1 -> O] /\ z \in O /\ q \in Node /\ link \in [Node -> [0..1 -> O]]
          /\ lk = [link EXCEPT ![y] = u, ![q][0] = z]
      BY ONLY <2>1, <2>3, <1>2, <1>3, <1>5 DEF SuccessorLinks
    <3> HIDE DEF u, z, O
    <3>2. [link EXCEPT ![y] = u] \in [Node -> [0..1 -> O]]
      BY ONLY <3>1
    <3>3. lk \in [Node -> [0..1 -> O]]
      BY ONLY <3>1, <3>2
    <3>4. QED  BY ONLY <3>3 DEF O
  <2>4. QED  BY <2>2, <2>3
<1>7. Node' = Node \ {k} /\ Leaves(k, y, link, lk, link', Node)
  <2>1. IInv /\ Tree(link, root, Node, S) /\ k \in Node /\ Vacate(k, y, lk, co, p, d, gone)
        /\ w = down(k, root) /\ (p = <<>> => w = <<>>) /\ y \in Node \cup {NULL}
    BY <1>0, <1>4
  <2>2. QED  BY ONLY <2>1, <1>6, VacatedLinks
<1>8. Succeeds(k, y, link, lk2, Node)
  <2>1. /\ IInv /\ Tree(link, root, Node, S) /\ k \in Node /\ x = link[k][1]
        /\ Leaves(k, y, link, lk, lk2, Node)
    BY <1>0, <1>7
  <2> HIDE DEF lk2
  <2>2. QED  BY ONLY <2>1, <1>3, <1>4, <1>5, SuccessorSucceeds
<1>9. r2 = IF root = k THEN y ELSE root
  BY DEF Vacate, NewRoot
<1>10. \E T : Tree(lk2, r2, Node \ {k}, T)
  <2>1. Tree(link, root, Node, S) /\ k \in Node /\ x = link[k][1]
    BY <1>0
  <2>2. y \in S[link[k][1]] /\ \A m \in S[link[k][1]] : m # y => y < m
    BY ONLY <2>1, <1>4
  <2> HIDE DEF lk2, r2
  <2>3. QED  BY ONLY <2>1, <2>2, <1>4, <1>8, <1>9, SuccessorKeepsTree
<1>11. QED  BY <1>7, <1>8, <1>9, <1>10 DEF Gone

(* The path p that deletion keeps then, and its sides d.                   *)
Detour(k, w, y, sp, v, p, d) ==
  /\ v = Front(sp) /\ p = w \o <<y>> \o v
  /\ d = [j \in DOMAIN w |-> side(k, w[j])] \o <<1>> \o [j \in DOMAIN v |-> 0]

LEMMA SuccessorKeepsIInv ==
  ASSUME IInv, pc = "idle", NEW k, NEW x, NEW sp, NEW y, NEW lk, NEW w,
         Succession(k, x, sp, y, lk, w),
         NEW v, NEW p, NEW d, Detour(k, w, y, sp, v, p, d),
         NEW co \in [Node -> {"RED", "BLACK"}], NEW gone, Vacate(k, y, lk, co, p, d, gone)
  PROVE  IInv'
<1> DEFINE a == [j \in DOMAIN w |-> side(k, w[j])]
           b == [j \in DOMAIN v |-> 0]
<1>1. PICK S : Tree(link, root, Node, S)
  BY ONLY IInv, Zenon DEF IInv, SearchTree
<1>2. /\ IInv /\ pc = "idle" /\ co \in [Node -> {"RED", "BLACK"}]
      /\ Tree(link, root, Node, S) /\ k \in Node /\ x = link[k][1] /\ x # NULL
      /\ sp = spine[x] /\ y = sp[Len(sp)] /\ lk = SuccessorLinks(k, x, y, sp[Len(sp) - 1])
      /\ w = down(k, root) /\ v = Front(sp) /\ Vacate(k, y, lk, co, p, d, gone)
  BY <1>1 DEF Succession, Detour
<1>3. Found(k, x, y, sp, S)
  BY ONLY <1>2, SuccessorFound
<1>4. y \in Node \ {k}
  BY ONLY <1>3 DEF Found
<1>5. w \in Seq(Node \ {k}) /\ v \in Seq(Node \ {k})
  <2>1. w \in Seq(Node \ {k})
    <3>0. IInv /\ Tree(link, root, Node, S) /\ k \in Node /\ w = down(k, root)
      BY ONLY <1>2
    <3>1. /\ w \in Seq(Node \ {k}) /\ Len(w) \in Nat /\ (w = <<>> <=> Len(w) = 0)
          /\ (Len(w) = 0 <=> root = k) /\ (Len(w) > 0 => w[1] = root)
          /\ \A n \in Node, t \in 0..1 :
               link[n][t] = k <=> Len(w) > 0 /\ n = w[Len(w)] /\ t = side(k, n)
          /\ \A j \in 1..Len(w) :
               /\ w[j] \in Node \ {k} /\ w[j] \notin S[k] /\ side(k, w[j]) \in 0..1
               /\ link[w[j]][side(k, w[j])] = IF j < Len(w) THEN w[j + 1] ELSE k
      BY ONLY <3>0, WayToNode
    <3>2. QED  BY ONLY <3>1
  <2>2. /\ sp \in Seq(Node) /\ Len(sp) \in Nat \ {0} /\ \A j \in 1..Len(sp) : sp[j] \in Node \ {k}
    BY ONLY <1>3 DEF Found
  <2>3. sp \in Seq(Node \ {k}) /\ Len(sp) - 1 \in 0..Len(sp)
    BY ONLY <2>2, LenProperties
  <2>4. v = SubSeq(sp, 1, Len(sp) - 1)
    BY ONLY <1>2 DEF Front
  <2>5. SubSeq(sp, 1, Len(sp) - 1) \in Seq(Node \ {k})
    BY ONLY <2>3, Prefix
  <2>6. QED  BY ONLY <2>1, <2>4, <2>5
<1>6. p = w \o <<y>> \o v /\ d = a \o <<1>> \o b
  BY DEF Detour
<1>7. p # <<>>
  <2>1. Len(w \o <<y>> \o v) = Len(w) + 1 + Len(v) /\ w \o <<y>> \o v \in Seq(Node \ {k})
    BY ONLY <1>4, <1>5, Around
  <2>2. Len(w \o <<y>> \o v) # 0
    BY ONLY <2>1, <1>5, LenProperties
  <2>3. QED  BY ONLY <2>1, <2>2, <1>6, EmptySeq
<1>8. /\ Node' = Node \ {k} /\ Succeeds(k, y, link, link', Node)
      /\ \E T : Tree(link', root', Node \ {k}, T)
      /\ root' = IF root = k THEN y ELSE root
  <2>1. /\ IInv /\ Tree(link, root, Node, S) /\ Succession(k, x, sp, y, lk, w)
        /\ Vacate(k, y, lk, co, p, d, gone)
    BY <1>1
  <2>2. Gone(k, y)
    BY ONLY <2>1, <1>7, SuccessorVacates
  <2>3. QED  BY ONLY <2>2 DEF Gone
<1>9. /\ v \in Seq(Node \ {k}) /\ Len(v) \in Nat /\ w \in Seq(Node \ {k}) /\ Len(w) \in Nat
      /\ (Len(w) = 0 <=> root = k) /\ (Len(w) > 0 => w[1] = root)
      /\ Joins(link', w, a, y, v, b)
  <2> DEFINE lk2 == link'
  <2>1. Succeeds(k, y, link, lk2, Node)
    BY ONLY <1>8
  <2> HIDE DEF lk2
  <2>2. Leads(k, y, w, v, lk2)
    BY ONLY <1>2, <2>1, SuccessorPath
  <2>3. QED  BY ONLY <2>2 DEF Leads, lk2
<1>10. a \in Seq(0..1) /\ Len(a) = Len(w) /\ b \in Seq(0..1) /\ Len(b) = Len(v)
  <2>1. \A j \in 1..Len(w) : side(k, w[j]) \in 0..1
    BY SideIs
  <2> DEFINE l == Len(w)
             h == Len(v)
  <2>2. DOMAIN w = 1..l /\ DOMAIN v = 1..h /\ l \in Nat /\ h \in Nat
    BY ONLY <1>9, LenProperties
  <2> HIDE DEF l, h
  <2>3. a = [j \in 1..l |-> side(k, w[j])] /\ b = [j \in 1..h |-> 0]
    BY ONLY <2>2
  <2> HIDE DEF a, b
  <2>4. a \in Seq(0..1) /\ Len(a) = l
    BY ONLY <2>1, <2>2, <2>3 DEF l
  <2>5. b \in Seq(0..1) /\ Len(b) = h
    BY ONLY <2>2, <2>3
  <2>6. QED  BY ONLY <2>4, <2>5 DEF l, h
<1> DEFINE lk2 == link'
<1> HIDE DEF a, b, lk2
<1>11. IsPath(lk2, p, d, root', Node \ {k})
  <2>1. Joins(lk2, w, a, y, v, b)
    BY ONLY <1>9 DEF lk2
  <2>2. IsPath(lk2, w \o <<y>> \o v, a \o <<1>> \o b, IF Len(w) = 0 THEN y ELSE w[1], Node \ {k})
    BY ONLY <2>1, <1>4, <1>9, <1>10, JoinedWays
  <2>3. root' = IF Len(w) = 0 THEN y ELSE w[1]
    BY ONLY <1>8, <1>9
  <2>4. QED  BY ONLY <2>2, <2>3, <1>6
<1>12. IsPath(link', p, d, root', Node \ {k})
  BY ONLY <1>11 DEF lk2
<1>13. PICK T : Tree(link', root', Node \ {k}, T)
  <2>1. \E T : Tree(link', root', Node \ {k}, T)
    BY ONLY <1>8, Zenon
  <2>2. QED  BY ONLY <2>1
<1>14. /\ IInv /\ pc = "idle" /\ k \in Node /\ co \in [Node -> {"RED", "BLACK"}]
       /\ Vacate(k, y, lk, co, p, d, gone) /\ Node' = Node \ {k}
  BY ONLY <1>2, <1>8, Zenon
<1>15. QED  BY ONLY <1>12, <1>13, <1>14, VacatedKeepsIInv

LEMMA DeletionKeepsIInv ==
  ASSUME IInv, NEW k \in Deleted, deletion(k)
  PROVE  IInv'
<1> DEFINE w == down(k, root)
           d == [j \in DOMAIN w |-> side(k, w[j])]
           x == link[k][1]
<1>1. pc = "idle"
  BY DEF deletion
<1>2. CASE k \notin Node /\ fate' = "SIGSEGV" /\ UNCHANGED <<tree, path, pc, history>>
  BY <1>2, StandingStillKeepsIInv
<1>3. CASE k \in Node /\ x = NULL /\ Vacate(k, link[k][0], link, color, w, d, color[k])
  <2>1. k \in Node /\ link[k][1] = NULL /\ w = down(k, root)
        /\ Vacate(k, link[k][0], link, color, w, [j \in DOMAIN w |-> side(k, w[j])], color[k])
    BY <1>3
  <2> HIDE DEF w, d, x
  <2>2. QED  BY <1>1, <2>1, LastRightKeepsIInv
<1>4. CASE /\ k \in Node /\ x # NULL
           /\ LET sp == spine[x]
                  y  == Last(sp)
                  lk == IF y = x
                        THEN [link EXCEPT ![x][0] = link[k][0]]
                        ELSE [link EXCEPT ![y] = link[k],
                                          ![sp[Len(sp) - 1]][0] = link[y][1]]
              IN  Vacate(k, y, lk, [color EXCEPT ![y] = color[k]],
                         w \o <<y>> \o Front(sp),
                         d \o <<1>> \o [j \in DOMAIN Front(sp) |-> 0],
                         color[y])
  <2> DEFINE sp == spine[x]
             y == sp[Len(sp)]
             v == Front(sp)
             lk == SuccessorLinks(k, x, y, sp[Len(sp) - 1])
             p == w \o <<y>> \o v
             e == d \o <<1>> \o [j \in DOMAIN v |-> 0]
             co == [color EXCEPT ![y] = color[k]]
  <2>1. Vacate(k, y, lk, co, p, e, color[y])
    BY ONLY <1>4, Zenon DEF Last, SuccessorLinks
  <2>2. Succession(k, x, sp, y, lk, w)
    BY <1>4 DEF Succession
  <2>3. co \in [Node -> {"RED", "BLACK"}]
    <3>1. color \in [Node -> {"RED", "BLACK"}] /\ color[k] \in {"RED", "BLACK"}
      BY <1>4, Nodes
    <3> HIDE DEF y
    <3>2. QED  BY <3>1
  <2>4. Detour(k, w, y, sp, v, p, e)
    BY DEF Detour
  <2> HIDE DEF w, d, x, sp, y, v, lk, p, e, co
  <2>5. IInv /\ pc = "idle"
    BY <1>1
  <2>6. QED  BY ONLY <2>1, <2>2, <2>3, <2>4, <2>5, SuccessorKeepsIInv, Zenon
<1>5. QED  BY <1>2, <1>3, <1>4, Zenon DEF deletion

-----------------------------------------------------------------------------
LEMMA NextKeepsIInv == IInv /\ [Next]_vars => IInv'
<1> SUFFICES ASSUME IInv, [Next]_vars  PROVE IInv'
  OBVIOUS
<1>1. CASE \E k \in Keys : insertion(k)
  BY <1>1, InsertionKeepsIInv
<1>2. CASE \E k \in Deleted : deletion(k)
  BY <1>2, DeletionKeepsIInv
<1>3. CASE Recolor
  BY <1>3, RecolorKeepsIInv
<1>4. CASE Rotate
  BY <1>4, RotateKeepsIInv
<1>5. CASE Inserted
  BY <1>5, InsertedKeepsIInv
<1>6. CASE Repaired
  BY <1>6, RepairedKeepsIInv
<1>7. CASE NoSibling
  BY <1>7, NoSiblingKeepsIInv
<1>8. CASE Crash
  BY <1>8, CrashKeepsIInv
<1>9. CASE PushUp
  BY <1>9, PushUpKeepsIInv
<1>10. CASE Restructure
  BY <1>10, RestructureKeepsIInv
<1>11. CASE UNCHANGED vars
  <2>1. UNCHANGED <<tree, path, pc, history>> /\ fate' \in {"running", "SIGSEGV"}
    BY <1>11 DEF vars, IInv, TypeOK
  <2>2. QED  BY <2>1, StandingStillKeepsIInv
<1>12. QED
  BY <1>1, <1>2, <1>3, <1>4, <1>5, <1>6, <1>7, <1>8, <1>9, <1>10, <1>11 DEF Next, Iterate

(* At every step of every call, also in the middle of the repairs, the     *)
(* links form one search tree of the keys, and the path is one in it.      *)
THEOREM IInvInvariant == Spec => []IInv
  BY InitIInv, NextKeepsIInv, PTL DEF Spec

(* A traversal in order lists exactly the keys inserted and not deleted,   *)
(* in order, whatever rotations, splices and recolorings have been made.   *)
THEOREM TraversalSorted == Spec => []Sorted
<1>1. IInv => Sorted
  <2> SUFFICES ASSUME IInv  PROVE Sorted
    OBVIOUS
  <2>1. PICK S : Tree(link, root, Node, S)
    BY DEF IInv, SearchTree
  <2>2. QED  BY <2>1, TreeIsSorted DEF IInv
<1>2. QED  BY IInvInvariant, <1>1, PTL

-----------------------------------------------------------------------------
(* The logarithm of PathFits is its recursion, and grows.                  *)
LEMMA NatLeast ==
  ASSUME NEW T \in SUBSET Nat, T # {}
  PROVE  \E x \in T : \A y \in T : x <= y
<1> DEFINE I == {0..n : n \in T}
<1>1. I \subseteq FiniteSubsetsOf(Nat) /\ I # {}
  <2>1. ASSUME NEW n \in T  PROVE 0..n \in FiniteSubsetsOf(Nat)
    BY FS_Interval DEF FiniteSubsetsOf
  <2>2. QED  BY <2>1
<1>2. PICK s \in I : \A t \in I : ~(<<t, s>> \in StrictSubsetOrdering(Nat))
  BY <1>1, FS_StrictSubsetOrderingWellFounded, WFMin, Zenon
<1>3. PICK x \in T : s = 0..x
  OBVIOUS
<1>4. ASSUME NEW y \in T, y < x  PROVE FALSE
  <2>1. <<0..y, 0..x>> \in StrictSubsetOrdering(Nat)
    BY <1>4 DEF StrictSubsetOrdering
  <2>2. QED  BY <2>1, <1>2, <1>3
<1>5. QED  BY <1>4

(* Induction on numbers, from all the numbers below.                       *)
LEMMA NatInduct ==
  ASSUME NEW T, \A n \in Nat : 0..(n - 1) \subseteq T => n \in T
  PROVE  Nat \subseteq T
<1> SUFFICES ASSUME Nat \ T # {}  PROVE FALSE
  OBVIOUS
<1>1. PICK x \in Nat \ T : \A y \in Nat \ T : x <= y
  BY NatLeast
<1>2. 0..(x - 1) \subseteq T
  BY <1>1
<1>3. QED  BY <1>1, <1>2

LEMMA Halves ==
  ASSUME NEW n \in Nat, n >= 2
  PROVE  n \div 2 \in 0..(n - 1) /\ n \div 2 >= 1
  OBVIOUS

LogStep(f, n) == IF n < 2 THEN 0 ELSE 1 + f[n \div 2]

Logs(f, n) == \A k \in 0..n : f[k] = LogStep(f, k)

LEMMA LogsAgree ==
  ASSUME NEW f, NEW g, NEW m \in Nat, NEW n \in Nat, Logs(f, m), Logs(g, n),
         NEW k \in Nat, k <= m, k <= n
  PROVE  f[k] = g[k]
<1> DEFINE T == {j \in Nat : j <= m /\ j <= n => f[j] = g[j]}
<1>1. ASSUME NEW j \in Nat, 0..(j - 1) \subseteq T  PROVE j \in T
  <2> SUFFICES ASSUME j <= m, j <= n  PROVE f[j] = g[j]
    OBVIOUS
  <2>1. f[j] = LogStep(f, j) /\ g[j] = LogStep(g, j)
    BY DEF Logs
  <2>2. j >= 2 => f[j \div 2] = g[j \div 2]
    BY <1>1, Halves
  <2>3. QED  BY <2>1, <2>2 DEF LogStep
<1>2. Nat \subseteq T
  <2> HIDE DEF T
  <2> QED  BY <1>1, NatInduct
<1>3. QED  BY <1>2

LEMMA LogsExist == \A n \in Nat : \E f : Logs(f, n)
<1> DEFINE E == {n \in Nat : \E f : Logs(f, n)}
<1>1. ASSUME NEW n \in Nat, 0..(n - 1) \subseteq E  PROVE n \in E
  <2>1. CASE n < 2
    <3>1. Logs([k \in Nat |-> 0], n)
      BY <2>1 DEF Logs, LogStep
    <3>2. QED  BY <3>1
  <2>2. CASE n >= 2
    <3>1. PICK f : Logs(f, n - 1)
      BY <1>1, <2>2
    <3> DEFINE g == [k \in Nat |-> IF k = n THEN LogStep(f, n) ELSE f[k]]
    <3>2. ASSUME NEW k \in 0..n  PROVE g[k] = LogStep(g, k)
      <4>1. k >= 2 => k \div 2 \in 0..(n - 1) /\ g[k \div 2] = f[k \div 2]
        BY Halves
      <4>2. g[k] = LogStep(f, k)
        BY <3>1 DEF Logs
      <4> HIDE DEF g
      <4>3. QED  BY <4>1, <4>2 DEF LogStep
    <3>3. \E h : Logs(h, n)
      <4> HIDE DEF g
      <4> QED  BY <3>2 DEF Logs
    <3>4. QED  BY <3>3
  <2>3. QED  BY <2>1, <2>2
<1>2. Nat \subseteq E
  <2> HIDE DEF E
  <2> QED  BY <1>1, NatInduct
<1>3. QED  BY <1>2

LEMMA LogDef == \A n \in Nat : log2[n] = IF n < 2 THEN 0 ELSE 1 + log2[n \div 2]
<1> DEFINE some(n) == CHOOSE f : Logs(f, n)
           h == [n \in Nat |-> some(n)[n]]
           P(f) == f = [k \in Nat |-> LogStep(f, k)]
<1>1. \A n \in Nat : Logs(some(n), n)
  BY LogsExist
<1>2. P(h)
  <2> SUFFICES ASSUME NEW k \in Nat  PROVE h[k] = LogStep(h, k)
    OBVIOUS
  <2> DEFINE f == some(k)
             g == some(k \div 2)
  <2>1. h[k] = f[k] /\ f[k] = LogStep(f, k)
    BY <1>1 DEF Logs
  <2>2. CASE k < 2
    BY <2>1, <2>2 DEF LogStep
  <2>3. CASE k >= 2
    <3>1. k \div 2 \in Nat /\ h[k \div 2] = g[k \div 2] /\ Logs(g, k \div 2) /\ Logs(f, k)
      BY <1>1, <2>3, Halves
    <3>2. k \div 2 <= k
      BY Halves, <2>3
    <3> HIDE DEF f, g, h
    <3>3. f[k \div 2] = g[k \div 2]
      BY <3>1, <3>2, LogsAgree
    <3>4. QED  BY <2>1, <3>1, <3>3 DEF LogStep
  <2>4. QED  BY <2>2, <2>3
<1>3. P(CHOOSE f : P(f))
  <2> HIDE DEF P, h
  <2> QED  BY <1>2
<1>4. log2 = CHOOSE f : P(f)
  BY DEF log2, LogStep
<1>5. log2 = [k \in Nat |-> LogStep(log2, k)]
  <2> HIDE DEF h, some
  <2>1. P(log2)
    <3> HIDE DEF P
    <3> QED  BY <1>3, <1>4
  <2>2. QED  BY <2>1
<1>6. QED  BY ONLY <1>5 DEF LogStep

LEMMA LogGrows ==
  \A n \in Nat : log2[n] \in Nat /\ \A m \in 0..n : log2[m] <= log2[n]
<1> DEFINE T == {n \in Nat : /\ log2[n] \in Nat
                             /\ \A m \in 0..n : log2[m] \in Nat /\ log2[m] <= log2[n]}
<1>1. ASSUME NEW n \in Nat, 0..(n - 1) \subseteq T  PROVE n \in T
  <2>1. log2[n] \in Nat
    BY <1>1, LogDef, Halves
  <2>2. ASSUME NEW m \in 0..n  PROVE log2[m] \in Nat /\ log2[m] <= log2[n]
    <3>1. CASE m = n
      BY <3>1, <2>1
    <3>2. CASE m < 2
      BY <3>2, <2>1, LogDef
    <3>3. CASE m >= 2 /\ m # n
      <4>1. n >= 2 /\ m \in Nat /\ n \div 2 \in 0..(n - 1) /\ m \div 2 \in 0..(n \div 2)
        BY <3>3
      <4>2. log2[m \div 2] \in Nat /\ log2[m \div 2] <= log2[n \div 2] /\ log2[n \div 2] \in Nat
        BY <4>1, <1>1
      <4>3. log2[m] = 1 + log2[m \div 2] /\ log2[n] = 1 + log2[n \div 2]
        BY <4>1, <3>3, LogDef
      <4>4. QED  BY <4>2, <4>3
    <3>4. QED  BY <3>1, <3>2, <3>3
  <2>3. QED  BY <2>1, <2>2
<1>2. Nat \subseteq T
  <2> HIDE DEF T
  <2> QED  BY <1>1, NatInduct
<1>3. QED  BY <1>2

(* Twice as much is one more.                                              *)
LEMMA LogDoubles ==
  ASSUME NEW a \in Nat, NEW b \in Nat, NEW h \in Nat,
         a >= 1, b >= 1, h <= log2[a], h <= log2[b]
  PROVE  h + 1 <= log2[a + b]
<1>1. ASSUME NEW c \in Nat, c >= 1, c <= a, c <= b, h <= log2[c]  PROVE h + 1 <= log2[a + b]
  <2>1. (2 * c) \div 2 = c /\ 2 * c \in Nat /\ 2 * c >= 2 /\ 2 * c \in 0..(a + b)
    BY <1>1
  <2>2. log2[2 * c] = 1 + log2[c] /\ log2[c] \in Nat
    BY <2>1, <1>1, LogDef, LogGrows
  <2>3. log2[2 * c] <= log2[a + b] /\ log2[a + b] \in Nat
    BY <2>1, LogGrows
  <2>4. QED  BY <1>1, <2>2, <2>3
<1>2. a <= b \/ b <= a
  OBVIOUS
<1>3. QED  BY <1>1, <1>2

-----------------------------------------------------------------------------
(* Colors.  H[n] is the number of black nodes on every way down from n.    *)
Weight(c) == IF c = "BLACK" THEN 1 ELSE 0

Heights(lk, co, N, H) ==
  /\ H \in [N \cup {NULL} -> Nat] /\ H[NULL] = 0
  /\ \A n \in N, s \in 0..1 : H[n] = H[lk[n][s]] + Weight(co[n])

(* No red node has a red child, except in the places of X.                 *)
RedsApart(lk, co, N, X) ==
  \A n \in N, s \in 0..1 :
    <<n, s>> \notin X /\ co[n] = "RED" /\ lk[n][s] # NULL => co[lk[n][s]] = "BLACK"

Colors(co, N) == co \in [N -> {"RED", "BLACK"}]

Blackened(co, r) == [co EXCEPT ![r] = "BLACK"]

(* The root may become black at any time.                                  *)
LEMMA BlackRootKeepsHeights ==
  ASSUME NEW lk, NEW r, NEW N, NEW S, Tree(lk, r, N, S), r \in N,
         NEW co, Colors(co, N), NEW H, Heights(lk, co, N, H)
  PROVE  \E G : Heights(lk, Blackened(co, r), N, G)
<1> DEFINE G == [H EXCEPT ![r] = H[lk[r][0]] + 1]
<1>1. \A n \in N, s \in 0..1 : lk[n][s] # r /\ lk[n][s] \in N \cup {NULL}
  BY RootOnTop, Below
<1>2. H[lk[r][0]] = H[lk[r][1]]
  <2>1. /\ H[lk[r][0]] \in Nat /\ H[lk[r][1]] \in Nat
        /\ \A s \in 0..1 : H[r] = H[lk[r][s]] + Weight(co[r])
    BY <1>1 DEF Heights
  <2>2. Weight(co[r]) \in Nat
    BY DEF Weight
  <2>3. QED  BY <2>1, <2>2
<1>3. /\ r \in N \cup {NULL} /\ NULL \notin N
      /\ H \in [N \cup {NULL} -> Nat] /\ H[NULL] = 0
  BY DEF Heights, Tree
<1>4. G \in [N \cup {NULL} -> Nat] /\ G[NULL] = 0
  BY <1>1, <1>3
<1>5. ASSUME NEW n \in N, NEW s \in 0..1
      PROVE  G[n] = G[lk[n][s]] + Weight(Blackened(co, r)[n])
  <2>1. G[lk[n][s]] = H[lk[n][s]]
    BY <1>1, <1>3
  <2>2. CASE n = r
    <3>1. Blackened(co, r)[n] = "BLACK" /\ G[n] = H[lk[r][0]] + 1
      BY <2>2, <1>3 DEF Blackened, Colors
    <3>2. H[lk[n][s]] = H[lk[r][0]]
      BY <2>2, <1>2, Sides
    <3>3. QED  BY <2>1, <3>1, <3>2 DEF Weight
  <2>3. CASE n # r
    <3>1. Blackened(co, r)[n] = co[n] /\ G[n] = H[n]
      BY <2>3, <1>3 DEF Blackened, Colors
    <3>2. QED  BY <2>1, <3>1 DEF Heights
  <2>4. QED  BY <2>2, <2>3
<1>6. QED
  <2> HIDE DEF G
  <2> QED  BY <1>4, <1>5 DEF Heights

LEMMA BlackRootKeepsApart ==
  ASSUME NEW lk, NEW r, NEW N, r \in N, NEW co, Colors(co, N), NEW X,
         lk \in [N -> [0..1 -> N \cup {NULL}]],
         RedsApart(lk, co, N, X)
  PROVE  RedsApart(lk, Blackened(co, r), N, X \ {<<r, s>> : s \in 0..1})
<1> DEFINE c2 == Blackened(co, r)
<1>1. \A n \in N : c2[n] = IF n = r THEN "BLACK" ELSE co[n]
  BY DEF Blackened, Colors
<1> HIDE DEF c2
<1>2. ASSUME NEW n \in N, NEW s \in 0..1, <<n, s>> \notin X \ {<<r, u>> : u \in 0..1},
             c2[n] = "RED", lk[n][s] # NULL
      PROVE  c2[lk[n][s]] = "BLACK"
  <2>1. n # r /\ <<n, s>> \notin X /\ co[n] = "RED"
    BY <1>1, <1>2
  <2>2. lk[n][s] \in N
    BY <1>2
  <2>3. co[lk[n][s]] = "BLACK"
    BY <1>2, <2>1, Zenon DEF RedsApart
  <2>4. QED  BY <1>1, <2>2, <2>3
<1>3. QED  BY <1>2 DEF RedsApart, c2

(* A red child y is raised above x and takes the color of x for its own.   *)
Recolored(co, x, y) == [co EXCEPT ![x] = co[y], ![y] = co[x]]

LEMMA RotationKeepsHeights ==
  ASSUME NEW lk, NEW r, NEW N, NEW S, Tree(lk, r, N, S), NEW x \in N, NEW s \in 0..1,
         NEW y, y = lk[x][s], y # NULL, NEW lk2, NEW r2, Relinked(lk, r, N, x, s, lk2, r2),
         NEW co, Colors(co, N), co[y] = "RED", NEW H, Heights(lk, co, N, H)
  PROVE  \E G : Heights(lk2, Recolored(co, x, y), N, G)
<1> DEFINE G == [H EXCEPT ![x] = H[y], ![y] = H[x]]
           c2 == Recolored(co, x, y)
<1>1. /\ y \in N /\ y # x /\ 1 - s \in 0..1 /\ s # 1 - s /\ x # NULL
      /\ lk[x][1 - s] \notin {x, y} /\ lk[y][1 - s] \notin {x, y} /\ lk[y][s] \notin {x, y}
      /\ \A d \in 0..1 : lk[x][d] # x /\ lk[y][d] # x
  <2>1. NULL \notin N
    BY DEF Tree
  <2>2. QED  BY <2>1, Family
<1>2. /\ lk2[x][s] = lk[y][1 - s] /\ lk2[x][1 - s] = lk[x][1 - s]
      /\ lk2[y][1 - s] = x /\ lk2[y][s] = lk[y][s]
      /\ \A n \in N \ {x, y}, t \in 0..1 :
           lk2[n][t] = IF lk[n][t] = x THEN y ELSE lk[n][t]
  BY DEF Relinked
<1>3. /\ H \in [N \cup {NULL} -> Nat] /\ H[NULL] = 0
      /\ \A n \in N, t \in 0..1 : H[n] = H[lk[n][t]] + Weight(co[n])
      /\ \A n \in N, t \in 0..1 : lk[n][t] \in N \cup {NULL}
  BY DEF Heights, Tree
<1>4. /\ G \in [N \cup {NULL} -> Nat] /\ G[x] = H[y] /\ G[y] = H[x]
      /\ \A n \in N \cup {NULL} : n # x /\ n # y => G[n] = H[n]
  BY <1>1, <1>3
<1>5. c2[x] = "RED" /\ c2[y] = co[x] /\ \A n \in N \ {x, y} : c2[n] = co[n]
  BY <1>1 DEF Recolored, Colors
<1> HIDE DEF G, c2
<1>6. /\ H[y] = H[lk[y][s]] /\ H[y] = H[lk[y][1 - s]]
      /\ H[x] = H[y] + Weight(co[x]) /\ H[x] = H[lk[x][1 - s]] + Weight(co[x])
  <2>1. Weight(co[y]) = 0
    BY DEF Weight
  <2>2. H[lk[y][s]] \in Nat /\ H[lk[y][1 - s]] \in Nat
    BY <1>1, <1>3
  <2>3. /\ H[y] = H[lk[y][s]] + Weight(co[y]) /\ H[y] = H[lk[y][1 - s]] + Weight(co[y])
        /\ H[x] = H[y] + Weight(co[x]) /\ H[x] = H[lk[x][1 - s]] + Weight(co[x])
    BY <1>1, <1>3
  <2>4. QED  BY <2>1, <2>2, <2>3
<1>7. Weight(co[x]) \in {0, 1} /\ Weight("RED") = 0
  BY DEF Weight
<1>8. H[lk[x][1 - s]] = H[y]
  <2>1. H[lk[x][1 - s]] \in Nat /\ H[y] \in Nat
    BY <1>1, <1>3
  <2>2. QED  BY <2>1, <1>6, <1>7
<1> DEFINE a == lk[x][1 - s]
           b == lk[y][1 - s]
           c == lk[y][s]
<1>9. G[a] = H[y] /\ G[b] = H[y] /\ G[c] = H[y] /\ H[y] \in Nat
  <2>1. a \in N \cup {NULL} /\ b \in N \cup {NULL} /\ c \in N \cup {NULL}
    BY <1>1, <1>3
  <2>2. a \notin {x, y} /\ b \notin {x, y} /\ c \notin {x, y}
    BY <1>1
  <2>3. H[a] = H[y] /\ H[b] = H[y] /\ H[c] = H[y] /\ H[y] \in Nat
    BY <1>1, <1>3, <1>6, <1>8
  <2> HIDE DEF a, b, c
  <2>4. QED  BY <2>1, <2>2, <2>3, <1>4
<1>10. G[x] = G[lk2[x][s]] + Weight(c2[x]) /\ G[x] = G[lk2[x][1 - s]] + Weight(c2[x])
  <2>1. G[lk2[x][s]] = H[y] /\ G[lk2[x][1 - s]] = H[y] /\ H[y] \in Nat
    BY <1>2, <1>9
  <2>2. QED  BY <2>1, <1>4, <1>5, <1>7
<1>11. G[y] = G[lk2[y][s]] + Weight(c2[y]) /\ G[y] = G[lk2[y][1 - s]] + Weight(c2[y])
  <2>1. G[lk2[y][s]] = H[y] /\ G[lk2[y][1 - s]] = H[y] /\ H[y] \in Nat
    BY <1>2, <1>4, <1>9
  <2>2. QED  BY <2>1, <1>4, <1>5, <1>6
<1>12. ASSUME NEW n \in N, NEW t \in 0..1  PROVE G[n] = G[lk2[n][t]] + Weight(c2[n])
  <2>1. t = s \/ t = 1 - s
    BY Sides
  <2>2. CASE n \in {x, y}
    BY <2>1, <2>2, <1>10, <1>11
  <2>3. CASE n \notin {x, y}
    <3>1. lk[n][t] # y
      <4>1. lk[n][t] = lk[x][s] /\ lk[x][s] # NULL => n = x
        BY DEF Tree
      <4>2. QED  BY <4>1, <2>3
    <3>2. G[lk2[n][t]] = H[lk[n][t]]
      BY <2>3, <3>1, <1>2, <1>3, <1>4
    <3>3. QED  BY <2>3, <3>2, <1>3, <1>4, <1>5
  <2>4. QED  BY <2>2, <2>3
<1>13. G[NULL] = 0
  <2>1. NULL \notin N
    BY DEF Tree
  <2>2. QED  BY <2>1, <1>1, <1>3, <1>4
<1>14. QED  BY <1>4, <1>12, <1>13 DEF Heights, c2

(* Two reds, x and y under it: raised, y has x under it on the other side. *)
LEMMA TurnKeepsApart ==
  ASSUME NEW lk, NEW r, NEW N, NEW S, Tree(lk, r, N, S), NEW x \in N, NEW s \in 0..1,
         NEW y, y = lk[x][s], y # NULL, NEW lk2, NEW r2, Relinked(lk, r, N, x, s, lk2, r2),
         NEW co, Colors(co, N), co[x] = "RED", co[y] = "RED",
         RedsApart(lk, co, N, {<<x, s>>})
  PROVE  RedsApart(lk2, co, N, {<<y, 1 - s>>})
<1>1. /\ y \in N /\ y # x /\ 1 - s \in 0..1 /\ s # 1 - s
      /\ \A d \in 0..1 : lk[x][d] # x /\ lk[y][d] # x
  BY Family
<1>2. /\ lk2[x][s] = lk[y][1 - s] /\ lk2[x][1 - s] = lk[x][1 - s]
      /\ lk2[y][1 - s] = x /\ lk2[y][s] = lk[y][s]
      /\ \A n \in N \ {x, y}, t \in 0..1 :
           lk2[n][t] = IF lk[n][t] = x THEN y ELSE lk[n][t]
  BY DEF Relinked
<1>3. ASSUME NEW n \in N, NEW t \in 0..1, <<n, t>> # <<x, s>>, co[n] = "RED", lk[n][t] # NULL
      PROVE  co[lk[n][t]] = "BLACK"
  BY <1>3 DEF RedsApart
<1>4. ASSUME NEW n \in N, NEW t \in 0..1, <<n, t>> # <<y, 1 - s>>, co[n] = "RED",
             lk2[n][t] # NULL
      PROVE  co[lk2[n][t]] = "BLACK"
  <2>1. t = s \/ t = 1 - s
    BY Sides
  <2>2. CASE n = x
    <3>1. CASE t = s
      <4>1. <<y, 1 - s>> # <<x, s>>
        BY <1>1
      <4>2. QED  BY <2>2, <3>1, <4>1, <1>1, <1>2, <1>3, <1>4
    <3>2. CASE t = 1 - s
      <4>1. <<x, 1 - s>> # <<x, s>>
        BY <1>1
      <4>2. QED  BY <2>2, <3>2, <4>1, <1>1, <1>2, <1>3, <1>4
    <3>3. QED  BY <2>1, <3>1, <3>2
  <2>3. CASE n = y
    <3>1. t = s /\ <<y, s>> # <<x, s>>
      BY <2>1, <2>3, <1>1, <1>4
    <3>2. QED  BY <2>3, <3>1, <1>2, <1>3, <1>4
  <2>4. CASE n # x /\ n # y
    <3>1. <<n, t>> # <<x, s>>
      BY <2>4
    <3>2. x # NULL
      BY DEF Tree
    <3>3. lk[n][t] # x
      BY <3>1, <3>2, <1>3, <1>4
    <3>4. QED  BY <2>4, <3>1, <3>3, <1>2, <1>3, <1>4
  <2>5. QED  BY <2>2, <2>3, <2>4
<1>5. QED  BY <1>4 DEF RedsApart

(* Two reds, y and the one on its outer side, under x: raised, y takes the *)
(* black of x, and no reds are left together.                              *)
LEMMA RaiseKeepsApart ==
  ASSUME NEW lk, NEW r, NEW N, NEW S, Tree(lk, r, N, S), NEW x \in N, NEW s \in 0..1,
         NEW y, y = lk[x][s], y # NULL, NEW lk2, NEW r2, Relinked(lk, r, N, x, s, lk2, r2),
         NEW co, Colors(co, N), co[y] = "RED",
         lk[x][1 - s] # NULL => co[lk[x][1 - s]] = "BLACK",
         RedsApart(lk, co, N, {<<y, s>>})
  PROVE  co[x] = "BLACK" /\ RedsApart(lk2, Recolored(co, x, y), N, {})
<1> DEFINE c2 == Recolored(co, x, y)
<1>1. /\ y \in N /\ y # x /\ 1 - s \in 0..1 /\ s # 1 - s /\ x # NULL
      /\ lk[x][1 - s] \notin {x, y} /\ lk[y][1 - s] \notin {x, y} /\ lk[y][s] \notin {x, y}
      /\ \A d \in 0..1 : lk[x][d] # x /\ lk[y][d] # x
      /\ \A n \in N, t \in 0..1 : lk[n][t] \in N \cup {NULL}
  <2>1. NULL \notin N /\ \A n \in N, t \in 0..1 : lk[n][t] \in N \cup {NULL}
    BY DEF Tree
  <2>2. QED  BY <2>1, Family
<1>2. /\ lk2[x][s] = lk[y][1 - s] /\ lk2[x][1 - s] = lk[x][1 - s]
      /\ lk2[y][1 - s] = x /\ lk2[y][s] = lk[y][s]
      /\ \A n \in N \ {x, y}, t \in 0..1 :
           lk2[n][t] = IF lk[n][t] = x THEN y ELSE lk[n][t]
  BY DEF Relinked
<1>3. ASSUME NEW n \in N, NEW t \in 0..1, <<n, t>> # <<y, s>>, co[n] = "RED", lk[n][t] # NULL
      PROVE  co[lk[n][t]] = "BLACK"
  BY <1>3 DEF RedsApart
<1>4. co[x] = "BLACK"
  <2>1. <<x, s>> # <<y, s>> /\ co[x] \in {"RED", "BLACK"}
    BY <1>1 DEF Colors
  <2>2. QED  BY <2>1, <1>3
<1>5. c2[x] = "RED" /\ c2[y] = "BLACK" /\ \A n \in N \ {x, y} : c2[n] = co[n]
  BY <1>1, <1>4 DEF Recolored, Colors
<1> HIDE DEF c2
<1>6. ASSUME NEW n \in N, NEW t \in 0..1, c2[n] = "RED", lk2[n][t] # NULL
      PROVE  c2[lk2[n][t]] = "BLACK"
  <2>1. t = s \/ t = 1 - s
    BY Sides
  <2>2. CASE n = x
    <3>1. CASE t = s
      <4>1. <<y, 1 - s>> # <<y, s>> /\ lk2[n][t] = lk[y][1 - s]
        BY <2>2, <3>1, <1>1, <1>2
      <4>2. co[lk[y][1 - s]] = "BLACK"
        BY <4>1, <1>1, <1>3, <1>6
      <4>3. QED  BY <4>1, <4>2, <1>1, <1>5, <1>6
    <3>2. CASE t = 1 - s
      <4>1. lk2[n][t] = lk[x][1 - s]
        BY <2>2, <3>2, <1>2
      <4>2. QED  BY <4>1, <1>1, <1>5, <1>6
    <3>3. QED  BY <2>1, <3>1, <3>2
  <2>3. CASE n # x
    <3>1. n # y /\ co[n] = "RED" /\ <<n, t>> # <<y, s>>
      BY <2>3, <1>5, <1>6
    <3>2. lk[n][t] # y
      <4>1. lk[n][t] = lk[x][s] /\ lk[x][s] # NULL => n = x
        BY DEF Tree
      <4>2. QED  BY <4>1, <2>3
    <3>3. lk2[n][t] = IF lk[n][t] = x THEN y ELSE lk[n][t]
      BY <2>3, <3>1, <1>2
    <3>4. CASE lk[n][t] = x
      BY <3>3, <3>4, <1>5
    <3>5. CASE lk[n][t] # x
      <4>1. lk[n][t] \in N \ {x, y} /\ co[lk[n][t]] = "BLACK"
        BY <3>1, <3>2, <3>3, <3>5, <1>1, <1>3, <1>6
      <4>2. QED  BY <4>1, <3>3, <3>5, <1>5
    <3>6. QED  BY <3>4, <3>5
  <2>4. QED  BY <2>2, <2>3
<1>7. QED  BY <1>4, <1>6 DEF RedsApart, c2

(* A new red leaf k on side s of l, or alone.                              *)
Sprouted(lk, co, N, k, l, s, lk2, co2) ==
  /\ k \notin N /\ k # NULL /\ s \in 0..1
  /\ lk \in [N -> [0..1 -> N \cup {NULL}]]
  /\ l \in N => lk[l][s] = NULL
  /\ \A d \in 0..1 : lk2[k][d] = NULL
  /\ \A n \in N, d \in 0..1 : lk2[n][d] = IF n = l /\ d = s THEN k ELSE lk[n][d]
  /\ co2[k] = "RED" /\ \A n \in N : co2[n] = co[n]

LEMMA LeafKeepsHeights ==
  ASSUME NEW lk, NEW co, NEW N, NEW k, NEW l, NEW s, NEW lk2, NEW co2,
         Sprouted(lk, co, N, k, l, s, lk2, co2), NEW H, Heights(lk, co, N, H)
  PROVE  \E G : Heights(lk2, co2, N \cup {k}, G) /\ G[k] = 0
<1> DEFINE M == N \cup {k}
           G == [n \in M \cup {NULL} |-> IF n = k THEN 0 ELSE H[n]]
<1>1. /\ H \in [N \cup {NULL} -> Nat] /\ H[NULL] = 0
      /\ \A n \in N, d \in 0..1 : H[n] = H[lk[n][d]] + Weight(co[n])
      /\ \A n \in N, d \in 0..1 : lk[n][d] \in N \cup {NULL}
  BY DEF Heights, Sprouted
<1>2. /\ G \in [M \cup {NULL} -> Nat] /\ G[NULL] = 0 /\ G[k] = 0
      /\ \A n \in N \cup {NULL} : G[n] = H[n]
  BY <1>1 DEF Sprouted
<1> HIDE DEF G
<1>3. ASSUME NEW n \in M, NEW d \in 0..1  PROVE G[n] = G[lk2[n][d]] + Weight(co2[n])
  <2>1. CASE n = k
    BY <2>1, <1>2 DEF Weight, Sprouted
  <2>2. CASE n \in N
    <3>1. G[lk2[n][d]] = H[lk[n][d]]
      BY <2>2, <1>1, <1>2 DEF Sprouted
    <3>2. QED  BY <2>2, <3>1, <1>1, <1>2 DEF Sprouted
  <2>3. QED  BY <2>1, <2>2
<1>4. Heights(lk2, co2, M, G)
  BY <1>2, <1>3 DEF Heights
<1>5. QED  BY <1>2, <1>4

LEMMA LeafKeepsApart ==
  ASSUME NEW lk, NEW co, NEW N, NEW k, NEW l, NEW s, NEW lk2, NEW co2,
         Sprouted(lk, co, N, k, l, s, lk2, co2), RedsApart(lk, co, N, {})
  PROVE  RedsApart(lk2, co2, N \cup {k}, {<<l, s>>})
<1>1. ASSUME NEW n \in N \cup {k}, NEW d \in 0..1, <<n, d>> # <<l, s>>, co2[n] = "RED",
             lk2[n][d] # NULL
      PROVE  co2[lk2[n][d]] = "BLACK"
  <2>1. n \in N /\ lk2[n][d] = lk[n][d] /\ lk[n][d] \in N
    BY <1>1 DEF Sprouted
  <2>2. co[lk[n][d]] = "BLACK"
    BY <1>1, <2>1 DEF RedsApart, Sprouted
  <2>3. QED  BY <2>1, <2>2 DEF Sprouted
<1>2. QED  BY <1>1 DEF RedsApart

-----------------------------------------------------------------------------
(* A subtree has at least as many nodes as its height in black nodes asks  *)
(* for, and the way down is at most twice as long.                         *)
LEMMA SubtreeIsLarge ==
  ASSUME NEW lk, NEW r, NEW N, NEW S, Tree(lk, r, N, S), NEW co, NEW H,
         Heights(lk, co, N, H)
  PROVE  \A n \in N \cup {NULL} :
           Cardinality(S[n]) \in Nat /\ H[n] <= log2[Cardinality(S[n]) + 1]
<1> DEFINE Large(n) == Cardinality(S[n]) \in Nat /\ H[n] <= log2[Cardinality(S[n]) + 1]
           P == {n \in N \cup {NULL} : Large(n)}
<1>1. NULL \in P
  <2>1. Cardinality(S[NULL]) = 0 /\ H[NULL] = 0
    BY FS_EmptySet DEF Tree, Heights
  <2>2. log2[1] = 0
    BY LogDef
  <2>3. QED  BY <2>1, <2>2
<1>2. ASSUME NEW n \in N, lk[n][0] \in P, lk[n][1] \in P  PROVE n \in P
  <2> DEFINE A == S[lk[n][0]]
             B == S[lk[n][1]]
             a == Cardinality(A)
             b == Cardinality(B)
  <2>1. /\ IsFiniteSet(A) /\ IsFiniteSet(B) /\ A \cap B = {} /\ n \notin A \cup B
        /\ S[n] = A \cup B \cup {n}
    <3>1. A \subseteq N /\ B \subseteq N /\ IsFiniteSet(N) /\ S[n] = A \cup {n} \cup B
      BY DEF Tree
    <3>2. ASSUME NEW s \in 0..1
          PROVE  n \notin S[lk[n][s]] /\ \A m \in S[lk[n][s]] : m \notin S[lk[n][1 - s]]
      BY Below
    <3>3. A \cap B = {} /\ n \notin A \cup B
      BY <3>2
    <3>4. QED  BY <3>1, <3>3, FS_Subset
  <2>2. a \in Nat /\ b \in Nat /\ H[lk[n][0]] <= log2[a + 1] /\ H[lk[n][1]] <= log2[b + 1]
    BY <1>2
  <2>3. Cardinality(S[n]) = a + b + 1
    <3> HIDE DEF A, B
    <3>1. IsFiniteSet(A \cup B) /\ Cardinality(A \cup B) = a + b
      <4>1. Cardinality(A \cap B) = 0
        BY <2>1, FS_EmptySet
      <4>2. IsFiniteSet(A \cup B) /\ Cardinality(A \cup B) = a + b - Cardinality(A \cap B)
        BY <2>1, FS_Union
      <4>3. QED  BY <2>2, <4>1, <4>2
    <3>2. Cardinality((A \cup B) \cup {n}) = Cardinality(A \cup B) + 1
      BY <2>1, <3>1, FS_AddElement
    <3>3. QED  BY <2>1, <3>1, <3>2
  <2>4. \A s \in 0..1 : H[lk[n][s]] \in Nat /\ H[n] = H[lk[n][s]] + Weight(co[n])
    BY Below DEF Heights
  <2>5. Weight(co[n]) \in {0, 1}
    BY DEF Weight
  <2> DEFINE h == H[lk[n][0]]
  <2>6. h \in Nat /\ h = H[lk[n][1]] /\ H[n] <= h + 1 /\ H[n] \in Nat
    BY <2>4, <2>5
  <2> HIDE DEF a, b, h
  <2>7. h + 1 <= log2[(a + 1) + (b + 1)]
    <3>1. h <= log2[a + 1] /\ h <= log2[b + 1]
      BY <2>2, <2>6 DEF h
    <3>2. QED  BY <3>1, <2>2, <2>6, LogDoubles
  <2>8. (a + 1) + (b + 1) = Cardinality(S[n]) + 1 /\ Cardinality(S[n]) \in Nat
    BY <2>2, <2>3
  <2>9. log2[Cardinality(S[n]) + 1] \in Nat
    BY <2>8, LogGrows
  <2>10. H[n] <= log2[Cardinality(S[n]) + 1]
    BY <2>6, <2>7, <2>8, <2>9
  <2>11. QED  BY <2>8, <2>10
<1>3. N \cup {NULL} \subseteq P
  <2> HIDE DEF P
  <2> QED  BY <1>1, <1>2, TreeInduct
<1>4. QED  BY <1>3

Red(co, n) == IF n # NULL /\ co[n] = "RED" THEN 1 ELSE 0

LEMMA WayIsShort ==
  ASSUME NEW S, Tree(link, root, Node, S), NEW k \in Keys, NEW H,
         Heights(link, color, Node, H), Colors(color, Node), RedsApart(link, color, Node, {})
  PROVE  \A n \in Node \cup {NULL} :
           down(k, n) \in Seq(Node) /\ Len(down(k, n)) <= 2 * H[n] + Red(color, n)
<1> DEFINE Short(n) ==
             down(k, n) \in Seq(Node) /\ Len(down(k, n)) <= 2 * H[n] + Red(color, n)
           P == {n \in Node \cup {NULL} : Short(n)}
<1>1. /\ H \in [Node \cup {NULL} -> Nat] /\ H[NULL] = 0 /\ NULL \notin Node
      /\ \A n \in Node, s \in 0..1 : link[n][s] \in Node \cup {NULL}
  BY DEF Heights, Tree
<1>2. ASSUME NEW n \in Node \cup {NULL}, down(k, n) = <<>>  PROVE n \in P
  BY <1>1, <1>2 DEF Red
<1>3. NULL \in P
  <2>1. down(k, NULL) = <<>>
    BY DownIs
  <2>2. QED  BY <2>1, <1>2
<1>4. ASSUME NEW n \in Node, link[n][0] \in P, link[n][1] \in P  PROVE n \in P
  <2>1. CASE n = k
    <3>1. down(k, n) = <<>>
      BY <2>1, DownIs
    <3>2. QED  BY <3>1, <1>2
  <2>2. CASE n # k
    <3> DEFINE s == side(k, n)
               c == link[n][s]
               w == down(k, c)
    <3>1. s \in 0..1
      BY SideIs
    <3>2. c \in P /\ c \in Node \cup {NULL}
      BY <3>1, <1>1, <1>4, Sides
    <3>3. down(k, n) = <<n>> \o w
      BY <2>2, <1>1, DownIs
    <3>4. w \in Seq(Node) /\ Len(w) <= 2 * H[c] + Red(color, c) /\ Len(w) \in Nat
      BY <3>2, LenProperties
    <3>5. H[n] = H[c] + Weight(color[n]) /\ H[c] \in Nat
      BY <3>1, <3>2, <1>1 DEF Heights
    <3>6. color[n] = "RED" => Red(color, c) = 0
      BY <3>1 DEF RedsApart, Red
    <3>7. color[n] \in {"RED", "BLACK"} /\ n # NULL /\ Red(color, c) \in 0..1
      BY <1>1 DEF Colors, Red
    <3> HIDE DEF P, w, c, s
    <3>8. down(k, n) \in Seq(Node) /\ Len(down(k, n)) = 1 + Len(w)
      BY <3>3, <3>4, Prefixed
    <3>9. 1 + Len(w) <= 2 * H[n] + Red(color, n)
      <4>1. CASE color[n] = "RED"
        BY <4>1, <3>4, <3>5, <3>6, <3>7 DEF Weight, Red
      <4>2. CASE color[n] = "BLACK"
        BY <4>2, <3>4, <3>5, <3>7 DEF Weight, Red
      <4>3. QED  BY <4>1, <4>2, <3>7
    <3>10. QED  BY <3>8, <3>9 DEF P
  <2>3. QED  BY <2>1, <2>2
<1>5. Node \cup {NULL} \subseteq P
  <2> HIDE DEF P
  <2> QED  BY <1>3, <1>4, TreeInduct
<1>6. QED  BY <1>5

-----------------------------------------------------------------------------
(* The inductive invariant until a key is deleted: the tree is a red-black *)
(* tree but for the red node below the end of the path, whose parent may   *)
(* be red as well; and a red root is alone.                                *)
Exempt == IF pc = "insert" /\ Len(stack) >= 2 THEN {<<top, Last(dir)>>} ELSE {}

EvenHeights ==
  \E H : /\ Heights(link, color, Node, H)
         /\ pc = "idle" /\ root # NULL /\ color[root] = "RED" => H[root] = 0

RedAtEnd == pc = "insert" /\ Len(stack) >= 2 => color[link[top][Last(dir)]] = "RED"

BInv ==
  ~pruned =>
    /\ pc # "delete"
    /\ EvenHeights
    /\ RedsApart(link, color, Node, Exempt)
    /\ RedAtEnd
    /\ PathFits

LEMMA InitBInv == ASSUME Init PROVE BInv
<1>1. link = [n \in {} |-> 0] /\ color = [n \in {} |-> 0] /\ Node = {}
  BY DEF Init, Node
<1>2. Heights(link, color, Node, [n \in {NULL} |-> 0])
  BY <1>1 DEF Heights
<1>3. EvenHeights
  BY <1>2 DEF Init, EvenHeights
<1>4. RedsApart(link, color, Node, Exempt)
  BY <1>1 DEF RedsApart
<1>5. QED  BY <1>3, <1>4 DEF BInv, Init, RedAtEnd, PathFits

LEMMA NodeColors == ASSUME IInv PROVE Colors(color, Node)
  BY Nodes DEF Colors

(* What insertion adds, and the path it keeps.                             *)
LEMMA InsertionAdds ==
  ASSUME IInv, NEW k \in Keys, insertion(k), NEW w, w = down(k, root),
         NEW l, l = w[Len(w)], NEW s, s = side(k, l)
  PROVE  /\ pc = "idle" /\ k \notin Node /\ k # NULL /\ Node' = Node \cup {k} /\ s \in 0..1
         /\ \A d \in 0..1 : link'[k][d] = NULL
         /\ \A n \in Node, d \in 0..1 :
              link'[n][d] = IF n = l /\ d = s THEN k ELSE link[n][d]
         /\ color'[k] = "RED" /\ \A n \in Node : color'[n] = color[n]
         /\ keys' = keys \cup {k} /\ pruned' = pruned
         /\ IF root = NULL
            THEN Node = {} /\ root' = k /\ pc' = "idle"
            ELSE /\ root \in Node /\ root' = root /\ pc' = "insert"
                 /\ l \in Node /\ link[l][s] = NULL /\ link'[l][s] = k
                 /\ Len(w) \in Nat /\ Len(w) >= 1
                 /\ Len(stack') = 1 + Len(w) /\ top' = l /\ Last(dir)' = s
<1>1. /\ Node \subseteq Int /\ NULL \notin Node /\ root \in Node \cup {NULL}
      /\ link \in [Node -> [0..1 -> Node \cup {NULL}]]
      /\ k # NULL /\ k \notin Node /\ pc = "idle" /\ s \in 0..1
  BY Nodes, RBTreeAssumption, SideIs DEF insertion
<1>2. PICK S : Tree(link, root, Node, S)
  BY DEF IInv, SearchTree
<1>3. Way(w, k, root, Node)
  <2>1. S[root] = Node
    BY <1>2 DEF Tree
  <2>2. QED  BY <1>1, <1>2, <2>1, DownIsWay
<1>4. root = NULL => Node = {}
  BY <1>2 DEF Tree
<1>5. Node' = Node \cup {k}
  BY DEF insertion, createNode, Node
<1>6. /\ color'[k] = "RED" /\ \A n \in Node : color'[n] = color[n]
      /\ keys' = keys \cup {k} /\ pruned' = pruned
  BY <1>1 DEF insertion, createNode
<1>7. /\ \A d \in 0..1 : link'[k][d] = NULL
      /\ \A n \in Node, d \in 0..1 :
           link'[n][d] = IF n = l /\ d = s THEN k ELSE link[n][d]
  <2>1. link' = [n \in Node \cup {k} |->
                   IF n = k THEN [d \in 0..1 |-> NULL]
                   ELSE IF root # NULL /\ n = l THEN [link[n] EXCEPT ![side(k, n)] = k]
                   ELSE link[n]]
    BY DEF insertion, createNode, Last
  <2>2. \A n \in Node, d \in 0..1 :
          link'[n][d] = IF root # NULL /\ n = l /\ d = side(k, n) THEN k ELSE link[n][d]
    BY <2>1, <1>1
  <2>3. QED  BY <2>1, <2>2, <1>1, <1>4
<1>8. CASE root = NULL
  BY <1>1, <1>4, <1>5, <1>6, <1>7, <1>8 DEF insertion
<1>9. CASE root # NULL
  <2> DEFINE d == [j \in DOMAIN w |-> side(k, w[j])]
  <2>1. w \in Seq(Node) /\ Len(w) \in Nat \ {0} /\ 0 \in 0..1 /\ root \in Node
    <3>1. w \in Seq(Node) /\ w # <<>>
      BY <1>1, <1>3, <1>9 DEF Way
    <3>2. QED  BY <3>1, <1>1, <1>9, EmptySeq
  <2>2. d \in Seq(0..1) /\ Len(d) = Len(w) /\ \A j \in 1..Len(w) : d[j] = side(k, w[j])
    BY <2>1, LenProperties, SideIs
  <2>3. stack' = <<root>> \o w /\ dir' = <<0>> \o d /\ pc' = "insert" /\ root' = root
    BY <1>9 DEF insertion
  <2>4. l \in Node /\ link[l][s] = NULL
    BY <1>1, <1>3, <2>1, ElementOfSeq DEF Way
  <2> HIDE DEF d
  <2>5. Len(stack') = 1 + Len(w) /\ \A j \in 1..Len(w) : stack'[j + 1] = w[j]
    BY <2>1, <2>3, Prefixed
  <2>6. Len(dir') = 1 + Len(w) /\ \A j \in 1..Len(w) : dir'[j + 1] = side(k, w[j])
    BY <2>1, <2>2, <2>3, Prefixed
  <2>7. Len(w) \in 1..Len(w) /\ Len(w) + 1 = 1 + Len(w)
    BY <2>1
  <2>8. top' = l /\ Last(dir)' = s
    BY <2>5, <2>6, <2>7 DEF top, Last
  <2>9. QED
    BY <1>1, <1>5, <1>6, <1>7, <1>9, <2>1, <2>3, <2>4, <2>5, <2>8
<1>10. QED  BY <1>8, <1>9

LEMMA InsertionKeepsBInv ==
  ASSUME IInv, BInv, NEW k \in Keys, insertion(k)
  PROVE  BInv'
<1> SUFFICES ASSUME ~pruned'  PROVE BInv'
  BY DEF BInv
<1> DEFINE w == down(k, root)
           l == w[Len(w)]
           s == side(k, l)
           n2 == Cardinality(keys')
<1>1. /\ pc = "idle" /\ k \notin Node /\ k # NULL /\ Node' = Node \cup {k} /\ s \in 0..1
      /\ \A d \in 0..1 : link'[k][d] = NULL
      /\ \A n \in Node, d \in 0..1 :
           link'[n][d] = IF n = l /\ d = s THEN k ELSE link[n][d]
      /\ color'[k] = "RED" /\ \A n \in Node : color'[n] = color[n]
      /\ keys' = keys \cup {k} /\ pruned' = pruned
      /\ IF root = NULL
         THEN Node = {} /\ root' = k /\ pc' = "idle"
         ELSE /\ root \in Node /\ root' = root /\ pc' = "insert"
              /\ l \in Node /\ link[l][s] = NULL /\ link'[l][s] = k
              /\ Len(w) \in Nat /\ Len(w) >= 1
              /\ Len(stack') = 1 + Len(w) /\ top' = l /\ Last(dir)' = s
  BY InsertionAdds
<1>2. Exempt = {}
  BY <1>1 DEF Exempt
<1>3. ~pruned /\ EvenHeights /\ RedsApart(link, color, Node, {})
  BY <1>1, <1>2 DEF BInv
<1>4. PICK H : /\ Heights(link, color, Node, H)
               /\ root # NULL /\ color[root] = "RED" => H[root] = 0
  BY <1>1, <1>3 DEF EvenHeights
<1>5. /\ link \in [Node -> [0..1 -> Node \cup {NULL}]] /\ root \in Node \cup {NULL}
      /\ NULL \notin Node /\ Colors(color, Node)
  BY Nodes, NodeColors
<1> DEFINE lk2 == link'
           co2 == color'
           N2 == Node'
<1>6. Sprouted(link, color, Node, k, l, s, lk2, co2) /\ N2 = Node \cup {k}
  BY <1>1, <1>5 DEF Sprouted
<1>7. \E G : Heights(lk2, co2, N2, G) /\ G[k] = 0
  <2> HIDE DEF w, l, s, lk2, co2, N2
  <2> QED  BY <1>4, <1>6, LeafKeepsHeights
<1>8. EvenHeights'
  BY <1>1, <1>7 DEF EvenHeights
<1>9. RedsApart(link, color, Node, Exempt)'
  <2>1. RedsApart(lk2, co2, N2, {<<l, s>>})
    <3> HIDE DEF w, l, s, lk2, co2, N2
    <3> QED  BY <1>3, <1>6, LeafKeepsApart
  <2>2. CASE root = NULL
    <3>1. (\A d \in 0..1 : lk2[k][d] = NULL) /\ N2 = {k}
      BY <2>2, <1>1
    <3>2. RedsApart(lk2, co2, N2, {})
      BY <3>1 DEF RedsApart
    <3>3. Exempt' = {}
      BY <2>2, <1>1 DEF Exempt
    <3>4. QED  BY <3>2, <3>3
  <2>3. CASE root # NULL
    <3>1. Exempt' = {<<l, s>>}
      BY <2>3, <1>1 DEF Exempt
    <3>2. QED  BY <2>1, <3>1
  <2>4. QED  BY <2>2, <2>3
<1>10. RedAtEnd'
  BY <1>1 DEF RedAtEnd
<1> HIDE DEF w, l, s
<1>11. PathFits'
  <2> SUFFICES ASSUME root # NULL  PROVE Len(stack') <= 2 * log2[n2] + 1
    BY <1>1 DEF PathFits
  <2>1. PICK S : Tree(link, root, Node, S)
    BY DEF IInv, SearchTree
  <2>2. w \in Seq(Node) /\ Len(w) <= 2 * H[root] + Red(color, root)
    BY <2>1, <1>3, <1>4, <1>5, WayIsShort DEF w
  <2>3. IsFiniteSet(Node) /\ S[root] = Node /\ keys = Node
    BY <2>1 DEF Tree, IInv
  <2>4. Cardinality(Node) \in Nat /\ H[root] <= log2[Cardinality(Node) + 1]
    BY <2>1, <2>3, <1>4, <1>5, SubtreeIsLarge
  <2>5. n2 = Cardinality(Node) + 1
    <3>1. keys' = Node \cup {k}
      BY <2>3, <1>1
    <3>2. Cardinality(Node \cup {k}) = Cardinality(Node) + 1
      BY <2>3, <1>1, FS_AddElement
    <3>3. QED  BY <3>1, <3>2
  <2>6. Cardinality(Node) >= 1
    BY <2>3, <2>4, <1>1, FS_EmptySet
  <2> HIDE DEF n2
  <2>7. n2 \in Nat /\ n2 >= 2 /\ H[root] <= log2[n2] /\ log2[n2] \in Nat /\ log2[n2] >= 1
    <3>1. n2 \in Nat /\ n2 >= 2 /\ H[root] <= log2[n2]
      BY <2>4, <2>5, <2>6
    <3>2. log2[2] = 1
      <4>1. 2 \div 2 = 1
        OBVIOUS
      <4>2. log2[1] = 0 /\ log2[2] = 1 + log2[2 \div 2]
        BY LogDef
      <4>3. QED  BY <4>1, <4>2
    <3>3. log2[n2] \in Nat /\ log2[2] <= log2[n2]
      BY <3>1, LogGrows
    <3>4. QED  BY <3>1, <3>2, <3>3
  <2>8. H[root] \in Nat
    BY <1>4, <1>5 DEF Heights
  <2>9. Len(w) <= 2 * log2[n2]
    <3>1. CASE color[root] = "RED"
      <4>1. H[root] = 0 /\ Red(color, root) = 1
        BY <3>1, <1>4 DEF Red
      <4>2. QED  BY <4>1, <2>2, <2>7, <1>1
    <3>2. CASE color[root] # "RED"
      <4>1. Red(color, root) = 0
        BY <3>2 DEF Red
      <4>2. QED  BY <4>1, <2>2, <2>7, <2>8, <1>1
    <3>3. QED  BY <3>1, <3>2
  <2>10. QED  BY <2>7, <2>9, <1>1
<1>12. QED
  BY <1>1, <1>8, <1>9, <1>10, <1>11 DEF BInv

-----------------------------------------------------------------------------
(* The black of g is pushed down to its red children x and u.              *)
PushedDown(co, g, x, u) ==
  [co EXCEPT ![g] = "RED", ![x] = "BLACK", ![u] = "BLACK"]

LEMMA PushDown ==
  ASSUME NEW lk, NEW r, NEW N, NEW S, Tree(lk, r, N, S), NEW g \in N, NEW t \in 0..1,
         NEW x, x = lk[g][t], x # NULL, NEW u, u = lk[g][1 - t], u # NULL,
         NEW co, Colors(co, N)
  PROVE  /\ x \in N /\ u \in N /\ x # g /\ u # g /\ x # u
         /\ \A s \in 0..1 : lk[g][s] \in {x, u}
         /\ \A n \in N \ {g}, s \in 0..1 : lk[n][s] \notin {x, u}
         /\ LET c2 == PushedDown(co, g, x, u)
            IN  /\ c2[g] = "RED" /\ c2[x] = "BLACK" /\ c2[u] = "BLACK"
                /\ \A n \in N \ {g, x, u} : c2[n] = co[n]
<1>1. x \in N /\ u \in N /\ 1 - t \in 0..1 /\ t # 1 - t
  BY Below, Sides
<1>2. x # g /\ u # g
  BY <1>1, Family
<1>3. \A n, m \in N, s, d \in 0..1 :
        lk[n][s] = lk[m][d] /\ lk[n][s] # NULL => n = m /\ s = d
  BY DEF Tree
<1>4. x # u
  BY <1>1, <1>3
<1>5. \A n \in N \ {g}, s \in 0..1 : lk[n][s] \notin {x, u}
  BY <1>1, <1>3
<1>6. \A s \in 0..1 : lk[g][s] \in {x, u}
  BY <1>1, Sides
<1>7. QED  BY <1>1, <1>2, <1>4, <1>5, <1>6 DEF PushedDown, Colors

LEMMA PushDownKeepsHeights ==
  ASSUME NEW lk, NEW r, NEW N, NEW S, Tree(lk, r, N, S), NEW g \in N, NEW t \in 0..1,
         NEW x, x = lk[g][t], x # NULL, NEW u, u = lk[g][1 - t], u # NULL,
         NEW co, Colors(co, N), co[g] = "BLACK", co[x] = "RED", co[u] = "RED",
         NEW H, Heights(lk, co, N, H)
  PROVE  \E G : Heights(lk, PushedDown(co, g, x, u), N, G)
<1> DEFINE G == [n \in N \cup {NULL} |-> IF n \in {x, u} THEN H[n] + 1 ELSE H[n]]
           c2 == PushedDown(co, g, x, u)
<1>1. /\ x \in N /\ u \in N /\ x # g /\ u # g /\ x # u
      /\ \A s \in 0..1 : lk[g][s] \in {x, u}
      /\ \A n \in N \ {g}, s \in 0..1 : lk[n][s] \notin {x, u}
      /\ c2[g] = "RED" /\ c2[x] = "BLACK" /\ c2[u] = "BLACK"
      /\ \A n \in N \ {g, x, u} : c2[n] = co[n]
  BY PushDown
<1>2. /\ H \in [N \cup {NULL} -> Nat] /\ H[NULL] = 0
      /\ \A n \in N, s \in 0..1 : H[n] = H[lk[n][s]] + Weight(co[n])
      /\ \A n \in N, s \in 0..1 : lk[n][s] \in N \cup {NULL}
  BY DEF Heights, Tree
<1>3. /\ G \in [N \cup {NULL} -> Nat] /\ G[NULL] = 0
      /\ \A n \in {x, u} : G[n] = H[n] + 1
      /\ \A n \in (N \cup {NULL}) \ {x, u} : G[n] = H[n]
  BY <1>1, <1>2
<1> HIDE DEF G, c2
<1>4. Weight("RED") = 0 /\ Weight("BLACK") = 1
  BY DEF Weight
<1>5. ASSUME NEW n \in N, NEW s \in 0..1  PROVE G[n] = G[lk[n][s]] + Weight(c2[n])
  <2>1. H[lk[n][s]] \in Nat /\ H[n] \in Nat /\ H[n] = H[lk[n][s]] + Weight(co[n])
    BY <1>2
  <2>2. CASE n = g
    <3>1. lk[n][s] \in {x, u}
      BY <2>2, <1>1
    <3>2. G[n] = H[n] /\ G[lk[n][s]] = H[lk[n][s]] + 1
      BY <2>2, <3>1, <1>1, <1>3
    <3>3. QED  BY <2>1, <2>2, <3>2, <1>1, <1>4
  <2>3. CASE n # g
    <3>1. lk[n][s] \notin {x, u}
      BY <2>3, <1>1
    <3>2. G[lk[n][s]] = H[lk[n][s]]
      BY <3>1, <1>2, <1>3
    <3>3. CASE n \in {x, u}
      <4>1. G[n] = H[n] + 1 /\ c2[n] = "BLACK" /\ co[n] = "RED"
        BY <3>3, <1>1, <1>3
      <4>2. QED  BY <2>1, <3>2, <4>1, <1>4
    <3>4. CASE n \notin {x, u}
      BY <2>1, <2>3, <3>2, <3>4, <1>1, <1>3
    <3>5. QED  BY <3>3, <3>4
  <2>4. QED  BY <2>2, <2>3
<1>6. QED  BY <1>3, <1>5 DEF Heights, c2

(* g has become red, and its parent may be so: that is the place in X.     *)
LEMMA PushDownKeepsApart ==
  ASSUME NEW lk, NEW r, NEW N, NEW S, Tree(lk, r, N, S), NEW g \in N, NEW t \in 0..1,
         NEW x, x = lk[g][t], x # NULL, NEW u, u = lk[g][1 - t], u # NULL,
         NEW co, Colors(co, N), NEW d, RedsApart(lk, co, N, {<<x, d>>}),
         NEW X, \A n \in N, s \in 0..1 : lk[n][s] = g => <<n, s>> \in X
  PROVE  RedsApart(lk, PushedDown(co, g, x, u), N, X)
<1> DEFINE c2 == PushedDown(co, g, x, u)
<1>1. /\ x \in N /\ u \in N /\ x # g /\ u # g /\ x # u
      /\ \A s \in 0..1 : lk[g][s] \in {x, u}
      /\ \A n \in N \ {g}, s \in 0..1 : lk[n][s] \notin {x, u}
      /\ c2[g] = "RED" /\ c2[x] = "BLACK" /\ c2[u] = "BLACK"
      /\ \A n \in N \ {g, x, u} : c2[n] = co[n]
  BY PushDown
<1> HIDE DEF c2
<1>2. ASSUME NEW n \in N, NEW s \in 0..1, <<n, s>> \notin X, c2[n] = "RED", lk[n][s] # NULL
      PROVE  c2[lk[n][s]] = "BLACK"
  <2>1. CASE n = g
    BY <2>1, <1>1
  <2>2. CASE n # g
    <3>1. n \notin {x, u} /\ co[n] = "RED" /\ <<n, s>> # <<x, d>>
      BY <2>2, <1>1, <1>2
    <3>2. co[lk[n][s]] = "BLACK"
      BY <3>1, <1>2 DEF RedsApart
    <3>3. lk[n][s] \in N /\ lk[n][s] # g /\ lk[n][s] \notin {x, u}
      <4>1. lk[n][s] \in N
        BY <1>2 DEF Tree
      <4>2. QED  BY <2>2, <4>1, <1>1, <1>2
    <3>4. QED  BY <3>2, <3>3, <1>1
  <2>3. QED  BY <2>1, <2>2
<1>3. QED  BY <1>2 DEF RedsApart, c2

(* The last three nodes of the path and the place of the next red node.    *)
LEMMA RecoloredAt ==
  ASSUME IInv, Recolor
  PROVE  /\ parent \in Node /\ grandparent \in Node /\ turn \in 0..1 /\ 1 - turn \in 0..1
         /\ link[grandparent][turn] = parent /\ parent # NULL
         /\ Len(stack) \in Nat /\ Len(stack) >= 3 /\ Len(stack') = Len(stack) - 2
         /\ Len(stack') >= 2 =>
              top' \in Node /\ Last(dir)' \in 0..1 /\ link[top'][Last(dir)'] = grandparent
         /\ Len(stack') < 2 => grandparent = root
<1> DEFINE L == Len(stack)
<1>1. L \in Nat /\ L >= 3 /\ L - 2 \in 0..L /\ L = Len(dir)
  BY Nodes DEF Recolor, TwoReds
<1>2. stack \in Seq(Node) /\ dir \in Seq(0..1)
  BY DEF IInv, Places
<1>3. Len(stack') = L - 2 /\ \A j \in 1..(L - 2) : stack'[j] = stack[j]
  BY <1>1, <1>2, Prefix DEF Recolor
<1>4. Len(dir') = L - 2 /\ \A j \in 1..(L - 2) : dir'[j] = dir[j]
  BY <1>1, <1>2, Prefix DEF Recolor
<1>5. /\ stack[2] = root
      /\ \A j \in 2..(L - 1) : link[stack[j]][dir[j]] = stack[j + 1]
      /\ \A j \in 1..L : stack[j] \in Node /\ dir[j] \in 0..1
  BY <1>1, Nodes DEF IInv, InsertPath, Recolor, TwoReds
<1>6. parent = stack[L] /\ grandparent = stack[L - 1] /\ turn = dir[L - 1]
  BY DEF parent, grandparent, turn, top, Last
<1>7. L \in 1..L /\ L - 1 \in 1..L /\ L - 1 \in 2..(L - 1) /\ (L - 1) + 1 = L
  BY <1>1
<1>8. parent \in Node /\ grandparent \in Node /\ turn \in 0..1
  BY <1>5, <1>6, <1>7
<1>9. link[grandparent][turn] = parent
  BY <1>5, <1>6, <1>7
<1>10. ASSUME Len(stack') >= 2
       PROVE  top' \in Node /\ Last(dir)' \in 0..1 /\ link[top'][Last(dir)'] = grandparent
  <2>1. L - 2 \in 1..(L - 2) /\ L - 2 \in 1..L /\ L - 2 \in 2..(L - 1) /\ (L - 2) + 1 = L - 1
    BY <1>1, <1>3, <1>10
  <2>2. top' = stack[L - 2] /\ Last(dir)' = dir[L - 2]
    BY <2>1, <1>3, <1>4 DEF top, Last
  <2>3. stack[L - 2] \in Node /\ dir[L - 2] \in 0..1
    BY <2>1, <1>5
  <2>4. link[stack[L - 2]][dir[L - 2]] = stack[L - 1]
    BY <2>1, <1>5
  <2>5. QED  BY <2>2, <2>3, <2>4, <1>6
<1>11. ASSUME Len(stack') < 2  PROVE grandparent = root
  <2>1. L = 3
    BY <1>1, <1>3, <1>11
  <2>2. QED  BY <2>1, <1>5, <1>6
<1>12. QED
  BY <1>1, <1>3, <1>8, <1>9, <1>10, <1>11, Nodes, Sides

LEMMA RecolorKeepsBInv == ASSUME IInv, BInv, Recolor PROVE BInv'
<1> SUFFICES ASSUME ~pruned'  PROVE BInv'
  BY DEF BInv
<1> DEFINE x == parent
           g == grandparent
           t == turn
           u == uncle
           X == Exempt'
           c2 == color'
<1>1. /\ x \in Node /\ g \in Node /\ t \in 0..1 /\ 1 - t \in 0..1
      /\ link[g][t] = x /\ x # NULL
      /\ Len(stack) \in Nat /\ Len(stack) >= 3 /\ Len(stack') = Len(stack) - 2
      /\ Len(stack') >= 2 =>
           top' \in Node /\ Last(dir)' \in 0..1 /\ link[top'][Last(dir)'] = g
      /\ Len(stack') < 2 => g = root
  BY RecoloredAt
<1>2. /\ ~pruned /\ pc = "insert" /\ pc' = "insert" /\ link' = link /\ root' = root
      /\ keys' = keys /\ Node' = Node
      /\ color[x] = "RED" /\ color[u] = "RED" /\ u # NULL /\ u = link[g][1 - t]
      /\ c2 = PushedDown(color, g, x, u)
  BY DEF Recolor, TwoReds, IsRed, uncle, parent, grandparent, turn, PushedDown, history, Node
<1>3. /\ RedsApart(link, color, Node, {<<x, Last(dir)>>}) /\ PathFits
      /\ \E H : Heights(link, color, Node, H)
  <2>1. Exempt = {<<x, Last(dir)>>}
    BY <1>1, <1>2 DEF Exempt, parent
  <2>2. QED  BY <2>1, <1>2 DEF BInv, EvenHeights
<1>4. PICK S : Tree(link, root, Node, S)
  BY DEF IInv, SearchTree
<1>5. Colors(color, Node)
  BY NodeColors
<1>6. \A n \in Node, s \in 0..1 : link[n][s] = g => <<n, s>> \in X
  <2> SUFFICES ASSUME NEW n \in Node, NEW s \in 0..1, link[n][s] = g  PROVE <<n, s>> \in X
    OBVIOUS
  <2>1. g # root
    BY <1>4, RootOnTop
  <2>2. Len(stack') >= 2
    BY <2>1, <1>1
  <2>3. /\ g # NULL
        /\ \A m \in Node, d \in 0..1 :
             link[n][s] = link[m][d] /\ link[n][s] # NULL => n = m /\ s = d
    BY <1>1, <1>4 DEF Tree
  <2>4. n = top' /\ s = Last(dir)'
    <3> HIDE DEF g
    <3> QED  BY <2>2, <2>3, <1>1
  <2>5. QED  BY <2>2, <2>4, <1>2 DEF Exempt
<1> HIDE DEF x, g, t, u, X, c2
<1>7. x # g /\ u # g /\ x \in Node /\ u \in Node
  BY <1>1, <1>2, <1>4, <1>5, PushDown
<1>8. color[g] = "BLACK"
  <2>1. <<g, t>> # <<x, Last(dir)>> /\ color[g] \in {"RED", "BLACK"}
    BY <1>1, <1>5, <1>7 DEF Colors
  <2>2. QED  BY <2>1, <1>1, <1>2, <1>3 DEF RedsApart
<1>9. \E H : Heights(link, c2, Node, H)
  BY <1>1, <1>2, <1>3, <1>4, <1>5, <1>8, PushDownKeepsHeights
<1>10. RedsApart(link, c2, Node, X)
  BY <1>1, <1>2, <1>3, <1>4, <1>5, <1>6, PushDownKeepsApart
<1>11. c2[g] = "RED"
  BY <1>1, <1>2, <1>4, <1>5, PushDown
<1>12. EvenHeights'
  BY <1>2, <1>9 DEF EvenHeights, c2
<1>13. RedsApart(link, color, Node, Exempt)'
  BY <1>2, <1>10 DEF c2, X
<1>14. RedAtEnd'
  BY <1>1, <1>2, <1>11 DEF RedAtEnd, c2
<1>15. PathFits'
  <2>1. Len(stack) <= 2 * log2[Cardinality(keys)] + 1
    BY <1>2, <1>3 DEF PathFits
  <2>2. log2[Cardinality(keys)] \in Nat
    <3>1. IsFiniteSet(Node) /\ keys = Node
      BY <1>4 DEF Tree, IInv
    <3>2. Cardinality(keys) \in Nat
      BY <3>1, FS_CardinalityType
    <3>3. QED  BY <3>2, LogGrows
  <2>3. Len(stack') <= 2 * log2[Cardinality(keys)] + 1
    BY <2>1, <2>2, <1>1
  <2>4. QED  BY <2>3, <1>2 DEF PathFits
<1>16. QED
  BY <1>2, <1>12, <1>13, <1>14, <1>15 DEF BInv

(* With the new node on the outer side, it and its parent y are red, and   *)
(* their grandparent g has black on its other side.                        *)
OuterReds(g, t) ==
  LET y == Outer[g][t]
  IN  /\ y # NULL /\ color[y] = "RED"
      /\ \E H : Heights(Outer, color, Node, H)
      /\ RedsApart(Outer, color, Node, {<<y, t>>})
      /\ Outer[g][1 - t] # NULL => color[Outer[g][1 - t]] = "BLACK"

LEMMA OuterIsRed ==
  ASSUME IInv, BInv, ~pruned, Rotate
  PROVE  OuterReds(grandparent, turn)
<1> DEFINE x == parent
           g == grandparent
           t == turn
           d == Last(dir)
           lk == Outer
           z == link[x][d]
<1>1. /\ x \in Node /\ g \in Node /\ t \in 0..1 /\ d \in 0..1
      /\ link[g][t] = x /\ z # NULL
      /\ IF d = t THEN lk = link
         ELSE d = 1 - t /\ Relinked(link, root, Node, x, d, lk, root)
  BY RotateTwice DEF RotatedTwice
<1>2. PICK S : Tree(link, root, Node, S)
  BY DEF IInv, SearchTree
<1>3. color[x] = "RED" /\ (link[g][1 - t] # NULL => color[link[g][1 - t]] # "RED")
  BY DEF Rotate, TwoReds, IsRed, uncle, parent, grandparent, turn
<1>4. /\ RedsApart(link, color, Node, {<<x, d>>}) /\ color[z] = "RED"
      /\ \E H : Heights(link, color, Node, H)
  <2>1. Exempt = {<<x, d>>} /\ pc = "insert" /\ Len(stack) >= 2
    BY Nodes DEF Exempt, Rotate, TwoReds, parent
  <2>2. QED  BY <2>1 DEF BInv, EvenHeights, RedAtEnd, parent
<1>5. Colors(color, Node)
  BY NodeColors
<1> HIDE DEF x, g, t, d, lk, z
<1>6. 1 - t \in 0..1 /\ t # 1 - t /\ link[g][1 - t] \in Node \cup {NULL} /\ x # NULL /\ x # g
  <2>1. x # NULL
    BY <1>1, <1>2 DEF Tree
  <2>2. QED  BY <2>1, <1>1, <1>2, Family
<1>7. link[g][1 - t] # NULL => color[link[g][1 - t]] = "BLACK"
  BY <1>3, <1>5, <1>6 DEF Colors
<1>8. CASE d = t
  BY <1>1, <1>3, <1>4, <1>6, <1>7, <1>8 DEF OuterReds, lk, g, t
<1>9. CASE d # t
  <2>1. d = 1 - t /\ Relinked(link, root, Node, x, d, lk, root) /\ z = link[x][d] /\ 1 - d = t
    BY <1>1, <1>6, <1>9 DEF z
  <2>2. z \in Node /\ z # x /\ link[z][1 - d] # x /\ link[z][d] # x
    BY <2>1, <1>1, <1>2, Family
  <2>3. g # z
    BY <2>1, <2>2, <1>1
  <2>4. lk[g][t] = z /\ lk[g][1 - t] = link[g][1 - t]
    <3>1. link[g][1 - t] # x
      BY <1>1, <1>2, <1>6 DEF Tree
    <3>2. QED  BY <3>1, <2>1, <2>3, <1>1, <1>6 DEF Relinked
  <2>5. Recolored(color, x, z) = color
    BY <2>2, <1>1, <1>3, <1>4, <1>5 DEF Recolored, Colors
  <2>6. \E H : Heights(lk, color, Node, H)
    BY <2>1, <2>5, <1>1, <1>2, <1>4, <1>5, RotationKeepsHeights
  <2>7. RedsApart(lk, color, Node, {<<z, t>>})
    <3>1. x \in Node /\ d \in 0..1 /\ z # NULL /\ z = link[x][d] /\ color[x] = "RED"
      BY <2>1, <1>1, <1>3
    <3>2. /\ RedsApart(link, color, Node, {<<x, d>>}) /\ color[z] = "RED"
          /\ Relinked(link, root, Node, x, d, lk, root)
      BY <2>1, <1>4
    <3>3. RedsApart(lk, color, Node, {<<z, 1 - d>>})
      BY ONLY <3>1, <3>2, <1>2, <1>5, TurnKeepsApart
    <3>4. QED  BY <2>1, <3>3
  <2>8. QED
    BY <2>4, <2>6, <2>7, <1>1, <1>4, <1>7 DEF OuterReds, lk, g, t
<1>10. QED  BY <1>8, <1>9

LEMMA RotateKeepsBInv == ASSUME IInv, BInv, Rotate PROVE BInv'
<1> SUFFICES ASSUME ~pruned'  PROVE BInv'
  BY DEF BInv
<1> DEFINE g == grandparent
           t == turn
           lk == Outer
           y == lk[g][t]
           lk2 == link'
           r2 == root'
           c1 == Recolored(color, g, y)
           c2 == color'
<1>1. ~pruned /\ pc' = "idle" /\ c2 = [color EXCEPT ![g] = "RED", ![y] = "BLACK", ![r2] = "BLACK"]
  BY DEF Rotate, Idle, history
<1>2. /\ g \in Node /\ t \in 0..1 /\ y # NULL
      /\ \E T : Tree(lk, root, Node, T)
      /\ Relinked(lk, root, Node, g, t, lk2, r2)
  BY RotateTwice DEF RotatedTwice
<1>3. /\ color[y] = "RED"
      /\ \E H : Heights(lk, color, Node, H)
      /\ RedsApart(lk, color, Node, {<<y, t>>})
      /\ lk[g][1 - t] # NULL => color[lk[g][1 - t]] = "BLACK"
  BY <1>1, OuterIsRed DEF OuterReds
<1>4. Colors(color, Node)
  BY NodeColors
<1>5. c2 = [[color EXCEPT ![g] = "RED", ![y] = "BLACK"] EXCEPT ![r2] = "BLACK"]
  BY <1>1
<1> HIDE DEF g, t, lk, lk2, r2, c1, c2
<1>6. PICK T : Tree(lk, root, Node, T)
  BY <1>2
<1>7. y \in Node /\ y # g
  BY <1>2, <1>6, Family
<1> HIDE DEF y
<1>8. PICK U : Tree(lk2, r2, Node, U)
  BY <1>2, <1>6, RotationKeepsTree DEF y
<1>9. \E H : Heights(lk2, c1, Node, H)
  BY <1>2, <1>3, <1>4, <1>6, RotationKeepsHeights DEF y, c1
<1>10. color[g] = "BLACK" /\ RedsApart(lk2, c1, Node, {})
  BY <1>2, <1>3, <1>4, <1>6, RaiseKeepsApart DEF y, c1
<1>11. /\ Colors(c1, Node) /\ r2 \in Node /\ lk2 \in [Node -> [0..1 -> Node \cup {NULL}]]
       /\ c2 = Blackened(c1, r2)
  <2>1. c1 = [color EXCEPT ![g] = "RED", ![y] = "BLACK"]
    BY <1>3, <1>10 DEF c1, Recolored
  <2>2. Colors(c1, Node)
    BY <2>1, <1>4 DEF Colors
  <2>3. r2 \in Node \cup {NULL} /\ r2 # NULL
    <3>1. NULL \notin Node /\ (r2 = NULL => Node = {}) /\ r2 \in Node \cup {NULL}
      BY <1>8 DEF Tree
    <3>2. QED  BY <3>1, <1>7
  <2>4. QED  BY <2>1, <2>2, <2>3, <1>5, <1>8 DEF Blackened, Tree
<1>12. \E H : Heights(lk2, c2, Node, H)
  BY <1>8, <1>9, <1>11, BlackRootKeepsHeights
<1>13. RedsApart(lk2, c2, Node, {})
  <2>1. RedsApart(lk2, c2, Node, {} \ {<<r2, s>> : s \in 0..1})
    BY <1>10, <1>11, BlackRootKeepsApart
  <2>2. {} \ {<<r2, s>> : s \in 0..1} = {}
    OBVIOUS
  <2>3. QED  BY <2>1, <2>2
<1>14. c2[r2] = "BLACK"
  BY <1>11 DEF Blackened, Colors
<1>15. Node' = Node /\ Exempt' = {}
  <2>1. DOMAIN lk2 = Node
    BY <1>11
  <2>2. Node' = Node
    BY <2>1 DEF Node, lk2
  <2>3. QED  BY <2>2, <1>1 DEF Exempt
<1>16. EvenHeights'
  BY <1>12, <1>14, <1>15 DEF EvenHeights, c2, r2, lk2
<1>17. RedsApart(link, color, Node, Exempt)'
  BY <1>13, <1>15 DEF c2, lk2
<1>18. QED
  BY <1>1, <1>16, <1>17 DEF BInv, RedAtEnd, PathFits

LEMMA InsertedKeepsBInv == ASSUME IInv, BInv, Inserted PROVE BInv'
<1> SUFFICES ASSUME ~pruned'  PROVE BInv'
  BY DEF BInv
<1> DEFINE c2 == color'
           e == <<top, Last(dir)>>
<1>1. /\ ~pruned /\ pc = "insert" /\ ~TwoReds /\ pc' = "idle" /\ link' = link /\ root' = root
      /\ Node' = Node /\ c2 = Blackened(color, root)
  BY DEF Inserted, Idle, history, Node, Blackened
<1>2. root \in Node /\ Len(stack) \in Nat /\ (Len(stack) = 2 => top = root)
  <2>1. /\ Len(stack) \in Nat /\ Len(stack) >= 1 /\ stack[1] = root
        /\ Len(stack) = 2 => stack[2] = root
        /\ \A j \in 1..Len(stack) : stack[j] \in Node
    BY <1>1, Nodes DEF IInv, InsertPath
  <2>2. QED  BY <2>1 DEF top, Last
<1>3. PICK S : Tree(link, root, Node, S)
  BY DEF IInv, SearchTree
<1>4. /\ \E H : Heights(link, color, Node, H)
      /\ RedsApart(link, color, Node, Exempt)
      /\ Colors(color, Node) /\ link \in [Node -> [0..1 -> Node \cup {NULL}]]
  BY <1>1, Nodes, NodeColors DEF BInv, EvenHeights
<1> HIDE DEF c2
<1>5. \E H : Heights(link, c2, Node, H)
  BY <1>1, <1>2, <1>3, <1>4, BlackRootKeepsHeights
<1>6. RedsApart(link, c2, Node, {})
  <2> DEFINE R == {<<root, s>> : s \in 0..1}
  <2>1. \A X : RedsApart(link, color, Node, X) => RedsApart(link, c2, Node, X \ R)
    BY <1>1, <1>2, <1>4, BlackRootKeepsApart
  <2>2. \E X : RedsApart(link, color, Node, X) /\ \A n \in Node, s \in 0..1 : <<n, s>> \notin X \ R
    <3>1. CASE Len(stack) < 2
      BY <3>1, <1>4 DEF Exempt
    <3>2. CASE Len(stack) = 2
      <4>1. Exempt = {e} /\ e = <<root, Last(dir)>>
        BY <3>2, <1>1, <1>2 DEF Exempt
      <4>2. \A n \in Node, s \in 0..1 : <<n, s>> \notin {e} \ R
        <5> HIDE DEF e
        <5> QED  BY <4>1
      <4>3. QED  BY <4>1, <4>2, <1>4
    <3>3. CASE Len(stack) >= 3
      <4>1. color[top] # "RED" /\ Exempt = {<<top, Last(dir)>>}
        BY <3>3, <1>1 DEF TwoReds, parent, Exempt
      <4>2. RedsApart(link, color, Node, {})
        BY <4>1, <1>4 DEF RedsApart
      <4>3. QED  BY <4>2
    <3>4. Len(stack) < 2 \/ Len(stack) = 2 \/ Len(stack) >= 3
      <4>1. \A l \in Nat : l < 2 \/ l = 2 \/ l >= 3
        OBVIOUS
      <4>2. QED  BY <4>1, <1>2, Zenon
    <3>5. QED  BY <3>1, <3>2, <3>3, <3>4, Zenon
  <2> HIDE DEF R
  <2>3. QED  BY <2>1, <2>2 DEF RedsApart
<1>7. c2[root] = "BLACK"
  BY <1>1, <1>2, <1>4 DEF Blackened, Colors
<1>8. EvenHeights'
  BY <1>1, <1>5, <1>7 DEF EvenHeights, c2
<1>9. RedsApart(link, color, Node, Exempt)'
  BY <1>1, <1>6 DEF Exempt, c2
<1>10. QED
  BY <1>1, <1>8, <1>9 DEF BInv, RedAtEnd, PathFits

LEMMA StandingStillKeepsBInv ==
  ASSUME BInv, UNCHANGED <<tree, path, pc, history>>
  PROVE  BInv'
<1>1. /\ UNCHANGED <<root, color, link, stack, dir, pc, keys, pruned>>
  BY DEF tree, path, history
<1>2. Node' = Node /\ top' = top /\ Last(dir)' = Last(dir)
  BY <1>1 DEF Node, top
<1>3. Exempt' = Exempt
  BY <1>1, <1>2 DEF Exempt
<1>4. QED
  BY <1>1, <1>2, <1>3 DEF BInv, EvenHeights, RedAtEnd, PathFits

LEMMA DeletionKeepsBInv ==
  ASSUME BInv, NEW k \in Deleted, deletion(k)
  PROVE  BInv'
<1>1. pruned' \/ UNCHANGED <<tree, path, pc, history>>
  BY DEF deletion, Vacate
<1>2. QED  BY <1>1, StandingStillKeepsBInv DEF BInv

LEMMA NextKeepsBInv == IInv /\ BInv /\ [Next]_vars => BInv'
<1> SUFFICES ASSUME IInv, BInv, [Next]_vars  PROVE BInv'
  OBVIOUS
<1>1. CASE \E k \in Keys : insertion(k)
  BY <1>1, InsertionKeepsBInv
<1>2. CASE \E k \in Deleted : deletion(k)
  BY <1>2, DeletionKeepsBInv
<1>3. CASE Recolor
  BY <1>3, RecolorKeepsBInv
<1>4. CASE Rotate
  BY <1>4, RotateKeepsBInv
<1>5. CASE Inserted
  BY <1>5, InsertedKeepsBInv
<1>6. CASE Repaired \/ NoSibling \/ Crash \/ PushUp \/ Restructure
  <2>1. pc = "delete" /\ pruned' = pruned
    BY <1>6 DEF Repaired, NoSibling, Crash, PushUp, Restructure, Deficient, history
  <2>2. QED  BY <2>1 DEF BInv
<1>7. CASE UNCHANGED vars
  BY <1>7, StandingStillKeepsBInv DEF vars
<1>8. QED
  BY <1>1, <1>2, <1>3, <1>4, <1>5, <1>6, <1>7 DEF Next, Iterate

(* While no key is deleted, the tree is a red-black tree at every step but *)
(* for one red node under its red parent, at the end of the path.          *)
THEOREM BalanceKept == Spec => []BInv
<1>1. Init => BInv
  BY InitBInv
<1>2. QED  BY <1>1, IInvInvariant, NextKeepsBInv, PTL DEF Spec

-----------------------------------------------------------------------------
(* blacks is its recursion, and what it computes are the heights.          *)
BlacksStep(f) ==
  [n \in Node \cup {NULL} |->
     IF n = NULL THEN 0
     ELSE f[link[n][0]] + IF color[n] = "BLACK" THEN 1 ELSE 0]

LEMMA BlacksDef ==
  ASSUME NEW H, Heights(link, color, Node, H), NULL \notin Node,
         link \in [Node -> [0..1 -> Node \cup {NULL}]]
  PROVE  blacks = BlacksStep(blacks)
<1> DEFINE P(f) == f = BlacksStep(f)
<1>1. P(H)
  <2>1. \A n \in Node : H[n] = H[link[n][0]] + IF color[n] = "BLACK" THEN 1 ELSE 0
    BY DEF Heights, Weight
  <2>2. QED  BY <2>1 DEF BlacksStep, Heights
<1>2. P(CHOOSE g : P(g))
  <2> HIDE DEF P
  <2> QED  BY <1>1
<1>3. blacks = CHOOSE g : P(g)
  BY DEF blacks, BlacksStep
<1>4. QED
  <2>1. P(blacks)
    <3> HIDE DEF P
    <3> QED  BY <1>2, <1>3
  <2>2. QED  BY <2>1

LEMMA BlacksAreHeights ==
  ASSUME NEW S, Tree(link, root, Node, S), NEW H, Heights(link, color, Node, H)
  PROVE  \A n \in Node \cup {NULL} : blacks[n] = H[n]
<1> DEFINE P == {n \in Node \cup {NULL} : blacks[n] = H[n]}
<1>1. NULL \notin Node /\ link \in [Node -> [0..1 -> Node \cup {NULL}]]
  BY DEF Tree
<1>2. blacks = BlacksStep(blacks)
  BY <1>1, BlacksDef
<1>3. /\ blacks[NULL] = 0
      /\ \A n \in Node : blacks[n] = blacks[link[n][0]] + Weight(color[n])
  BY <1>1, <1>2 DEF BlacksStep, Weight
<1>4. NULL \in P
  BY <1>3 DEF Heights
<1>5. ASSUME NEW n \in Node, link[n][0] \in P, link[n][1] \in P  PROVE n \in P
  BY <1>3, <1>5 DEF Heights
<1>6. Node \cup {NULL} \subseteq P
  <2> HIDE DEF P
  <2> QED  BY <1>4, <1>5, TreeInduct
<1>7. QED  BY <1>6

(* Whatever keys the scheduler inserts in whatever order, every insertion  *)
(* leaves a red-black tree.                                                *)
THEOREM InsertionBalances == Spec => []RedBlack
<1>1. IInv /\ BInv => RedBlack
  <2> SUFFICES ASSUME IInv, BInv, pc = "idle", ~pruned, NEW n \in Node
               PROVE  /\ IsRed(n) => ~IsRed(link[n][0]) /\ ~IsRed(link[n][1])
                      /\ blacks[link[n][0]] = blacks[link[n][1]]
    BY DEF RedBlack, Balanced
  <2>1. PICK S : Tree(link, root, Node, S)
    BY DEF IInv, SearchTree
  <2>2. PICK H : Heights(link, color, Node, H)
    BY DEF BInv, EvenHeights
  <2>3. RedsApart(link, color, Node, {})
    BY DEF BInv, Exempt
  <2>4. \A s \in 0..1 : link[n][s] \in Node \cup {NULL}
    BY Nodes
  <2>5. IsRed(n) => ~IsRed(link[n][0]) /\ ~IsRed(link[n][1])
    BY <2>3 DEF RedsApart, IsRed
  <2>6. H[link[n][0]] = H[link[n][1]]
    <3>1. \A s \in 0..1 : H[link[n][s]] \in Nat /\ H[n] = H[link[n][s]] + Weight(color[n])
      BY <2>2, <2>4 DEF Heights
    <3>2. Weight(color[n]) \in Nat
      BY DEF Weight
    <3>3. QED  BY <3>1, <3>2
  <2>7. \A m \in Node \cup {NULL} : blacks[m] = H[m]
    BY <2>1, <2>2, BlacksAreHeights
  <2>8. QED  BY <2>4, <2>5, <2>6, <2>7
<1>2. QED  BY <1>1, IInvInvariant, BalanceKept, PTL

(* The path that insertion keeps has at most 2 log(n) + 1 places, so that  *)
(* the 98 there are suffice for any tree that fits in memory.              *)
THEOREM PathAlwaysFits == Spec => []PathFits
<1>1. BInv => PathFits
  BY DEF BInv, PathFits
<1>2. QED  BY <1>1, BalanceKept, PTL
=============================================================================
