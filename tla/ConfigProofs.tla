----------------------------- MODULE ConfigProofs -----------------------------
(* The tree of conf.c stays a tree, loses no node and implements a database *)
(* of named parameters, for any heap and any parameters; the YAML loader    *)
(* follows any file with its calls, keeps the tree whole, and puts what a   *)
(* plain file says where a lookup finds it.                                 *)
EXTENDS YamlLoader, TLAPS, SequenceTheorems, WellFoundedInduction

NodeType == [name : Names \cup {NULL}, val : Values \cup {NULL},
             allow_override : BOOLEAN, is_seq : BOOLEAN,
             parent : Nodes \cup {NULL}, kids : Seq(Nodes)]

TypesInv ==
    /\ DOMAIN heap \subseteq Nodes
    /\ heap \in [DOMAIN heap -> NodeType]

\* A root is in nobody's list, and there are two trees or fewer.
RootsInv ==
    /\ \A r \in {root, root_backup} : r # NULL => heap[r].parent = NULL
    /\ root # NULL => root # root_backup

TreeInv == TypesInv /\ RootsInv /\ NoDangling /\ ParentsAgree /\ SiblingsDiffer

Closed(S) == \A m \in S : ToSet(heap[m].kids) \subseteq S

\* Every node is in each set that has the roots and is closed: NothingLost.
Roots == {root, root_backup} \ {NULL}
Reached ==
    \A S \in SUBSET DOMAIN heap : Roots \subseteq S /\ Closed(S) => DOMAIN heap \subseteq S

ConfInv == TreeInv /\ Reached

-----------------------------------------------------------------------------
LEMMA Least ==
  ASSUME NEW T \in SUBSET Nat, T # {} PROVE \E x \in T : \A y \in T : x <= y
<1> DEFINE R == OpToRel(<, Nat)
<1>1. IsWellFoundedOn(R, Nat)  BY NatLessThanWellFounded
<1>2. R = {ss \in Nat \X Nat : ss[1] < ss[2]}  BY DEF OpToRel
<1> HIDE DEF R
<1>3. PICK x \in T : \A y \in T : ~ (<<y, x>> \in R)  BY <1>1, WFMin
<1>4. ASSUME NEW y \in T PROVE x <= y
  <2>1. x \in Nat /\ y \in Nat  OBVIOUS
  <2>2. y < x => <<y, x>> \in R  BY <1>2, <2>1
  <2> QED  BY <1>3, <2>1, <2>2
<1> QED  BY <1>4

\* A node's list of children, when the node is not freed.
LEMMA KidsFacts ==
  ASSUME TreeInv, NEW n \in DOMAIN heap
  PROVE  /\ heap[n] \in NodeType /\ n \in Nodes /\ n # NULL
         /\ heap[n].kids \in Seq(Nodes)
         /\ DOMAIN heap[n].kids = 1..Len(heap[n].kids) /\ Len(heap[n].kids) \in Nat
         /\ \A i \in DOMAIN heap[n].kids :
               /\ heap[n].kids[i] \in DOMAIN heap
               /\ heap[n].kids[i] \in ToSet(heap[n].kids)
               /\ heap[heap[n].kids[i]].parent = n
         /\ \A k \in ToSet(heap[n].kids) :
               /\ k \in DOMAIN heap /\ heap[k].parent = n
               /\ \E i \in DOMAIN heap[n].kids : k = heap[n].kids[i]
<1>1. /\ heap[n] \in NodeType /\ n \in Nodes /\ n # NULL
      /\ heap[n].kids \in Seq(Nodes)
  BY ConfTreeAssumption DEF TreeInv, TypesInv, NodeType
<1>2. DOMAIN heap[n].kids = 1..Len(heap[n].kids) /\ Len(heap[n].kids) \in Nat
  BY <1>1
<1>3. ToSet(heap[n].kids) \subseteq DOMAIN heap
  BY DEF TreeInv, NoDangling
<1>4. \A k \in ToSet(heap[n].kids) : heap[k].parent = n
  BY DEF TreeInv, ParentsAgree
<1>5. /\ \A i \in DOMAIN heap[n].kids : heap[n].kids[i] \in ToSet(heap[n].kids)
      /\ \A k \in ToSet(heap[n].kids) : \E i \in DOMAIN heap[n].kids : k = heap[n].kids[i]
  BY DEF ToSet
<1> QED  BY <1>1, <1>2, <1>3, <1>4, <1>5

\* ConfNodeLookupChild finds a child of that name if there is one.
LEMMA LookupFacts ==
  ASSUME TreeInv, NEW n \in DOMAIN heap, NEW name
  PROVE  LET c == ConfNodeLookupChild(n, name)
         IN  \/ /\ c = NULL
                /\ \A i \in DOMAIN heap[n].kids : heap[heap[n].kids[i]].name # name
             \/ /\ c # NULL /\ c \in DOMAIN heap /\ c \in ToSet(heap[n].kids)
                /\ heap[c].name = name
<1> DEFINE kids == heap[n].kids
           hits == {i \in DOMAIN kids : heap[kids[i]].name = name}
<1>1. CASE hits = {}  BY <1>1 DEF ConfNodeLookupChild
<1>2. CASE hits # {}
  <2>1. hits \in SUBSET Nat  BY KidsFacts
  <2>2. \E i \in hits : \A j \in hits : i <= j  BY <1>2, <2>1, Least
  <2> DEFINE i == CHOOSE i \in hits : \A j \in hits : i <= j
  <2>3. i \in hits  BY <2>2
  <2>4. ConfNodeLookupChild(n, name) = kids[i]  BY <1>2 DEF ConfNodeLookupChild
  <2> HIDE DEF i
  <2>5. kids[i] \in DOMAIN heap /\ kids[i] \in ToSet(kids)  BY <2>3, KidsFacts
  <2>6. kids[i] # NULL  BY <2>5, ConfTreeAssumption DEF TreeInv, TypesInv
  <2> QED  BY <2>3, <2>4, <2>5, <2>6
<1> QED  BY <1>1, <1>2

-----------------------------------------------------------------------------
(* Walks.  A lookup is a recursive function; a least counterexample takes   *)
(* the place of an induction along the path.                                *)

Step(node, name) == IF node = NULL THEN NULL ELSE ConfNodeLookupChild(node, name)

\* f is what the first n steps of a walk meet.
Walk(tree, path, n, f) ==
    f = [i \in 0..n |-> IF i = 0 THEN tree ELSE Step(f[i - 1], path[i])]

LEMMA WalkExists ==
  ASSUME NEW tree, NEW path, NEW n \in Nat PROVE \E f : Walk(tree, path, n, f)
<1> DEFINE T == {m \in Nat : ~ \E f : Walk(tree, path, m, f)}
<1>1. SUFFICES ASSUME T # {} PROVE FALSE  OBVIOUS
<1>2. PICK m \in T : \A j \in T : m <= j  BY <1>1, Least
<1>3. CASE m = 0
  <2> DEFINE g == [i \in 0..0 |-> tree]
  <2>1. Walk(tree, path, 0, g)  BY DEF Walk
  <2> QED  BY <1>3, <2>1
<1>4. CASE m # 0
  <2>1. m - 1 \in Nat /\ m - 1 \notin T  BY <1>2, <1>4
  <2>2. PICK f : Walk(tree, path, m - 1, f)  BY <2>1
  <2> DEFINE g == [i \in 0..m |-> IF i = m THEN Step(f[m - 1], path[m]) ELSE f[i]]
  <2>3. \A i \in 0..(m - 1) :
           f[i] = IF i = 0 THEN tree ELSE Step(f[i - 1], path[i])
    BY <2>1, <2>2 DEF Walk
  <2>4. \A i \in 0..m :
           g[i] = IF i = 0 THEN tree ELSE Step(g[i - 1], path[i])
    <3> TAKE i \in 0..m
    <3>1. CASE i = m
      <4>1. g[m - 1] = f[m - 1]  BY <2>1
      <4> QED  BY <1>4, <2>1, <3>1, <4>1
    <3>2. CASE i # m
      <4>1. g[i] = f[i] /\ i \in 0..(m - 1)  BY <2>1, <3>2
      <4>2. i # 0 => g[i - 1] = f[i - 1]  BY <2>1, <4>1
      <4> QED  BY <2>3, <4>1, <4>2
    <3> QED  BY <3>1, <3>2
  <2>5. Walk(tree, path, m, g)
    <3> DEFINE h == [i \in 0..m |-> IF i = 0 THEN tree ELSE Step(g[i - 1], path[i])]
    <3>1. \A i \in 0..m : g[i] = h[i]  BY <2>4
    <3>2. DOMAIN g = 0..m /\ DOMAIN h = 0..m  OBVIOUS
    <3>3. g = h  BY <3>1, <3>2
    <3> QED  BY <3>3 DEF Walk
  <2> QED  BY <2>5
<1> QED  BY <1>3, <1>4

LEMMA WalkSteps ==
  ASSUME NEW tree, NEW path, NEW n \in Nat, NEW f, Walk(tree, path, n, f)
  PROVE  f[0] = tree /\ \A i \in 1..n : f[i] = Step(f[i - 1], path[i])
BY DEF Walk

\* Walks along two paths with the same beginning meet the same nodes.
Agree(f, g, first, n) == \A i \in first..n : f[i] = g[i]

LEMMA WalksAgree ==
  ASSUME NEW tree, NEW path, NEW other, NEW n \in Nat, NEW m \in Nat, NEW f, NEW g,
         Walk(tree, path, n, f), Walk(tree, other, m, g), m <= n,
         Agree(path, other, 1, m)
  PROVE  Agree(f, g, 0, m)
<1> DEFINE T == {k \in 0..m : f[k] # g[k]}
<1>1. SUFFICES ASSUME T # {} PROVE FALSE  BY DEF Agree
<1>2. PICK k \in T : \A j \in T : k <= j
  <2>1. T \in SUBSET Nat  OBVIOUS
  <2> HIDE DEF T
  <2> QED  BY <1>1, <2>1, Least
<1>3. f[0] = tree /\ \A i \in 1..n : f[i] = Step(f[i - 1], path[i])
  BY WalkSteps
<1>4. g[0] = tree /\ \A i \in 1..m : g[i] = Step(g[i - 1], other[i])
  BY WalkSteps
<1>5. k # 0  BY <1>2, <1>3, <1>4
<1>6. k - 1 \in 0..m /\ k - 1 \notin T /\ k \in 1..m /\ k \in 1..n  BY <1>2, <1>5
<1>7. f[k - 1] = g[k - 1] /\ other[k] = path[k]  BY <1>6 DEF Agree
<1>8. f[k] = Step(f[k - 1], path[k]) /\ g[k] = Step(g[k - 1], other[k])
  BY <1>6, <1>3, <1>4
<1> QED  BY <1>2, <1>7, <1>8

\* A walk meets nodes that are not freed, and nodes of the tree.
LEMMA WalkRange ==
  ASSUME TreeInv, NEW tree \in DOMAIN heap, NEW path, NEW n \in Nat, NEW f,
         Walk(tree, path, n, f), NEW S \in SUBSET DOMAIN heap, Closed(S), tree \in S
  PROVE  \A k \in 0..n : f[k] \in S \cup {NULL}
<1> DEFINE T == {k \in 0..n : f[k] \notin S \cup {NULL}}
<1>1. SUFFICES ASSUME T # {} PROVE FALSE  OBVIOUS
<1>2. PICK k \in T : \A j \in T : k <= j
  <2>1. T \in SUBSET Nat  OBVIOUS
  <2> HIDE DEF T
  <2> QED  BY <1>1, <2>1, Least
<1>3. f[0] = tree /\ \A i \in 1..n : f[i] = Step(f[i - 1], path[i])
  BY ONLY Walk(tree, path, n, f), n \in Nat DEF Walk
<1>4. k # 0  BY <1>2, <1>3
<1>5. k - 1 \in 0..n /\ k - 1 \notin T /\ k \in 1..n  BY <1>2, <1>4
<1>6. f[k] = Step(f[k - 1], path[k]) /\ f[k - 1] \in S \cup {NULL}
  BY <1>3, <1>5
<1>7. CASE f[k - 1] = NULL  BY <1>2, <1>6, <1>7 DEF Step
<1>8. CASE f[k - 1] # NULL
  <2>1. f[k - 1] \in S /\ f[k] = ConfNodeLookupChild(f[k - 1], path[k])
    BY <1>6, <1>8 DEF Step
  <2>2. f[k] = NULL \/ f[k] \in ToSet(heap[f[k - 1]].kids)  BY <2>1, LookupFacts
  <2> QED  BY <1>2, <2>1, <2>2 DEF Closed
<1> QED  BY <1>7, <1>8

LEMMA FindIsWalk ==
  ASSUME NEW tree, NEW path, path \in Seq(Names), NEW f, Walk(tree, path, Len(path), f)
  PROVE  Find(tree, path) = f[Len(path)]
<1> DEFINE g == CHOOSE g : Walk(tree, path, Len(path), g)
<1>1. Len(path) \in Nat  OBVIOUS
<1>2. Walk(tree, path, Len(path), g)  BY <1>1, WalkExists
<1>3. Find(tree, path) = g[Len(path)]  BY DEF Find, Walk, Step
<1> HIDE DEF g
<1>4. Agree(path, path, 1, Len(path))  BY DEF Agree
<1>5. Agree(f, g, 0, Len(path))  BY <1>1, <1>2, <1>4, WalksAgree
<1> QED  BY <1>1, <1>3, <1>5 DEF Agree

-----------------------------------------------------------------------------
LEMMA SubtreeFacts ==
  ASSUME NoDangling, NEW node \in DOMAIN heap
  PROVE  /\ node \in Subtree(node) /\ Subtree(node) \subseteq DOMAIN heap
         /\ Closed(Subtree(node))
         /\ \A S \in SUBSET DOMAIN heap :
               node \in S /\ Closed(S) => Subtree(node) \subseteq S
<1>1. /\ node \in Subtree(node) /\ Subtree(node) \subseteq DOMAIN heap
      /\ \A S \in SUBSET DOMAIN heap :
               node \in S /\ Closed(S) => Subtree(node) \subseteq S
  BY DEF Subtree, Closed
<1>2. ASSUME NEW m \in Subtree(node), NEW k \in ToSet(heap[m].kids)
      PROVE  k \in Subtree(node)
  <2>1. k \in DOMAIN heap  BY <1>1, <1>2 DEF NoDangling
  <2>2. ASSUME NEW S \in SUBSET DOMAIN heap, node \in S, Closed(S) PROVE k \in S
    BY <1>1, <1>2, <2>2 DEF Closed
  <2> QED  BY <2>1, <2>2 DEF Subtree, Closed
<1> QED  BY <1>1, <1>2 DEF Closed

\* The prefixes of a path are found where the walk along it comes by.
LEMMA PrefixFacts ==
  ASSUME NEW path \in Paths, NEW f, Walk(root, path, Len(path), f)
  PROVE  /\ Len(path) \in Nat /\ Len(path) # 0 /\ path \in Seq(Names)
         /\ ConfGetNode(path) = f[Len(path)]
         /\ \A k \in 0..Len(path) : ConfGetNode(SubSeq(path, 1, k)) = f[k]
<1>1. path \in Seq(Names) /\ Len(path) \in Nat /\ Len(path) # 0
  BY ConfTreeAssumption, EmptySeq
<1>2. ASSUME NEW k \in 0..Len(path) PROVE ConfGetNode(SubSeq(path, 1, k)) = f[k]
  <2>1. PICK q : q = SubSeq(path, 1, k)  OBVIOUS
  <2>2. q \in Seq(Names) /\ Len(q) = k /\ \A i \in 1..k : q[i] = path[i]
    BY <1>1, <2>1
  <2>3. k \in Nat /\ k <= Len(path)  BY <1>1
  <2>4. PICK g : Walk(root, q, k, g)  BY <2>3, WalkExists
  <2>5. Find(root, q) = g[k]  BY <2>2, <2>4, FindIsWalk
  <2>6. Agree(path, q, 1, k)  BY <2>2 DEF Agree
  <2>7. Agree(f, g, 0, k)  BY <1>1, <2>3, <2>4, <2>6, WalksAgree
  <2> QED  BY <2>1, <2>3, <2>5, <2>7 DEF ConfGetNode, Agree
<1>3. ConfGetNode(path) = f[Len(path)]
  BY <1>1, FindIsWalk DEF ConfGetNode
<1> QED  BY <1>1, <1>2, <1>3

\* What ConfGetNode finds is in the tree, below its root.
LEMMA FoundFacts ==
  ASSUME TreeInv, root # NULL, NEW path \in Paths, ConfGetNode(path) # NULL
  PROVE  /\ ConfGetNode(path) \in Subtree(root) /\ ConfGetNode(path) \in DOMAIN heap
         /\ \E n \in DOMAIN heap : ConfGetNode(path) \in ToSet(heap[n].kids)
<1>1. Len(path) \in Nat  BY ConfTreeAssumption
<1>2. PICK f : Walk(root, path, Len(path), f)  BY <1>1, WalkExists
<1>3. /\ Len(path) # 0 /\ ConfGetNode(path) = f[Len(path)]
  BY <1>2, PrefixFacts
<1>4. root \in DOMAIN heap /\ NoDangling  BY DEF TreeInv, NoDangling
<1>5. \A k \in 0..Len(path) : f[k] \in Subtree(root) \cup {NULL}
  BY <1>1, <1>2, <1>4, SubtreeFacts, WalkRange
<1>6. f[Len(path)] = Step(f[Len(path) - 1], path[Len(path)])
  BY <1>1, <1>2, <1>3, WalkSteps
<1>7. f[Len(path) - 1] \in DOMAIN heap /\ f[Len(path)] \in Subtree(root)
  <2>1. Len(path) - 1 \in 0..Len(path) /\ Len(path) \in 0..Len(path)  BY <1>1, <1>3
  <2>2. f[Len(path) - 1] # NULL  BY <1>3, <1>6 DEF Step
  <2> QED  BY <1>3, <1>4, <1>5, <2>1, <2>2, SubtreeFacts
<1>8. f[Len(path)] \in ToSet(heap[f[Len(path) - 1]].kids)
  <2>1. f[Len(path) - 1] # NULL  BY <1>3, <1>6 DEF Step
  <2> QED  BY <1>3, <1>6, <1>7, <2>1, LookupFacts DEF Step
<1> QED  BY <1>3, <1>4, <1>7, <1>8, SubtreeFacts

\* Where the chain of new nodes is hung: at the last node that is found, which
\* has no child of the next name.
LEMMA KnownFacts ==
  ASSUME TreeInv, root # NULL, NEW path \in Paths, ConfGetNode(path) = NULL,
         NEW k, k = Known(path), NEW base, base = ConfGetNode(SubSeq(path, 1, k))
  PROVE  /\ k \in 0..(Len(path) - 1) /\ Len(path) \in Nat
         /\ base \in Subtree(root) /\ base \in DOMAIN heap
         /\ ConfNodeLookupChild(base, path[k + 1]) = NULL
<1>1. Len(path) \in Nat  BY ConfTreeAssumption
<1>2. PICK f : Walk(root, path, Len(path), f)  BY <1>1, WalkExists
<1>3. /\ Len(path) # 0 /\ f[Len(path)] = NULL
      /\ \A j \in 0..Len(path) : ConfGetNode(SubSeq(path, 1, j)) = f[j]
  BY <1>2, PrefixFacts
<1>4. f[0] = root /\ \A i \in 1..Len(path) : f[i] = Step(f[i - 1], path[i])
  BY <1>1, <1>2, WalkSteps
<1>5. \E j \in 0..(Len(path) - 1) : f[j] # NULL /\ f[j + 1] = NULL
  <2> DEFINE T == {j \in 1..Len(path) : f[j] = NULL}
  <2>1. T \in SUBSET Nat /\ T # {}  BY <1>1, <1>3
  <2>2. PICK j \in T : \A i \in T : j <= i
    <3> HIDE DEF T
    <3> QED  BY <2>1, Least
  <2>3. j - 1 \notin T /\ j - 1 \in 0..(Len(path) - 1)  BY <1>1, <2>2
  <2>4. f[j - 1] # NULL  BY <1>1, <1>4, <2>3
  <2>5. f[(j - 1) + 1] = NULL  BY <2>2
  <2> QED  BY <2>3, <2>4, <2>5
<1>6. k \in 0..(Len(path) - 1) /\ f[k] # NULL /\ f[k + 1] = NULL
  <2>1. \A j \in 0..(Len(path) - 1) : j \in 0..Len(path) /\ j + 1 \in 0..Len(path)
    BY <1>1
  <2>2. \E j \in 0..(Len(path) - 1) :
          /\ ConfGetNode(SubSeq(path, 1, j)) # NULL
          /\ ConfGetNode(SubSeq(path, 1, j + 1)) = NULL
    BY <1>3, <1>5, <2>1
  <2>3. /\ k \in 0..(Len(path) - 1)
        /\ ConfGetNode(SubSeq(path, 1, k)) # NULL
        /\ ConfGetNode(SubSeq(path, 1, k + 1)) = NULL
    BY <2>2 DEF Known
  <2> QED  BY <1>3, <2>1, <2>3
<1>7. base = f[k]  BY <1>1, <1>3, <1>6
<1>8. root \in DOMAIN heap /\ NoDangling  BY DEF TreeInv, NoDangling
<1>9. \A j \in 0..Len(path) : f[j] \in Subtree(root) \cup {NULL}
  BY <1>1, <1>2, <1>8, SubtreeFacts, WalkRange
<1>10. base \in Subtree(root) /\ base \in DOMAIN heap
  BY <1>1, <1>6, <1>7, <1>8, <1>9, SubtreeFacts
<1>11. f[k + 1] = ConfNodeLookupChild(base, path[k + 1])
  <2>1. k + 1 \in 1..Len(path) /\ (k + 1) - 1 = k  BY <1>1, <1>6
  <2> QED  BY <1>4, <1>6, <1>7, <2>1 DEF Step
<1> QED  BY <1>1, <1>6, <1>10, <1>11

-----------------------------------------------------------------------------
\* TAILQ_REMOVE takes the one node out of the list.
LEMMA RemoveFirstFacts ==
  ASSUME NEW S, NEW kids \in Seq(S), IsInjective(kids), NEW node
  PROVE  /\ RemoveFirst(kids, node) \in Seq(S) /\ IsInjective(RemoveFirst(kids, node))
         /\ ToSet(RemoveFirst(kids, node)) = ToSet(kids) \ {node}
<1> DEFINE r == RemoveFirst(kids, node)
<1>1. PICK L \in Nat : L = Len(kids) /\ DOMAIN kids = 1..L  OBVIOUS
<1>2. CASE ~ \E i \in 1..Len(kids) : kids[i] = node
  <2>1. r = kids  BY <1>2 DEF RemoveFirst
  <2>2. node \notin ToSet(kids)  BY <1>1, <1>2 DEF ToSet
  <2> QED  BY <2>1, <2>2
<1>3. CASE \E i \in 1..Len(kids) : kids[i] = node
  <2> DEFINE I == {i \in 1..Len(kids) : kids[i] = node}
  <2>1. Min(I) \in I
    <3>1. I \in SUBSET Nat /\ I # {}  BY <1>1, <1>3
    <3>2. \E x \in I : \A y \in I : x <= y
      <4> HIDE DEF I
      <4> QED  BY <3>1, Least
    <3> QED  BY <3>2 DEF Min
  <2>2. r = SubSeq(kids, 1, Min(I) - 1) \o SubSeq(kids, Min(I) + 1, Len(kids))
    BY <1>3, <2>1 DEF RemoveFirst, RemoveAt, SelectInSeq
  <2>3. PICK m \in 1..Len(kids) :
          /\ kids[m] = node
          /\ r = SubSeq(kids, 1, m - 1) \o SubSeq(kids, m + 1, Len(kids))
    BY <2>1, <2>2
  <2>4. m \in Nat /\ 1 <= m /\ L \in Nat /\ m <= L  BY <1>1, <2>3
  <2> HIDE DEF r
  <2>5. /\ r \in Seq(S) /\ Len(r) = L - 1
        /\ \A j \in 1..(L - 1) : r[j] = IF j < m THEN kids[j] ELSE kids[j + 1]
    <3>1. /\ SubSeq(kids, 1, m - 1) \in Seq(S) /\ Len(SubSeq(kids, 1, m - 1)) = m - 1
          /\ \A j \in 1..(m - 1) : SubSeq(kids, 1, m - 1)[j] = kids[j]
      BY <1>1, <2>3, <2>4, SubSeqProperties
    <3>2. /\ SubSeq(kids, m + 1, Len(kids)) \in Seq(S)
          /\ Len(SubSeq(kids, m + 1, Len(kids))) = L - m
          /\ \A j \in 1..(L - m) : SubSeq(kids, m + 1, Len(kids))[j] = kids[j + m]
      <4> DEFINE q == SubSeq(kids, m + 1, Len(kids))
      <4>1. q \in Seq(S)  BY <1>1, <2>3, <2>4, SubSeqProperties
      <4>2. Len(q) = L - m
        <5>1. Len(q) = IF m + 1 <= L THEN L - (m + 1) + 1 ELSE 0
          BY <1>1, <2>3, <2>4, SubSeqProperties
        <5> QED  BY <2>4, <5>1
      <4>3. \A j \in 1..(L - m) : q[j] = kids[(m + 1) + j - 1]
        BY <1>1, <2>3, <2>4, SubSeqProperties
      <4>4. \A j \in 1..(L - m) : (m + 1) + j - 1 = j + m  BY <1>1, <2>3, <2>4
      <4> QED  BY <4>1, <4>2, <4>3, <4>4
    <3>3. PICK left \in Seq(S), right \in Seq(S) :
            /\ r = left \o right /\ Len(left) = m - 1 /\ Len(right) = L - m
            /\ \A j \in 1..(m - 1) : left[j] = kids[j]
            /\ \A j \in 1..(L - m) : right[j] = kids[j + m]
      BY <2>3, <3>1, <3>2
    <3>4. /\ r \in Seq(S) /\ Len(r) = L - 1
          /\ \A j \in 1..(L - 1) :
                r[j] = IF j <= m - 1 THEN left[j] ELSE right[j - (m - 1)]
      <4>1. /\ left \o right \in Seq(S)
            /\ Len(left \o right) = Len(left) + Len(right)
            /\ \A j \in 1..(Len(left) + Len(right)) : (left \o right)[j] =
                  IF j <= Len(left) THEN left[j] ELSE right[j - Len(left)]
        BY ConcatProperties
      <4>2. Len(left) + Len(right) = L - 1  BY <1>1, <2>3, <2>4, <3>3
      <4> QED  BY <3>3, <4>1, <4>2
    <3>5. ASSUME NEW j \in 1..(L - 1)
          PROVE  r[j] = IF j < m THEN kids[j] ELSE kids[j + 1]
      <4>1. CASE j < m
        <5>1. j \in 1..(m - 1) /\ j <= m - 1  BY <1>1, <2>3, <2>4, <4>1
        <5> QED  BY <3>3, <3>4, <4>1, <5>1
      <4>2. CASE ~ (j < m)
        <5>1. j - (m - 1) \in 1..(L - m) /\ (j - (m - 1)) + m = j + 1
              /\ ~ (j <= m - 1)
          BY <1>1, <2>3, <2>4, <4>2
        <5> QED  BY <3>3, <3>4, <4>2, <5>1
      <4> QED  BY <4>1, <4>2
    <3> QED  BY <3>4, <3>5
  <2>6. IsInjective(r)
    <3> SUFFICES ASSUME NEW a \in 1..(L - 1), NEW b \in 1..(L - 1), r[a] = r[b]
                 PROVE  a = b
      BY <2>5 DEF IsInjective
    <3> DEFINE At(j) == IF j < m THEN j ELSE j + 1
    <3>1. /\ At(a) \in 1..L /\ At(b) \in 1..L
          /\ At(a) = At(b) => a = b
      BY <1>1, <2>3, <2>4, <2>5
    <3>2. r[a] = kids[At(a)] /\ r[b] = kids[At(b)]  BY <2>5
    <3> HIDE DEF At
    <3> QED  BY <1>1, <3>1, <3>2 DEF IsInjective
  <2>7. ASSUME NEW x \in ToSet(r) PROVE x \in ToSet(kids) \ {node}
    <3>1. PICK j \in 1..(L - 1) : x = r[j]  BY <2>5 DEF ToSet
    <3>2. PICK i \in 1..L : x = kids[i] /\ i # m
      <4>1. CASE j < m
        <5>1. j \in 1..L /\ j # m  BY <2>4, <4>1
        <5>2. r[j] = kids[j]  BY <2>5, <4>1
        <5> QED  BY <3>1, <5>1, <5>2
      <4>2. CASE ~ (j < m)
        <5>1. j + 1 \in 1..L /\ j + 1 # m  BY <1>1, <2>3, <2>4, <2>5, <4>2
        <5> QED  BY <2>5, <3>1, <4>2, <5>1
      <4> QED  BY <4>1, <4>2
    <3> QED  BY <1>1, <2>3, <2>4, <3>2 DEF IsInjective, ToSet
  <2>8. ASSUME NEW x \in ToSet(kids) \ {node} PROVE x \in ToSet(r)
    <3>1. PICK i \in 1..L : x = kids[i]  BY <1>1 DEF ToSet
    <3>2. i # m  BY <2>3, <3>1
    <3>3. \E j \in 1..(L - 1) : x = r[j]
      <4>1. CASE i < m
        <5>1. i \in 1..(L - 1)  BY <1>1, <2>3, <2>4, <2>5, <4>1
        <5> QED  BY <2>5, <3>1, <4>1, <5>1
      <4>2. CASE i > m
        <5>1. i - 1 \in 1..(L - 1) /\ ~ (i - 1 < m) /\ (i - 1) + 1 = i
          BY <1>1, <2>3, <2>4, <2>5, <4>2
        <5>2. r[i - 1] = kids[(i - 1) + 1]  BY <2>5, <5>1
        <5>3. r[i - 1] = x  BY <3>1, <5>1, <5>2
        <5> QED  BY <5>1, <5>3
      <4>3. i < m \/ i > m  BY <2>4, <3>2
      <4> QED  BY <4>1, <4>2, <4>3
    <3> QED  BY <2>5, <3>3 DEF ToSet
  <2>9. ToSet(r) = ToSet(kids) \ {node}  BY <2>7, <2>8
  <2> QED  BY <2>5, <2>6, <2>9 DEF r
<1> QED  BY <1>2, <1>3

-----------------------------------------------------------------------------
(* Removing *)

\* The children of n have different names.
Apart(n) ==
    \A x, y \in ToSet(heap[n].kids) : x # y => heap[x].name # heap[y].name

LEMMA SiblingsApart == ASSUME TreeInv, NEW n \in DOMAIN heap PROVE Apart(n)
<1> SUFFICES ASSUME NEW x \in ToSet(heap[n].kids), NEW y \in ToSet(heap[n].kids), x # y
             PROVE  heap[x].name # heap[y].name
  BY DEF Apart
<1>1. PICK i \in DOMAIN heap[n].kids : x = heap[n].kids[i]  BY DEF ToSet
<1>2. PICK j \in DOMAIN heap[n].kids : y = heap[n].kids[j]  BY DEF ToSet
<1> QED  BY <1>1, <1>2 DEF TreeInv, SiblingsDiffer

\* A node whose parent stays is freed only if it is the one that is removed.
LEMMA SubtreeEnds ==
  ASSUME TreeInv, NEW node \in DOMAIN heap, NEW k \in Subtree(node), k # node
  PROVE  k \in DOMAIN heap /\ heap[k].parent \in Subtree(node)
<1>1. NoDangling  BY DEF TreeInv
<1>2. k \in DOMAIN heap  BY <1>1, SubtreeFacts
<1> DEFINE S == Subtree(node) \ {k}
<1>3. SUFFICES ASSUME heap[k].parent \notin Subtree(node) PROVE FALSE
  BY <1>2
<1>4. Closed(S)
  <2>1. \A m \in S : m \in DOMAIN heap /\ ToSet(heap[m].kids) \subseteq Subtree(node)
    BY <1>1, SubtreeFacts DEF Closed
  <2>2. \A m \in S : k \notin ToSet(heap[m].kids)
    BY <1>3, <2>1, KidsFacts
  <2> QED  BY <2>1, <2>2 DEF Closed
<1>5. node \in S /\ S \in SUBSET DOMAIN heap  BY <1>1, SubtreeFacts
<1> HIDE DEF S
<1>6. Subtree(node) \subseteq S  BY <1>1, <1>4, <1>5, SubtreeFacts
<1> QED  BY <1>6 DEF S

LEMMA WithoutFacts ==
  ASSUME TreeInv, NEW node \in DOMAIN heap, heap' = Without(node)
  PROVE  /\ DOMAIN heap' = DOMAIN heap \ Subtree(node)
         /\ \A n \in DOMAIN heap' :
               /\ heap'[n] \in NodeType /\ heap'[n].kids \in Seq(Nodes)
               /\ IsInjective(heap'[n].kids)
               /\ ToSet(heap'[n].kids) = ToSet(heap[n].kids) \ {node}
               /\ ToSet(heap'[n].kids) \subseteq DOMAIN heap'
               /\ heap'[n].parent = heap[n].parent /\ heap'[n].name = heap[n].name
<1>1. DOMAIN heap' = DOMAIN heap \ Subtree(node)  BY DEF Without
<1>2. ASSUME NEW n \in DOMAIN heap'
      PROVE  /\ heap'[n] \in NodeType /\ heap'[n].kids \in Seq(Nodes)
             /\ IsInjective(heap'[n].kids)
             /\ ToSet(heap'[n].kids) = ToSet(heap[n].kids) \ {node}
             /\ heap'[n].parent = heap[n].parent /\ heap'[n].name = heap[n].name
  <2>1. n \in DOMAIN heap /\ heap[n] \in NodeType /\ heap[n].kids \in Seq(Nodes)
    BY <1>1, KidsFacts
  <2>2. IsInjective(heap[n].kids)  BY <2>1 DEF TreeInv, ParentsAgree
  <2>3. CASE n = heap[node].parent
    <3>1. heap'[n] = [heap[n] EXCEPT !.kids = RemoveFirst(heap[n].kids, node)]
      BY <1>1, <2>3 DEF Without
    <3>2. /\ RemoveFirst(heap[n].kids, node) \in Seq(Nodes)
          /\ IsInjective(RemoveFirst(heap[n].kids, node))
          /\ ToSet(RemoveFirst(heap[n].kids, node)) = ToSet(heap[n].kids) \ {node}
      BY <2>1, <2>2, RemoveFirstFacts
    <3>3. /\ heap'[n].kids = RemoveFirst(heap[n].kids, node)
          /\ heap'[n].parent = heap[n].parent /\ heap'[n].name = heap[n].name
      BY <2>1, <3>1 DEF NodeType
    <3>4. heap'[n] \in NodeType  BY <2>1, <3>1, <3>2 DEF NodeType
    <3> QED  BY <3>2, <3>3, <3>4
  <2>4. CASE n # heap[node].parent
    <3>1. heap'[n] = heap[n]  BY <1>1, <2>4 DEF Without
    <3>2. node \notin ToSet(heap[n].kids)  BY <2>1, <2>4, KidsFacts
    <3> QED  BY <2>1, <2>2, <3>1, <3>2
  <2> QED  BY <2>3, <2>4
<1>3. ASSUME NEW n \in DOMAIN heap', NEW k \in ToSet(heap'[n].kids) PROVE k \in DOMAIN heap'
  <2>1. k # node /\ k \in ToSet(heap[n].kids) /\ n \in DOMAIN heap
    BY <1>1, <1>2
  <2>2. k \in DOMAIN heap /\ heap[k].parent = n  BY <2>1, KidsFacts
  <2> QED  BY <1>1, <2>1, <2>2, SubtreeEnds
<1> QED  BY <1>1, <1>2, <1>3

\* What is left is a tree, if the roots are left.
LEMMA WithoutKeeps ==
  ASSUME TreeInv, NEW node \in DOMAIN heap, heap' = Without(node),
         {root', root_backup'} \subseteq {root, root_backup, NULL},
         {root', root_backup'} \subseteq DOMAIN heap' \cup {NULL},
         root' # NULL => root' # root_backup'
  PROVE  TreeInv'
<1>1. /\ DOMAIN heap' = DOMAIN heap \ Subtree(node)
      /\ \A n \in DOMAIN heap' :
            /\ heap'[n] \in NodeType /\ heap'[n].kids \in Seq(Nodes)
            /\ IsInjective(heap'[n].kids)
            /\ ToSet(heap'[n].kids) = ToSet(heap[n].kids) \ {node}
            /\ ToSet(heap'[n].kids) \subseteq DOMAIN heap'
            /\ heap'[n].parent = heap[n].parent /\ heap'[n].name = heap[n].name
  BY WithoutFacts
<1>2. TypesInv'
  <2>1. heap' = [n \in DOMAIN heap' |-> heap'[n]]  BY DEF Without
  <2>2. heap' \in [DOMAIN heap' -> NodeType]  BY <1>1, <2>1
  <2>3. DOMAIN heap' \subseteq Nodes  BY <1>1 DEF TreeInv, TypesInv
  <2> QED  BY <2>2, <2>3 DEF TypesInv
<1>3. RootsInv'
  <2>1. \A r \in {root', root_backup'} : r # NULL => heap'[r].parent = NULL
    BY <1>1 DEF TreeInv, RootsInv
  <2> QED  BY <2>1 DEF RootsInv
<1>4. NoDangling'  BY <1>1 DEF NoDangling
<1>5. ParentsAgree'
  <2>1. ASSUME NEW n \in DOMAIN heap', NEW k \in ToSet(heap'[n].kids)
        PROVE  heap'[k].parent = n
    <3>1. k \in DOMAIN heap' /\ k \in ToSet(heap[n].kids) /\ n \in DOMAIN heap  BY <1>1
    <3> QED  BY <1>1, <3>1, KidsFacts
  <2> QED  BY <1>1, <2>1 DEF ParentsAgree
<1>6. SiblingsDiffer'
  <2> SUFFICES ASSUME NEW n \in DOMAIN heap',
                      NEW i \in DOMAIN heap'[n].kids, NEW j \in DOMAIN heap'[n].kids, i # j
               PROVE  heap'[heap'[n].kids[i]].name # heap'[heap'[n].kids[j]].name
    BY DEF SiblingsDiffer
  <2> DEFINE x == heap'[n].kids[i]
             y == heap'[n].kids[j]
  <2>1. x \in ToSet(heap'[n].kids) /\ y \in ToSet(heap'[n].kids)  BY DEF ToSet
  <2>2. x # y  BY <1>1 DEF IsInjective
  <2>3. x \in DOMAIN heap' /\ y \in DOMAIN heap'  BY <1>1, <2>1
  <2>4. x \in ToSet(heap[n].kids) /\ y \in ToSet(heap[n].kids) /\ n \in DOMAIN heap
    BY <1>1, <2>1
  <2>5. heap[x].name # heap[y].name  BY <2>2, <2>4, SiblingsApart DEF Apart
  <2> QED  BY <1>1, <2>3, <2>5
<1> QED  BY <1>2, <1>3, <1>4, <1>5, <1>6 DEF TreeInv

\* Nothing is lost if no root is but the one that is freed.
LEMMA WithoutReached ==
  ASSUME ConfInv, NEW node \in DOMAIN heap, heap' = Without(node),
         Roots \subseteq Roots' \cup {node}
  PROVE  Reached'
<1>1. /\ DOMAIN heap' = DOMAIN heap \ Subtree(node)
      /\ \A n \in DOMAIN heap' :
            ToSet(heap'[n].kids) = ToSet(heap[n].kids) \ {node}
  BY WithoutFacts DEF ConfInv
<1>2. /\ node \in Subtree(node) /\ Subtree(node) \subseteq DOMAIN heap
      /\ Closed(Subtree(node))
  BY SubtreeFacts DEF ConfInv, TreeInv
<1> SUFFICES ASSUME NEW S \in SUBSET DOMAIN heap', Roots' \subseteq S, Closed(S)'
             PROVE  DOMAIN heap' \subseteq S
  BY DEF Reached
<1> DEFINE T == S \cup Subtree(node)
<1>3. T \in SUBSET DOMAIN heap /\ Roots \subseteq T  BY <1>1, <1>2
<1>4. Closed(T)
  <2>1. \A m \in S : ToSet(heap[m].kids) \subseteq S \cup {node}  BY <1>1 DEF Closed
  <2> QED  BY <1>2, <2>1 DEF Closed
<1>5. DOMAIN heap \subseteq T
  <2> HIDE DEF T
  <2> QED  BY <1>3, <1>4 DEF ConfInv, Reached
<1> QED  BY <1>1, <1>5

LEMMA RemoveKeeps == ASSUME ConfInv, NEW path \in Paths, ConfRemove(path) PROVE ConfInv'
<1>1. PICK node : node = ConfGetNode(path)  OBVIOUS
<1>2. root # NULL /\ root' = root /\ root_backup' = root_backup
  BY DEF ConfRemove
<1>3. TreeInv /\ Reached /\ NoDangling /\ {root, root_backup} \subseteq DOMAIN heap \cup {NULL}
  BY DEF ConfInv, TreeInv, NoDangling
<1>4. CASE node = NULL
  <2>1. heap' = heap  BY <1>1, <1>4 DEF ConfRemove
  <2> QED  BY <1>2, <2>1 DEF ConfInv, TreeInv, TypesInv, RootsInv, NoDangling,
    ParentsAgree, SiblingsDiffer, Reached, Roots, Closed
<1>5. CASE node # NULL
  <2>1. heap' = Without(node)  BY <1>1, <1>5 DEF ConfRemove
  <2>2. node \in DOMAIN heap /\ \E n \in DOMAIN heap : node \in ToSet(heap[n].kids)
    BY <1>1, <1>2, <1>3, <1>5, FoundFacts
  <2>3. heap[node].parent # NULL  BY <1>3, <2>2, KidsFacts
  <2>4. ASSUME NEW r \in {root, root_backup}, r # NULL PROVE r \in DOMAIN heap'
    <3>1. r \in DOMAIN heap /\ heap[r].parent = NULL
      BY <1>3, <2>4 DEF TreeInv, RootsInv
    <3>2. NULL \notin Subtree(node)
      BY <1>3, <2>2, SubtreeFacts, ConfTreeAssumption DEF TreeInv, TypesInv
    <3>3. r # node  BY <2>3, <3>1
    <3>4. r \notin Subtree(node)  BY <1>3, <2>2, <3>1, <3>2, <3>3, SubtreeEnds
    <3>5. DOMAIN heap' = DOMAIN heap \ Subtree(node)  BY <2>1 DEF Without
    <3> QED  BY <3>1, <3>4, <3>5
  <2>5. TreeInv'
    BY <1>2, <1>3, <2>1, <2>2, <2>4, WithoutKeeps DEF TreeInv, RootsInv
  <2>6. Reached'  BY <1>2, <2>1, <2>2, WithoutReached DEF Roots
  <2> QED  BY <2>5, <2>6 DEF ConfInv
<1> QED  BY <1>4, <1>5

LEMMA DeInitKeeps == ASSUME ConfInv, ConfDeInit PROVE ConfInv'
<1>1. PICK node : node = root  OBVIOUS
<1>2. node # NULL /\ root' = NULL /\ root_backup' = root_backup
  BY <1>1 DEF ConfDeInit
<1>3. TreeInv /\ NoDangling /\ {node, root_backup} \subseteq DOMAIN heap \cup {NULL}
  BY <1>1 DEF ConfInv, TreeInv, NoDangling
<1>4. node \in DOMAIN heap /\ heap[node].parent = NULL
  BY <1>1, <1>2, <1>3 DEF TreeInv, RootsInv
<1>5. NULL \notin DOMAIN heap  BY <1>3, ConfTreeAssumption DEF TreeInv, TypesInv
<1>6. heap' = Without(node)
  <2>1. heap' = [n \in DOMAIN heap \ Subtree(node) |-> heap[n]]  BY <1>1 DEF ConfDeInit
  <2>2. \A n \in DOMAIN heap \ Subtree(node) : n # heap[node].parent  BY <1>4, <1>5
  <2> QED  BY <2>1, <2>2 DEF Without
<1>7. root_backup # NULL => root_backup \in DOMAIN heap'
  <2> SUFFICES ASSUME root_backup # NULL PROVE root_backup \in DOMAIN heap'  OBVIOUS
  <2>1. /\ root_backup \in DOMAIN heap /\ heap[root_backup].parent = NULL
        /\ root_backup # node
    BY <1>1, <1>2, <1>3 DEF TreeInv, RootsInv
  <2>2. NULL \notin Subtree(node)  BY <1>3, <1>4, <1>5, SubtreeFacts
  <2>3. root_backup \notin Subtree(node)  BY <1>3, <1>4, <2>1, <2>2, SubtreeEnds
  <2>4. DOMAIN heap' = DOMAIN heap \ Subtree(node)  BY <1>6 DEF Without
  <2> QED  BY <2>1, <2>3, <2>4
<1>8. TreeInv'  BY <1>2, <1>3, <1>4, <1>6, <1>7, WithoutKeeps
<1>9. Reached'  BY <1>1, <1>2, <1>4, <1>6, WithoutReached DEF Roots
<1> QED  BY <1>8, <1>9 DEF ConfInv

-----------------------------------------------------------------------------
(* The other calls *)

LEMMA SameHeapKeeps ==
  ASSUME ConfInv, heap' = heap,
         \/ UNCHANGED <<root, root_backup>>
         \/ root_backup = NULL /\ root' = NULL /\ root_backup' = root
         \/ root = NULL /\ root' = root_backup /\ root_backup' = NULL
  PROVE  ConfInv'
<1>1. TypesInv' /\ ParentsAgree' /\ SiblingsDiffer'
  BY DEF ConfInv, TreeInv, TypesInv, ParentsAgree, SiblingsDiffer
<1>2. NoDangling' /\ RootsInv'  BY DEF ConfInv, TreeInv, NoDangling, RootsInv
<1>3. Roots' = Roots  BY DEF Roots
<1>4. Reached'  BY <1>3 DEF ConfInv, Reached, Closed
<1> QED  BY <1>1, <1>2, <1>4 DEF ConfInv, TreeInv

LEMMA InitKeeps == ASSUME ConfInv, ConfInit PROVE ConfInv'
<1>1. PICK new \in Nodes \ DOMAIN heap :
        /\ root' = new
        /\ heap' = [m \in DOMAIN heap \cup {new} |->
                      IF m = new THEN NewNode(NULL, NULL) ELSE heap[m]]
  BY DEF ConfInit
<1>2. root = NULL /\ root_backup' = root_backup  BY DEF ConfInit
<1>3. /\ DOMAIN heap' = DOMAIN heap \cup {new} /\ new # NULL
      /\ \A m \in DOMAIN heap : heap'[m] = heap[m] /\ m # new
      /\ heap'[new] = NewNode(NULL, NULL)
  BY <1>1, ConfTreeAssumption
<1>4. /\ NewNode(NULL, NULL) \in NodeType /\ NewNode(NULL, NULL).kids = <<>>
      /\ NewNode(NULL, NULL).parent = NULL
  BY DEF NewNode, NodeType
<1>5. DOMAIN heap'[new].kids = {} /\ ToSet(heap'[new].kids) = {}
  BY <1>3, <1>4 DEF ToSet
<1>6. \A m \in DOMAIN heap : ToSet(heap[m].kids) \subseteq DOMAIN heap
  BY DEF ConfInv, TreeInv, NoDangling
<1>7. TypesInv'
  BY <1>1, <1>3, <1>4 DEF ConfInv, TreeInv, TypesInv
<1>8. RootsInv' /\ NoDangling'
  BY <1>1, <1>2, <1>3, <1>4, <1>5, <1>6 DEF ConfInv, TreeInv, RootsInv, NoDangling
<1>9. ParentsAgree'
  <2>1. \A k \in DOMAIN heap : heap'[k].parent = heap[k].parent  BY <1>3
  <2>2. IsInjective(heap'[new].kids)  BY <1>5 DEF IsInjective
  <2> QED  BY <1>3, <1>5, <1>6, <2>1, <2>2 DEF ConfInv, TreeInv, ParentsAgree
<1>10. SiblingsDiffer'
  <2> SUFFICES ASSUME NEW n \in DOMAIN heap',
                      NEW i \in DOMAIN heap'[n].kids, NEW j \in DOMAIN heap'[n].kids, i # j
               PROVE  heap'[heap'[n].kids[i]].name # heap'[heap'[n].kids[j]].name
    BY DEF SiblingsDiffer
  <2>1. n \in DOMAIN heap /\ heap'[n] = heap[n]  BY <1>3, <1>5
  <2>2. heap[n].kids[i] \in DOMAIN heap /\ heap[n].kids[j] \in DOMAIN heap
    BY <2>1, KidsFacts DEF ConfInv
  <2> QED  BY <1>3, <2>1, <2>2 DEF ConfInv, TreeInv, SiblingsDiffer
<1>11. Reached'
  <2> SUFFICES ASSUME NEW S \in SUBSET DOMAIN heap', Roots' \subseteq S, Closed(S)'
               PROVE  DOMAIN heap' \subseteq S
    BY DEF Reached
  <2>1. new \in S /\ Roots \subseteq S \ {new}
    BY <1>1, <1>2, <1>3 DEF Roots, ConfInv, TreeInv, NoDangling
  <2>2. Closed(S \ {new})  BY <1>3, <1>6 DEF Closed
  <2>3. S \ {new} \in SUBSET DOMAIN heap  BY <1>3
  <2>4. DOMAIN heap \subseteq S \ {new}  BY <2>1, <2>2, <2>3 DEF ConfInv, Reached
  <2> QED  BY <1>3, <2>1, <2>4
<1> QED  BY <1>7, <1>8, <1>9, <1>10, <1>11 DEF ConfInv, TreeInv

LEMMA SetExistingKeeps ==
  ASSUME ConfInv, NEW path \in Paths, NEW v \in Values, NEW allow \in BOOLEAN,
         SetExisting(path, v, allow)
  PROVE  ConfInv'
<1>1. PICK node : node = ConfGetNode(path)  OBVIOUS
<1>2. /\ root # NULL /\ node # NULL /\ UNCHANGED <<root, root_backup>>
      /\ \/ heap' = heap
         \/ heap' = [heap EXCEPT ![node].val = v, ![node].allow_override = allow]
  BY <1>1 DEF SetExisting
<1>3. node \in DOMAIN heap /\ TreeInv
  BY <1>1, <1>2, FoundFacts DEF ConfInv
<1>4. CASE heap' = heap  BY <1>2, <1>4, SameHeapKeeps
<1>5. CASE heap' = [heap EXCEPT ![node].val = v, ![node].allow_override = allow]
  <2>1. DOMAIN heap' = DOMAIN heap /\ heap[node] \in NodeType
    BY <1>3, <1>5, KidsFacts
  <2>2. heap'[node] = [heap[node] EXCEPT !.val = v, !.allow_override = allow]
    BY <1>3, <1>5
  <2>3. heap'[node] \in NodeType  BY <2>1, <2>2 DEF NodeType
  <2>4. \A n \in DOMAIN heap :
          /\ heap'[n].kids = heap[n].kids /\ heap'[n].parent = heap[n].parent
          /\ heap'[n].name = heap[n].name
    BY <1>3, <1>5, <2>1, <2>2 DEF NodeType
  <2>5. TypesInv'
    <3>1. \A n \in DOMAIN heap : heap'[n] \in NodeType
      BY <1>3, <1>5, <2>3 DEF TreeInv, TypesInv
    <3>2. heap' = [n \in DOMAIN heap |-> heap'[n]]  BY <1>5
    <3> QED  BY <1>3, <2>1, <3>1, <3>2 DEF TreeInv, TypesInv
  <2>6. RootsInv' /\ NoDangling'
    BY <1>2, <1>3, <2>1, <2>4 DEF TreeInv, RootsInv, NoDangling
  <2>7. ParentsAgree'
    BY <1>3, <2>1, <2>4 DEF TreeInv, ParentsAgree, NoDangling
  <2>8. SiblingsDiffer'
    <3> SUFFICES ASSUME NEW n \in DOMAIN heap,
                        NEW i \in DOMAIN heap[n].kids, NEW j \in DOMAIN heap[n].kids, i # j
                 PROVE  heap'[heap[n].kids[i]].name # heap'[heap[n].kids[j]].name
      BY <2>1, <2>4 DEF SiblingsDiffer
    <3>1. heap[n].kids[i] \in DOMAIN heap /\ heap[n].kids[j] \in DOMAIN heap
      BY <1>3, KidsFacts
    <3> QED  BY <1>3, <2>4, <3>1 DEF TreeInv, SiblingsDiffer
  <2>9. Reached'
    <3>1. Roots' = Roots  BY <1>2 DEF Roots
    <3>2. \A S \in SUBSET DOMAIN heap : Closed(S)' <=> Closed(S)  BY <2>4 DEF Closed
    <3> QED  BY <2>1, <3>1, <3>2 DEF ConfInv, Reached
  <2> QED  BY <2>5, <2>6, <2>7, <2>8, <2>9 DEF ConfInv, TreeInv
<1> QED  BY <1>2, <1>4, <1>5

\* What the chain of new nodes changes.
ChainMade(path, k, base, N, new, v, allow) ==
    /\ DOMAIN heap' = DOMAIN heap \cup ToSet(new) /\ 1 \in 1..N
    /\ heap' \in [DOMAIN heap' -> NodeType]
    /\ \A i \in 1..N :
          /\ new[i] \in ToSet(new) /\ new[i] \in Nodes \ DOMAIN heap
          /\ heap'[new[i]].parent = (IF i = 1 THEN base ELSE new[i - 1])
          /\ heap'[new[i]].kids = (IF i = N THEN <<>> ELSE <<new[i + 1]>>)
          /\ heap'[new[i]].name = path[k + i]
          /\ heap'[new[i]].val = (IF i = N THEN v ELSE NULL)
          /\ heap'[new[i]].allow_override = (i < N \/ allow)
    /\ \A x \in ToSet(new) : \E i \in 1..N : x = new[i]
    /\ heap'[base].kids = Append(heap[base].kids, new[1])
    /\ \A n \in DOMAIN heap :
          /\ heap'[n].parent = heap[n].parent /\ heap'[n].name = heap[n].name
          /\ heap'[n].val = heap[n].val
          /\ heap'[n].allow_override = heap[n].allow_override
          /\ n # base => heap'[n].kids = heap[n].kids

\* The heap with a chain of new nodes below base.
LEMMA ChainFacts ==
  ASSUME TreeInv, NEW path \in Paths, NEW k \in 0..(Len(path) - 1), Len(path) \in Nat,
         NEW N \in Nat, N = Len(path) - k, NEW base \in DOMAIN heap,
         NEW new \in [1..N -> Nodes \ DOMAIN heap], IsInjective(new),
         NEW v \in Values, NEW allow \in BOOLEAN,
         heap' = Chained(path, k, base, new, v, allow)
  PROVE  ChainMade(path, k, base, N, new, v, allow)
<1>1. /\ DOMAIN new = 1..N /\ 1 \in 1..N /\ Len(new) = N
      /\ \A i \in 1..N : new[i] \in Nodes \ DOMAIN heap /\ new[i] \in ToSet(new)
      /\ \A x \in ToSet(new) : \E i \in 1..N : x = new[i]
  BY DEF ToSet
<1>2. DOMAIN heap' = DOMAIN heap \cup ToSet(new)  BY DEF Chained
<1>3. ASSUME NEW i \in 1..N
      PROVE  /\ heap'[new[i]].parent = (IF i = 1 THEN base ELSE new[i - 1])
             /\ heap'[new[i]].kids = (IF i = N THEN <<>> ELSE <<new[i + 1]>>)
             /\ heap'[new[i]].name = path[k + i]
             /\ heap'[new[i]].val = (IF i = N THEN v ELSE NULL)
             /\ heap'[new[i]].allow_override = (i < N \/ allow)
             /\ heap'[new[i]] \in NodeType
  <2>1. (CHOOSE j \in DOMAIN new : new[j] = new[i]) = i  BY <1>1 DEF IsInjective
  <2>2. heap'[new[i]] = Link(path, k, base, new, v, allow, i)
    BY <1>1, <2>1 DEF Chained
  <2>3. heap'[new[i]] =
          [name |-> path[k + i], val |-> IF i = N THEN v ELSE NULL,
           allow_override |-> (i < N \/ allow), is_seq |-> FALSE,
           parent |-> IF i = 1 THEN base ELSE new[i - 1],
           kids |-> IF i = N THEN <<>> ELSE <<new[i + 1]>>]
    <3>1. heap'[new[i]] =
            [NewNode(path[k + i], IF i = 1 THEN base ELSE new[i - 1])
               EXCEPT !.val = IF i = N THEN v ELSE NULL,
                      !.allow_override = i < N \/ allow,
                      !.kids = IF i = N THEN <<>> ELSE <<new[i + 1]>>]
      BY <1>1, <2>2 DEF Link
    <3> QED  BY <3>1 DEF NewNode
  <2>4. path[k + i] \in Names
    <3>1. path \in Seq(Names) /\ k + i \in 1..Len(path)  BY ConfTreeAssumption
    <3> QED  BY <3>1
  <2>5. i # 1 => i - 1 \in 1..N  OBVIOUS
  <2>6. (IF i = 1 THEN base ELSE new[i - 1]) \in Nodes \cup {NULL}
    BY <1>1, <2>5 DEF TreeInv, TypesInv
  <2>7. i # N => i + 1 \in 1..N  OBVIOUS
  <2>8. (IF i = N THEN <<>> ELSE <<new[i + 1]>>) \in Seq(Nodes)
    <3>1. CASE i = N  BY <3>1
    <3>2. CASE i # N
      <4>1. new[i + 1] \in Nodes  BY <1>1, <2>7, <3>2
      <4> QED  BY <3>2, <4>1
    <3> QED  BY <3>1, <3>2
  <2>9. (IF i = N THEN v ELSE NULL) \in Values \cup {NULL} /\ (i < N \/ allow) \in BOOLEAN
    OBVIOUS
  <2>10. heap'[new[i]] \in NodeType
    BY <2>3, <2>4, <2>6, <2>8, <2>9 DEF NodeType
  <2> QED  BY <2>3, <2>10
<1>4. ASSUME NEW n \in DOMAIN heap
      PROVE  /\ heap'[n].parent = heap[n].parent /\ heap'[n].name = heap[n].name
             /\ heap'[n].val = heap[n].val
             /\ heap'[n].allow_override = heap[n].allow_override
             /\ n # base => heap'[n].kids = heap[n].kids
             /\ n = base => heap'[n].kids = Append(heap[n].kids, new[1])
             /\ heap'[n] \in NodeType
  <2>1. heap[n] \in NodeType /\ heap[n].kids \in Seq(Nodes)  BY KidsFacts
  <2>2. n \notin ToSet(new)  BY <1>1
  <2>3. CASE n # base
    <3>1. heap'[n] = heap[n]  BY <1>2, <2>2, <2>3 DEF Chained
    <3> QED  BY <2>1, <2>3, <3>1
  <2>4. CASE n = base
    <3>1. heap'[n] = [heap[n] EXCEPT !.kids = Append(heap[n].kids, new[1])]
      BY <1>2, <2>2, <2>4 DEF Chained
    <3>2. new[1] \in Nodes  BY <1>1
    <3>3. Append(heap[n].kids, new[1]) \in Seq(Nodes)
      BY <2>1, <3>2, AppendProperties
    <3> QED  BY <2>1, <2>4, <3>1, <3>3 DEF NodeType
  <2> QED  BY <2>3, <2>4
<1>5. heap' \in [DOMAIN heap' -> NodeType]
  <2>1. \A n \in DOMAIN heap' : heap'[n] \in NodeType
    <3>1. \A n \in DOMAIN heap : heap'[n] \in NodeType  BY <1>4
    <3>2. \A i \in 1..N : heap'[new[i]] \in NodeType  BY <1>3
    <3>3. \A n \in ToSet(new) : heap'[n] \in NodeType  BY <1>1, <3>2
    <3> QED  BY <1>2, <3>1, <3>3
  <2>2. heap' = [n \in DOMAIN heap' |-> heap'[n]]  BY DEF Chained
  <2> QED  BY <2>1, <2>2
<1> QED  BY <1>1, <1>2, <1>3, <1>4, <1>5 DEF ChainMade

LEMMA AppendFacts ==
  ASSUME NEW S, NEW kids \in Seq(S), NEW e \in S, IsInjective(kids), e \notin ToSet(kids)
  PROVE  /\ ToSet(Append(kids, e)) = ToSet(kids) \cup {e}
         /\ IsInjective(Append(kids, e))
<1> DEFINE a == Append(kids, e)
<1>1. PICK n \in Nat : n = Len(kids) /\ DOMAIN kids = 1..n  OBVIOUS
<1>2. /\ DOMAIN a = 1..(n + 1) /\ a[n + 1] = e
      /\ \A i \in 1..n : a[i] = kids[i]
  BY <1>1, AppendProperties
<1> HIDE DEF a
<1>3. \A i \in 1..(n + 1) : i = n + 1 \/ i \in 1..n  OBVIOUS
<1>4. \A i \in 1..n : kids[i] \in ToSet(kids) /\ i \in 1..(n + 1)  BY <1>1 DEF ToSet
<1>5. \A x \in ToSet(kids) : \E i \in 1..n : x = kids[i]  BY <1>1 DEF ToSet
<1>6. ToSet(a) = ToSet(kids) \cup {e}
  <2>1. \A x \in ToSet(a) : \E i \in 1..(n + 1) : x = a[i]  BY <1>2 DEF ToSet
  <2>2. \A i \in 1..(n + 1) : a[i] \in ToSet(a)  BY <1>2 DEF ToSet
  <2>3. n + 1 \in 1..(n + 1)  OBVIOUS
  <2> QED  BY <1>2, <1>3, <1>4, <1>5, <2>1, <2>2, <2>3
<1>7. IsInjective(a)
  <2> SUFFICES ASSUME NEW i \in 1..(n + 1), NEW j \in 1..(n + 1), a[i] = a[j]
               PROVE  i = j
    BY <1>2 DEF IsInjective
  <2> QED  BY <1>1, <1>2, <1>3, <1>4 DEF IsInjective
<1> QED  BY <1>6, <1>7 DEF a

LEMMA SetNewKeeps ==
  ASSUME ConfInv, NEW path \in Paths, NEW v \in Values, NEW allow \in BOOLEAN,
         SetNew(path, v, allow)
  PROVE  ConfInv'
<1>1. PICK k, base : k = Known(path) /\ base = ConfGetNode(SubSeq(path, 1, k))
  OBVIOUS
<1>2. /\ root # NULL /\ ConfGetNode(path) = NULL
      /\ root' = root /\ root_backup' = root_backup
      /\ \E new \in FreshChains(Len(path) - k) :
            heap' = Chained(path, k, base, new, v, allow)
  BY <1>1 DEF SetNew
<1>3. TreeInv /\ Reached /\ NoDangling  BY DEF ConfInv, TreeInv
<1>4. /\ k \in 0..(Len(path) - 1) /\ Len(path) \in Nat
      /\ base \in Subtree(root) /\ base \in DOMAIN heap
      /\ ConfNodeLookupChild(base, path[k + 1]) = NULL
  BY <1>1, <1>2, <1>3, KnownFacts
<1>5. PICK N \in Nat : N = Len(path) - k  BY <1>4
<1>6. PICK new \in [1..N -> Nodes \ DOMAIN heap] :
        IsInjective(new) /\ heap' = Chained(path, k, base, new, v, allow)
  BY <1>2, <1>5 DEF FreshChains
<1>7. /\ DOMAIN heap' = DOMAIN heap \cup ToSet(new) /\ 1 \in 1..N
      /\ heap' \in [DOMAIN heap' -> NodeType]
      /\ \A i \in 1..N :
            /\ new[i] \in ToSet(new) /\ new[i] \in Nodes \ DOMAIN heap
            /\ heap'[new[i]].parent = (IF i = 1 THEN base ELSE new[i - 1])
            /\ heap'[new[i]].kids = (IF i = N THEN <<>> ELSE <<new[i + 1]>>)
            /\ heap'[new[i]].name = path[k + i]
      /\ \A x \in ToSet(new) : \E i \in 1..N : x = new[i]
      /\ heap'[base].kids = Append(heap[base].kids, new[1])
      /\ \A n \in DOMAIN heap :
            /\ heap'[n].parent = heap[n].parent /\ heap'[n].name = heap[n].name
            /\ n # base => heap'[n].kids = heap[n].kids
  <2>1. ChainMade(path, k, base, N, new, v, allow)  BY <1>3, <1>4, <1>5, <1>6, ChainFacts
  <2> QED  BY <2>1 DEF ChainMade
<1>8. \A n \in DOMAIN heap : ToSet(heap[n].kids) \subseteq DOMAIN heap
  BY <1>3 DEF NoDangling
\* The lists of children, old and new.
<1>9. /\ ToSet(heap'[base].kids) = ToSet(heap[base].kids) \cup {new[1]}
      /\ IsInjective(heap'[base].kids)
  <2>1. heap[base].kids \in Seq(Nodes) /\ IsInjective(heap[base].kids)
    BY <1>3, <1>4, KidsFacts DEF TreeInv, ParentsAgree
  <2>2. new[1] \in Nodes /\ new[1] \notin ToSet(heap[base].kids)
    BY <1>4, <1>7, <1>8
  <2> QED  BY <1>7, <2>1, <2>2, AppendFacts
<1>10. ASSUME NEW i \in 1..N
       PROVE  /\ ToSet(heap'[new[i]].kids) = IF i = N THEN {} ELSE {new[i + 1]}
              /\ IsInjective(heap'[new[i]].kids)
              /\ \A a, b \in DOMAIN heap'[new[i]].kids : a = b
  <2>1. CASE i = N
    <3>1. heap'[new[i]].kids = <<>>  BY <1>7, <2>1
    <3>2. DOMAIN heap'[new[i]].kids = {}  BY <3>1
    <3> QED  BY <2>1, <3>2 DEF ToSet, IsInjective
  <2>2. CASE i # N
    <3>1. heap'[new[i]].kids = <<new[i + 1]>>  BY <1>7, <2>2
    <3>2. DOMAIN heap'[new[i]].kids = {1} /\ heap'[new[i]].kids[1] = new[i + 1]
      BY <3>1
    <3> QED  BY <2>2, <3>2 DEF ToSet, IsInjective
  <2> QED  BY <2>1, <2>2
<1>11. \A i \in 1..N : i # N => i + 1 \in 1..N /\ i + 1 # 1 /\ (i + 1) - 1 = i
  OBVIOUS
<1>12. TypesInv'
  <2>1. DOMAIN heap' \subseteq Nodes  BY <1>3, <1>7 DEF TreeInv, TypesInv
  <2> QED  BY <1>7, <2>1 DEF TypesInv
<1>13. RootsInv'
  <2>1. \A r \in {root, root_backup} : r # NULL => r \in DOMAIN heap /\ heap[r].parent = NULL
    BY <1>3 DEF TreeInv, RootsInv, NoDangling
  <2>2. \A r \in {root, root_backup} : r # NULL => heap'[r].parent = NULL
    BY <1>7, <2>1
  <2> QED  BY <1>2, <1>3, <2>2 DEF TreeInv, RootsInv
<1>14. NoDangling'
  <2>1. ASSUME NEW n \in DOMAIN heap' PROVE ToSet(heap'[n].kids) \subseteq DOMAIN heap'
    <3>1. CASE n = base
      <4>1. ToSet(heap[base].kids) \subseteq DOMAIN heap  BY <1>4, <1>8
      <4>2. new[1] \in DOMAIN heap' /\ DOMAIN heap \subseteq DOMAIN heap'  BY <1>7
      <4> QED  BY <1>9, <3>1, <4>1, <4>2
    <3>2. CASE n \in DOMAIN heap /\ n # base
      <4>1. heap'[n].kids = heap[n].kids  BY <1>7, <3>2
      <4>2. ToSet(heap[n].kids) \subseteq DOMAIN heap  BY <1>8, <3>2
      <4>3. DOMAIN heap \subseteq DOMAIN heap'  BY <1>7
      <4> QED  BY <4>1, <4>2, <4>3
    <3>3. CASE n \in ToSet(new)
      <4>1. PICK i \in 1..N : n = new[i]  BY <1>7, <3>3
      <4>2. i # N => new[i + 1] \in DOMAIN heap'
        <5>1. i # N => i + 1 \in 1..N  BY <1>11
        <5> QED  BY <1>7, <5>1
      <4>3. ToSet(heap'[new[i]].kids) = IF i = N THEN {} ELSE {new[i + 1]}  BY <1>10
      <4> QED  BY <4>1, <4>2, <4>3
    <3> QED  BY <1>7, <3>1, <3>2, <3>3
  <2>2. {root, root_backup} \subseteq DOMAIN heap' \cup {NULL}
    BY <1>3, <1>7 DEF NoDangling
  <2> QED  BY <1>2, <2>1, <2>2 DEF NoDangling
<1>15. ParentsAgree'
  <2> SUFFICES ASSUME NEW n \in DOMAIN heap'
               PROVE  /\ IsInjective(heap'[n].kids)
                      /\ \A x \in ToSet(heap'[n].kids) : heap'[x].parent = n
    BY DEF ParentsAgree
  <2>1. CASE n \in DOMAIN heap /\ n # base
    BY <1>3, <1>7, <1>8, <2>1 DEF TreeInv, ParentsAgree
  <2>2. CASE n = base
    <3>1. \A x \in ToSet(heap[base].kids) : heap'[x].parent = base
      BY <1>3, <1>4, <1>7, <1>8 DEF TreeInv, ParentsAgree
    <3>2. heap'[new[1]].parent = base  BY <1>7
    <3> QED  BY <1>9, <2>2, <3>1, <3>2
  <2>3. CASE n \in ToSet(new)
    <3>1. PICK i \in 1..N : n = new[i]  BY <1>7, <2>3
    <3>2. ASSUME i # N PROVE heap'[new[i + 1]].parent = new[i]
      <4>1. PICK h \in 1..N : h = i + 1 /\ h # 1 /\ h - 1 = i  BY <1>11, <3>2
      <4>2. heap'[new[h]].parent = new[h - 1]  BY <1>7, <4>1
      <4> QED  BY <4>1, <4>2
    <3>3. /\ ToSet(heap'[n].kids) = IF i = N THEN {} ELSE {new[i + 1]}
          /\ IsInjective(heap'[n].kids)
      BY <1>10, <3>1
    <3> QED  BY <3>1, <3>2, <3>3
  <2> QED  BY <1>7, <2>1, <2>2, <2>3
<1>16. SiblingsDiffer'
  <2> SUFFICES ASSUME NEW n \in DOMAIN heap',
                      NEW i \in DOMAIN heap'[n].kids, NEW j \in DOMAIN heap'[n].kids, i # j
               PROVE  heap'[heap'[n].kids[i]].name # heap'[heap'[n].kids[j]].name
    BY DEF SiblingsDiffer
  <2> DEFINE x == heap'[n].kids[i]
             y == heap'[n].kids[j]
  <2>1. x \in ToSet(heap'[n].kids) /\ y \in ToSet(heap'[n].kids)  BY DEF ToSet
  <2>2. x # y  BY <1>15 DEF ParentsAgree, IsInjective
  <2>3. CASE n \in ToSet(new)
    <3>1. PICK h \in 1..N : n = new[h]  BY <1>7, <2>3
    <3>2. \A a, b \in DOMAIN heap'[n].kids : a = b  BY <1>10, <3>1
    <3> QED  BY <3>2
  <2>4. CASE n \in DOMAIN heap
    <3>1. Apart(n)  BY <1>3, <2>4, SiblingsApart
    <3>2. ASSUME x \in ToSet(heap[n].kids), y \in ToSet(heap[n].kids)
          PROVE  heap'[x].name # heap'[y].name
      BY <1>7, <1>8, <2>2, <2>4, <3>1, <3>2 DEF Apart
    <3>3. ASSUME n = base, NEW z \in ToSet(heap[base].kids)
          PROVE  heap'[z].name # heap'[new[1]].name
      <4>1. heap'[new[1]].name = path[k + 1]  BY <1>7
      <4>2. \A m \in DOMAIN heap[base].kids : heap[heap[base].kids[m]].name # path[k + 1]
        <5>1. \A m \in DOMAIN heap[base].kids : heap[base].kids[m] \in DOMAIN heap
          BY <1>3, <1>4, KidsFacts
        <5> QED  BY <1>3, <1>4, <5>1, LookupFacts
      <4>3. PICK m \in DOMAIN heap[base].kids : z = heap[base].kids[m]  BY <3>3 DEF ToSet
      <4>4. heap'[z].name = heap[z].name  BY <1>4, <1>7, <1>8
      <4> QED  BY <4>1, <4>2, <4>3, <4>4
    <3>4. CASE n # base
      <4>1. ToSet(heap'[n].kids) = ToSet(heap[n].kids)  BY <1>7, <2>4, <3>4
      <4> QED  BY <2>1, <3>2, <4>1
    <3>5. CASE n = base
      <4>1. /\ x \in ToSet(heap[base].kids) \/ x = new[1]
            /\ y \in ToSet(heap[base].kids) \/ y = new[1]
        BY <1>9, <2>1, <3>5
      <4> QED  BY <2>2, <3>2, <3>3, <3>5, <4>1
    <3> QED  BY <3>4, <3>5
  <2> QED  BY <1>7, <2>3, <2>4
<1>17. Reached'
  <2> SUFFICES ASSUME NEW S \in SUBSET DOMAIN heap', Roots' \subseteq S, Closed(S)'
               PROVE  DOMAIN heap' \subseteq S
    BY DEF Reached
  <2> DEFINE T == S \cap DOMAIN heap
  <2>1. T \in SUBSET DOMAIN heap /\ Roots \subseteq T
    BY <1>2, <1>3 DEF Roots, NoDangling
  <2>2. Closed(T)
    <3>1. \A m \in T : ToSet(heap[m].kids) \subseteq ToSet(heap'[m].kids)
      BY <1>7, <1>9
    <3> QED  BY <1>8, <3>1 DEF Closed
  <2>3. DOMAIN heap \subseteq T
    <3> HIDE DEF T
    <3> QED  BY <1>3, <2>1, <2>2 DEF Reached
  <2>4. new[1] \in S
    <3>1. base \in S  BY <1>4, <2>3
    <3> QED  BY <1>9, <3>1 DEF Closed
  <2>5. \A i \in 1..N : new[i] \in S
    <3> DEFINE M == {i \in 1..N : new[i] \notin S}
    <3>1. SUFFICES ASSUME M # {} PROVE FALSE  OBVIOUS
    <3>2. PICK i \in M : \A j \in M : i <= j
      <4>1. M \in SUBSET Nat  OBVIOUS
      <4> HIDE DEF M
      <4> QED  BY <3>1, <4>1, Least
    <3>3. i # 1 /\ i - 1 \in 1..N /\ i - 1 \notin M /\ i - 1 # N /\ (i - 1) + 1 = i
      BY <2>4, <3>2
    <3>4. new[i - 1] \in S  BY <3>3
    <3>5. ToSet(heap'[new[i - 1]].kids) = {new[i]}  BY <1>10, <3>3
    <3>6. new[i] \in S  BY <3>4, <3>5 DEF Closed
    <3> QED  BY <3>2, <3>6
  <2> QED  BY <1>7, <2>3, <2>5
<1> QED  BY <1>12, <1>13, <1>14, <1>15, <1>16, <1>17 DEF ConfInv, TreeInv

-----------------------------------------------------------------------------
LEMMA ConfInvStart == Init => ConfInv
<1> SUFFICES ASSUME Init PROVE ConfInv  OBVIOUS
<1>1. root = NULL /\ root_backup = NULL /\ DOMAIN heap = {}  BY DEF Init
<1>2. heap \in [DOMAIN heap -> NodeType]  BY DEF Init
<1> QED  BY <1>1, <1>2 DEF ConfInv, TreeInv, TypesInv, RootsInv, NoDangling,
    ParentsAgree, SiblingsDiffer, Reached

LEMMA ConfInvStep == ConfInv /\ [Next]_vars => ConfInv'
<1> SUFFICES ASSUME ConfInv, [Next]_vars PROVE ConfInv'  OBVIOUS
<1>1. CASE UNCHANGED vars  BY <1>1, SameHeapKeeps DEF vars
<1>2. CASE root_backup = NULL /\ ConfCreateContextBackup
  BY <1>2, SameHeapKeeps DEF ConfCreateContextBackup
<1>3. CASE root = NULL /\ ConfRestoreContextBackup
  BY <1>3, SameHeapKeeps DEF ConfRestoreContextBackup
<1>4. ASSUME NEW p \in Paths, ConfGet(p) PROVE ConfInv'
  BY <1>4, SameHeapKeeps DEF ConfGet
<1>5. ASSUME NEW p \in Paths, NEW v \in Values, NEW a \in BOOLEAN, ConfSet(p, v, a)
      PROVE  ConfInv'
  BY <1>5, SetExistingKeeps, SetNewKeeps DEF ConfSet
<1> QED  BY <1>1, <1>2, <1>3, <1>4, <1>5, InitKeeps, DeInitKeeps, RemoveKeeps DEF Next

LEMMA NothingIsLost == ConfInv => NothingLost
<1> SUFFICES ASSUME ConfInv PROVE NothingLost  OBVIOUS
<1> DEFINE R == IF root = NULL THEN {} ELSE Subtree(root)
           B == IF root_backup = NULL THEN {} ELSE Subtree(root_backup)
<1>1. NoDangling /\ Reached /\ {root, root_backup} \subseteq DOMAIN heap \cup {NULL}
  BY DEF ConfInv, TreeInv, NoDangling
<1>2. R \subseteq DOMAIN heap /\ Closed(R) /\ (root # NULL => root \in R)
  BY <1>1, SubtreeFacts DEF Closed
<1>3. B \subseteq DOMAIN heap /\ Closed(B) /\ (root_backup # NULL => root_backup \in B)
  BY <1>1, SubtreeFacts DEF Closed
<1> HIDE DEF R, B
<1>4. Closed(R \cup B) /\ Roots \subseteq R \cup B /\ R \cup B \in SUBSET DOMAIN heap
  BY <1>2, <1>3 DEF Closed, Roots
<1>5. DOMAIN heap = R \cup B  BY <1>1, <1>4 DEF Reached
<1> QED  BY <1>5 DEF NothingLost, R, B

LEMMA InvariantHolds == Spec => []ConfInv
<1> QED  BY ConfInvStart, ConfInvStep, PTL DEF Spec

\* Whatever is set, removed, saved and restored, no list leads to a freed node
\* (ConfNodeFree, ConfNodeRemove).
THEOREM ListsAreAlive == Spec => []NoDangling
<1>1. ConfInv => NoDangling  BY DEF ConfInv, TreeInv
<1> QED  BY <1>1, InvariantHolds, PTL

\* Every node knows in whose list it is, which is what TAILQ_REMOVE in
\* ConfNodeRemove takes on trust.
THEOREM ParentsKnown == Spec => []ParentsAgree
<1>1. ConfInv => ParentsAgree  BY DEF ConfInv, TreeInv
<1> QED  BY <1>1, InvariantHolds, PTL

\* No node hides a sibling of the same name from ConfNodeLookupChild.
THEOREM NamesDiffer == Spec => []SiblingsDiffer
<1>1. ConfInv => SiblingsDiffer  BY DEF ConfInv, TreeInv
<1> QED  BY <1>1, InvariantHolds, PTL

\* ConfDeInit, on each of the two trees, frees every node that was made.
THEOREM NoNodeLost == Spec => []NothingLost
<1> QED  BY NothingIsLost, InvariantHolds, PTL

-----------------------------------------------------------------------------
(* ConfTree implements ConfDb.  A way goes from list to list down to a node; *)
(* a lookup finds exactly the end of a way.                                  *)

Way(t, p, w, n) ==
    /\ w \in [0..Len(p) -> DOMAIN heap] /\ w[0] = t /\ w[Len(p)] = n
    /\ \A i \in 1..Len(p) :
          w[i] \in ToSet(heap[w[i - 1]].kids) /\ heap[w[i]].name = p[i]

FindsWays ==
    \A t \in DOMAIN heap, p \in Paths :
        /\ Find(t, p) # NULL => \E w : Way(t, p, w, Find(t, p))
        /\ \A w, n : Way(t, p, w, n) => Find(t, p) = n

\* No two ways from a root lead to one node.
Unambiguous ==
    \A t, u \in Roots : \A p, q \in Paths :
        Find(t, p) # NULL /\ Find(t, p) = Find(u, q) => t = u /\ p = q

LEMMA PathLength ==
  ASSUME NEW p \in Paths
  PROVE  /\ p \in Seq(Names) /\ Len(p) \in Nat /\ Len(p) # 0
         /\ DOMAIN p = 1..Len(p)
BY ConfTreeAssumption, EmptySeq

\* The nodes that a walk meets as long as it finds one.
Leads(f, t, p, L) ==
    /\ f[0] = t /\ \A k \in 0..L : f[k] \in DOMAIN heap
    /\ \A i \in 1..L : f[i] \in ToSet(heap[f[i - 1]].kids) /\ heap[f[i]].name = p[i]

LEMMA WalkIsWay ==
  ASSUME TreeInv, NEW t \in DOMAIN heap, NEW p, NEW n \in Nat, NEW f, Walk(t, p, n, f),
         NEW L \in Nat, L <= n, f[L] # NULL
  PROVE  Leads(f, t, p, L)
<1>1. f[0] = t /\ \A i \in 1..n : f[i] = Step(f[i - 1], p[i])  BY WalkSteps
<1>2. \A k \in 0..n : f[k] \in DOMAIN heap \cup {NULL}
  <2>1. Closed(DOMAIN heap)  BY DEF TreeInv, NoDangling, Closed
  <2> QED  BY <2>1, WalkRange
<1>3. \A k \in 0..L : k \in 0..n /\ f[k] # NULL
  <2> DEFINE T == {j \in Nat : j <= L /\ f[L - j] = NULL}
  <2>1. SUFFICES ASSUME T # {} PROVE FALSE
    <3>1. \A k \in 0..L : L - k \in Nat /\ L - k <= L /\ L - (L - k) = k /\ k \in 0..n
      OBVIOUS
    <3> QED  BY <3>1
  <2>2. PICK j \in T : \A i \in T : j <= i
    <3>1. T \in SUBSET Nat  OBVIOUS
    <3> HIDE DEF T
    <3> QED  BY <2>1, <3>1, Least
  <2>3. j # 0  BY <2>2
  <2>4. PICK k \in 1..L : k = L - (j - 1) /\ k - 1 = L - j  BY <2>2, <2>3
  <2>5. f[k] = Step(f[k - 1], p[k]) /\ f[k - 1] = NULL  BY <1>1, <2>2, <2>4
  <2>6. j - 1 \in T  BY <2>2, <2>3, <2>4, <2>5 DEF Step
  <2> QED  BY <2>2, <2>6
<1>4. \A k \in 0..L : f[k] \in DOMAIN heap  BY <1>2, <1>3
<1>5. ASSUME NEW i \in 1..L
      PROVE  f[i] \in ToSet(heap[f[i - 1]].kids) /\ heap[f[i]].name = p[i]
  <2>1. i \in 0..L /\ i - 1 \in 0..L /\ i \in 1..n  OBVIOUS
  <2>2. /\ f[i - 1] \in DOMAIN heap /\ f[i - 1] # NULL /\ f[i] # NULL
        /\ f[i] = Step(f[i - 1], p[i])
    BY <1>1, <1>3, <1>4, <2>1
  <2>3. f[i] = ConfNodeLookupChild(f[i - 1], p[i])  BY <2>2 DEF Step
  <2> QED  BY <2>2, <2>3, LookupFacts
<1> QED  BY <1>1, <1>4, <1>5 DEF Leads

LEMMA FoundHasWay ==
  ASSUME TreeInv, NEW t \in DOMAIN heap, NEW p \in Paths, Find(t, p) # NULL
  PROVE  \E w : Way(t, p, w, Find(t, p))
<1>1. PICK L \in Nat : L = Len(p) /\ p \in Seq(Names)  BY PathLength
<1>2. PICK f : Walk(t, p, L, f)  BY WalkExists
<1>3. Find(t, p) = f[L] /\ f[L] # NULL  BY <1>1, <1>2, FindIsWalk
<1>4. /\ f[0] = t /\ \A k \in 0..L : f[k] \in DOMAIN heap
      /\ \A i \in 1..L : f[i] \in ToSet(heap[f[i - 1]].kids) /\ heap[f[i]].name = p[i]
  <2>1. L <= L  OBVIOUS
  <2>2. Leads(f, t, p, L)  BY <1>2, <1>3, <2>1, WalkIsWay
  <2> QED  BY <2>2 DEF Leads
<1>5. f \in [0..L -> DOMAIN heap]
  <2>1. f = [i \in 0..L |-> f[i]]  BY <1>2 DEF Walk
  <2> QED  BY <1>4, <2>1
<1>6. Way(t, p, f, Find(t, p))  BY <1>1, <1>3, <1>4, <1>5 DEF Way
<1> QED  BY <1>6

LEMMA WayIsFound ==
  ASSUME TreeInv, NEW t \in DOMAIN heap, NEW p \in Paths, NEW w, NEW n, Way(t, p, w, n)
  PROVE  Find(t, p) = n
<1>1. PICK L \in Nat : L = Len(p) /\ p \in Seq(Names)  BY PathLength
<1>2. /\ w \in [0..L -> DOMAIN heap] /\ w[0] = t /\ w[L] = n
      /\ \A i \in 1..L : w[i] \in ToSet(heap[w[i - 1]].kids) /\ heap[w[i]].name = p[i]
  BY <1>1 DEF Way
<1>3. ASSUME NEW i \in 1..L PROVE w[i] = Step(w[i - 1], p[i])
  <2>1. i - 1 \in 0..L /\ i \in 0..L  OBVIOUS
  <2>2. PICK m \in DOMAIN heap : m = w[i - 1]  BY <1>2, <2>1
  <2>3. w[i] \in ToSet(heap[m].kids) /\ heap[w[i]].name = p[i]  BY <1>2, <2>2
  <2>4. PICK j \in DOMAIN heap[m].kids : w[i] = heap[m].kids[j]  BY <2>3, KidsFacts
  <2>5. PICK c : c = ConfNodeLookupChild(m, p[i])  OBVIOUS
  <2>6. c \in ToSet(heap[m].kids) /\ heap[c].name = p[i]  BY <2>3, <2>4, <2>5, LookupFacts
  <2>7. c = w[i]  BY <2>3, <2>6, SiblingsApart DEF Apart
  <2>8. m # NULL  BY KidsFacts
  <2> QED  BY <2>2, <2>5, <2>7, <2>8 DEF Step
<1>4. Walk(t, p, L, w)
  <2> DEFINE h == [i \in 0..L |-> IF i = 0 THEN t ELSE Step(w[i - 1], p[i])]
  <2>1. \A i \in 0..L : w[i] = h[i]  BY <1>2, <1>3
  <2>2. w = h  BY <1>2, <2>1
  <2> QED  BY <2>2 DEF Walk
<1> QED  BY <1>1, <1>2, <1>4, FindIsWalk

\* Two ways to one node are the same from their ends up, and a root is the
\* first node of both.
LEMMA OneWay ==
  ASSUME TreeInv, NEW t \in DOMAIN heap, NEW u \in DOMAIN heap,
         heap[t].parent = NULL, heap[u].parent = NULL,
         NEW p \in Paths, NEW q \in Paths, NEW v, NEW w, NEW n,
         Way(t, p, w, n), Way(u, q, v, n), Len(p) <= Len(q)
  PROVE  t = u /\ p = q
<1>1. PICK L \in Nat, M \in Nat :
        /\ L = Len(p) /\ M = Len(q) /\ p \in Seq(Names) /\ q \in Seq(Names) /\ L <= M
        /\ DOMAIN p = 1..L /\ DOMAIN q = 1..M
  BY PathLength
<1>2. /\ w \in [0..L -> DOMAIN heap] /\ w[0] = t /\ w[L] = n
      /\ \A i \in 1..L : w[i] \in ToSet(heap[w[i - 1]].kids) /\ heap[w[i]].name = p[i]
  BY <1>1 DEF Way
<1>3. /\ v \in [0..M -> DOMAIN heap] /\ v[0] = u /\ v[M] = n
      /\ \A i \in 1..M : v[i] \in ToSet(heap[v[i - 1]].kids) /\ heap[v[i]].name = q[i]
  BY <1>1 DEF Way
<1>11. L <= M  BY <1>1
<1>4. \A i \in 1..L : i - 1 \in 0..L /\ heap[w[i]].parent = w[i - 1]
  BY <1>2, KidsFacts
<1>5. \A i \in 1..M : i - 1 \in 0..M /\ heap[v[i]].parent = v[i - 1]
  BY <1>3, KidsFacts
<1>6. \A k \in 0..L : w[k] = v[k + (M - L)]
  <2> DEFINE T == {j \in Nat : j <= L /\ w[L - j] # v[M - j]}
  <2>1. SUFFICES ASSUME T # {} PROVE FALSE
    <3>1. \A k \in 0..L : /\ L - k \in Nat /\ L - k <= L
                          /\ L - (L - k) = k /\ M - (L - k) = k + (M - L)
      BY <1>1
    <3> QED  BY <3>1
  <2>2. PICK j \in T : \A i \in T : j <= i
    <3>1. T \in SUBSET Nat  OBVIOUS
    <3> HIDE DEF T
    <3> QED  BY <2>1, <3>1, Least
  <2>3. j # 0  BY <1>2, <1>3, <2>2
  <2>4. j - 1 \notin T /\ j - 1 \in Nat
    <3>1. T \subseteq Nat  OBVIOUS
    <3> HIDE DEF T
    <3> QED  BY <2>2, <2>3, <3>1
  <2>5. PICK x \in 1..L : x = L - (j - 1) /\ x - 1 = L - j  BY <2>2, <2>3
  <2>6. PICK y \in 1..M : y = M - (j - 1) /\ y - 1 = M - j  BY <1>11, <2>2, <2>3
  <2>7. w[x] = v[y]  BY <2>2, <2>4, <2>5, <2>6
  <2>8. w[x - 1] = v[y - 1]  BY <1>4, <1>5, <2>7
  <2> QED  BY <2>2, <2>5, <2>6, <2>8
<1>7. L = M
  <2> SUFFICES ASSUME L # M PROVE FALSE  OBVIOUS
  <2>1. PICK y \in 1..M : y = 0 + (M - L)  BY <1>11
  <2>2. t = v[y]  BY <1>2, <1>6, <2>1
  <2>3. v[y - 1] \in DOMAIN heap  BY <1>3, <1>5
  <2>4. heap[t].parent = v[y - 1] /\ v[y - 1] # NULL  BY <1>5, <2>2, <2>3, KidsFacts
  <2> QED  BY <2>4
<1>8. \A k \in 0..L : w[k] = v[k]  BY <1>6, <1>7
<1>9. t = u  BY <1>2, <1>3, <1>8
<1>10. ASSUME NEW i \in 1..L PROVE p[i] = q[i]
  <2>1. heap[w[i]].name = p[i]  BY <1>2
  <2>2. heap[v[i]].name = q[i]  BY <1>3, <1>7
  <2> QED  BY <1>8, <2>1, <2>2
<1> QED  BY <1>1, <1>7, <1>9, <1>10, SeqEqual

LEMMA LookupsAreWays == TreeInv => FindsWays /\ Unambiguous
<1> SUFFICES ASSUME TreeInv PROVE FindsWays /\ Unambiguous  OBVIOUS
<1>1. FindsWays  BY FoundHasWay, WayIsFound DEF FindsWays
<1>2. ASSUME NEW t \in Roots, NEW u \in Roots, NEW p \in Paths, NEW q \in Paths,
             Find(t, p) # NULL, Find(t, p) = Find(u, q)
      PROVE  t = u /\ p = q
  <2>1. /\ t \in DOMAIN heap /\ u \in DOMAIN heap
        /\ heap[t].parent = NULL /\ heap[u].parent = NULL
    BY DEF Roots, TreeInv, RootsInv, NoDangling
  <2>2. PICK n : n = Find(t, p)  OBVIOUS
  <2>3. PICK w : Way(t, p, w, n)  BY <1>2, <2>1, <2>2, FoundHasWay
  <2>4. PICK v : Way(u, q, v, n)  BY <1>2, <2>1, <2>2, FoundHasWay
  <2>5. Len(p) <= Len(q) \/ Len(q) <= Len(p)  BY PathLength
  <2>6. CASE Len(p) <= Len(q)  BY <2>1, <2>3, <2>4, <2>6, OneWay
  <2>7. CASE Len(q) <= Len(p)  BY <2>1, <2>3, <2>4, <2>7, OneWay
  <2> QED  BY <2>5, <2>6, <2>7
<1> QED  BY <1>1, <1>2 DEF Unambiguous

\* A step leaves the lists between the nodes of S alone, and none of these
\* nodes was or is in the list of another one.
ListsKept(S) ==
    /\ S \subseteq DOMAIN heap /\ S \subseteq DOMAIN heap'
    /\ \A x \in S : heap'[x].name = heap[x].name
    /\ \A y \in S :
          /\ \A x \in DOMAIN heap :
                y \in ToSet(heap[x].kids) => x \in S /\ y \in ToSet(heap'[x].kids)
          /\ \A x \in DOMAIN heap' :
                y \in ToSet(heap'[x].kids) => x \in S /\ y \in ToSet(heap[x].kids)

\* A way to a node of S is one of nodes of S.
LEMMA WayWithin ==
  ASSUME NEW D, NEW kids, NEW S, NEW L \in Nat, NEW w \in [0..L -> D], w[L] \in S,
         \A i \in 1..L : w[i] \in kids[w[i - 1]],
         \A y \in S : \A x \in D : y \in kids[x] => x \in S
  PROVE  \A k \in 0..L : w[k] \in S
<1> DEFINE T == {j \in Nat : j <= L /\ w[L - j] \notin S}
<1>1. SUFFICES ASSUME T # {} PROVE FALSE
  <2>1. \A k \in 0..L : L - k \in Nat /\ L - k <= L /\ L - (L - k) = k  OBVIOUS
  <2> QED  BY <2>1
<1>2. PICK j \in T : \A i \in T : j <= i
  <2>1. T \in SUBSET Nat  OBVIOUS
  <2> HIDE DEF T
  <2> QED  BY <1>1, <2>1, Least
<1>3. j # 0  BY <1>2
<1>4. j - 1 \notin T /\ j - 1 \in Nat
  <2>1. T \subseteq Nat  OBVIOUS
  <2> HIDE DEF T
  <2> QED  BY <1>2, <1>3, <2>1
<1>5. PICK k \in 1..L : k = L - (j - 1) /\ k - 1 = L - j  BY <1>2, <1>3
<1>6. w[k] \in S
  <2>1. j - 1 <= L  BY <1>2
  <2> QED  BY <1>4, <1>5, <2>1
<1>7. k - 1 \in 0..L /\ w[k - 1] \in D  OBVIOUS
<1>8. w[k - 1] \in S  BY <1>6, <1>7
<1> QED  BY <1>2, <1>5, <1>8

LEMMA WaysKept ==
  ASSUME NEW S, ListsKept(S), NEW t, NEW p \in Paths, NEW w, NEW n \in S
  PROVE  Way(t, p, w, n) <=> Way(t, p, w, n)'
<1>1. PICK L \in Nat : L = Len(p)  BY PathLength
<1>2. ASSUME Way(t, p, w, n) PROVE Way(t, p, w, n)'
  <2>1. /\ w \in [0..L -> DOMAIN heap] /\ w[0] = t /\ w[L] = n
        /\ \A i \in 1..L : w[i] \in ToSet(heap[w[i - 1]].kids) /\ heap[w[i]].name = p[i]
    BY <1>1, <1>2 DEF Way
  <2> DEFINE kids == [x \in DOMAIN heap |-> ToSet(heap[x].kids)]
  <2>2. \A i \in 1..L : i - 1 \in 0..L /\ w[i - 1] \in DOMAIN heap  BY <2>1
  <2>3. \A i \in 1..L : w[i] \in kids[w[i - 1]]  BY <2>1, <2>2
  <2>4. \A y \in S : \A x \in DOMAIN heap : y \in kids[x] => x \in S  BY DEF ListsKept
  <2> HIDE DEF kids
  <2>5. \A k \in 0..L : w[k] \in S  BY <2>1, <2>3, <2>4, WayWithin
  <2>6. w \in [0..L -> DOMAIN heap']  BY <2>1, <2>5 DEF ListsKept
  <2>7. ASSUME NEW i \in 1..L
        PROVE  w[i] \in ToSet(heap'[w[i - 1]].kids) /\ heap'[w[i]].name = p[i]
    <3>1. w[i] \in S /\ w[i - 1] \in DOMAIN heap  BY <2>2, <2>5
    <3>2. w[i] \in ToSet(heap[w[i - 1]].kids) /\ heap[w[i]].name = p[i]  BY <2>1
    <3> QED  BY <3>1, <3>2 DEF ListsKept
  <2> QED  BY <1>1, <2>1, <2>6, <2>7 DEF Way
<1>3. ASSUME Way(t, p, w, n)' PROVE Way(t, p, w, n)
  <2>1. /\ w \in [0..L -> DOMAIN heap'] /\ w[0] = t /\ w[L] = n
        /\ \A i \in 1..L : w[i] \in ToSet(heap'[w[i - 1]].kids) /\ heap'[w[i]].name = p[i]
    BY <1>1, <1>3 DEF Way
  <2> DEFINE kids == [x \in DOMAIN heap' |-> ToSet(heap'[x].kids)]
  <2>2. \A i \in 1..L : i - 1 \in 0..L /\ w[i - 1] \in DOMAIN heap'  BY <2>1
  <2>3. \A i \in 1..L : w[i] \in kids[w[i - 1]]  BY <2>1, <2>2
  <2>4. \A y \in S : \A x \in DOMAIN heap' : y \in kids[x] => x \in S  BY DEF ListsKept
  <2> HIDE DEF kids
  <2>5. \A k \in 0..L : w[k] \in S  BY <2>1, <2>3, <2>4, WayWithin
  <2>6. w \in [0..L -> DOMAIN heap]  BY <2>1, <2>5 DEF ListsKept
  <2>7. ASSUME NEW i \in 1..L
        PROVE  w[i] \in ToSet(heap[w[i - 1]].kids) /\ heap[w[i]].name = p[i]
    <3>1. w[i] \in S /\ w[i - 1] \in DOMAIN heap'  BY <2>2, <2>5
    <3>2. w[i] \in ToSet(heap'[w[i - 1]].kids) /\ heap'[w[i]].name = p[i]  BY <2>1
    <3> QED  BY <3>1, <3>2 DEF ListsKept
  <2> QED  BY <1>1, <2>1, <2>6, <2>7 DEF Way
<1> QED  BY <1>2, <1>3

\* So lookups still find the nodes of S, and find no others of S.
LEMMA FindKept ==
  ASSUME TreeInv, FindsWays, TreeInv', FindsWays',
         NEW S, ListsKept(S), NEW t \in S, NEW p \in Paths, NEW n \in S
  PROVE  Find(t, p) = n <=> Find(t, p)' = n
<1>1. t \in DOMAIN heap /\ t \in DOMAIN heap' /\ n # NULL
  BY ConfTreeAssumption DEF ListsKept, TreeInv, TypesInv
<1>2. Find(t, p) = n <=> \E w : Way(t, p, w, n)  BY <1>1 DEF FindsWays
<1>3. Find(t, p)' = n <=> \E w : Way(t, p, w, n)'  BY <1>1 DEF FindsWays
<1> QED  BY <1>2, <1>3, WaysKept

\* What a lookup finds is in somebody's list.
LEMMA FoundIsListed ==
  ASSUME TreeInv, FindsWays, NEW t \in DOMAIN heap, NEW p \in Paths, Find(t, p) # NULL
  PROVE  /\ Find(t, p) \in DOMAIN heap
         /\ \E m \in DOMAIN heap : Find(t, p) \in ToSet(heap[m].kids)
<1>1. PICK w : Way(t, p, w, Find(t, p))  BY DEF FindsWays
<1>2. PICK L \in Nat : L = Len(p) /\ L # 0  BY PathLength
<1>3. L \in 0..L /\ L - 1 \in 0..L /\ L \in 1..L  BY <1>2
<1>4. /\ w \in [0..L -> DOMAIN heap] /\ w[L] = Find(t, p)
      /\ w[L] \in ToSet(heap[w[L - 1]].kids)
  BY <1>1, <1>2, <1>3 DEF Way
<1> QED  BY <1>3, <1>4

\* The parameters of a tree, and their values.
Held(t) == {q \in Paths : Find(t, q) # NULL}
Param(n) == [val |-> heap[n].val, allow_override |-> heap[n].allow_override]

LookupInv ==
    /\ TreeInv /\ FindsWays /\ Unambiguous
    /\ \A t \in DOMAIN heap :
          /\ AsDb(t) # NULL /\ DOMAIN AsDb(t) = Held(t)
          /\ AsDb(t) = [p \in Held(t) |-> Param(Find(t, p))]
          /\ \A p \in Paths : Find(t, p) # NULL =>
                /\ Find(t, p) \in DOMAIN heap
                /\ \E m \in DOMAIN heap : Find(t, p) \in ToSet(heap[m].kids)
    /\ NULL \notin DOMAIN heap

LEMMA LookupsRight == ConfInv => LookupInv
<1> SUFFICES ASSUME ConfInv PROVE LookupInv  OBVIOUS
<1>1. TreeInv /\ FindsWays /\ Unambiguous  BY LookupsAreWays DEF ConfInv
<1>2. NULL \notin DOMAIN heap  BY <1>1, ConfTreeAssumption DEF TreeInv, TypesInv
<1>3. ASSUME NEW t \in DOMAIN heap
      PROVE  /\ AsDb(t) # NULL /\ DOMAIN AsDb(t) = Held(t)
             /\ AsDb(t) = [p \in Held(t) |-> Param(Find(t, p))]
             /\ \A p \in Paths : Find(t, p) # NULL =>
                   /\ Find(t, p) \in DOMAIN heap
                   /\ \E m \in DOMAIN heap : Find(t, p) \in ToSet(heap[m].kids)
  <2>1. AsDb(t) = [p \in Held(t) |-> Param(Find(t, p))]
    BY <1>2 DEF AsDb, Held, Param
  <2>2. \A p \in Paths : Find(t, p) # NULL =>
           /\ Find(t, p) \in DOMAIN heap
           /\ \E m \in DOMAIN heap : Find(t, p) \in ToSet(heap[m].kids)
    BY <1>1, FoundIsListed
  <2>3. \A n \in DOMAIN heap :
           Param(n) \in [val : Values \cup {NULL}, allow_override : BOOLEAN]
    BY <1>1, KidsFacts DEF Param, NodeType
  <2>4. \A p \in Held(t) :
           Param(Find(t, p)) \in [val : Values \cup {NULL}, allow_override : BOOLEAN]
    BY <2>2, <2>3 DEF Held
  <2>5. AsDb(t) \in [Held(t) -> [val : Values \cup {NULL}, allow_override : BOOLEAN]]
    BY <2>1, <2>4
  <2>6. Held(t) \in SUBSET Paths  BY DEF Held
  <2>7. AsDb(t) # NULL  BY <2>5, <2>6, NullAssumption
  <2> QED  BY <2>1, <2>2, <2>7
<1> QED  BY <1>1, <1>2, <1>3 DEF LookupInv

LEMMA NoDb == AsDb(NULL) = NULL
BY DEF AsDb

\* A lookup whose answers, before and after, are NULL or in S.
LEMMA FindSame ==
  ASSUME LookupInv, LookupInv', NEW S, ListsKept(S), NEW t \in S, NEW p \in Paths,
         Find(t, p) \in S \cup {NULL}, Find(t, p)' \in S \cup {NULL}
  PROVE  Find(t, p)' = Find(t, p)
<1>1. PICK n, m : n = Find(t, p) /\ m = Find(t, p)'  OBVIOUS
<1>2. n \in S => m = n  BY <1>1, FindKept DEF LookupInv
<1>3. m \in S => m = n  BY <1>1, FindKept DEF LookupInv
<1> QED  BY <1>1, <1>2, <1>3

LEMMA DbKept ==
  ASSUME LookupInv, LookupInv', NEW t \in DOMAIN heap, t \in DOMAIN heap',
         \A p \in Paths : Find(t, p)' = Find(t, p),
         \A p \in Paths : Find(t, p) # NULL => Param(Find(t, p))' = Param(Find(t, p))
  PROVE  AsDb(t)' = AsDb(t)
<1>1. /\ AsDb(t) = [p \in Held(t) |-> Param(Find(t, p))]
      /\ AsDb(t)' = [p \in Held(t)' |-> Param(Find(t, p))']
  BY DEF LookupInv
<1>2. Held(t)' = Held(t)  BY DEF Held
<1>3. \A p \in Held(t) : Param(Find(t, p))' = Param(Find(t, p))  BY DEF Held
<1> QED  BY <1>1, <1>2, <1>3

\* No tree changes but the one in use.
SavedKept == root_backup' = root_backup /\ AsDb(root_backup)' = AsDb(root_backup)

-----------------------------------------------------------------------------
LEMMA StartsDb ==
  ASSUME ConfInv, LookupInv, LookupInv', ConfInit PROVE Db!Begin
<1>1. PICK new \in Nodes \ DOMAIN heap :
        /\ root' = new
        /\ heap' = [m \in DOMAIN heap \cup {new} |->
                      IF m = new THEN NewNode(NULL, NULL) ELSE heap[m]]
  BY DEF ConfInit
<1>2. root = NULL /\ root_backup' = root_backup /\ last' = <<"init">>  BY DEF ConfInit
<1>3. /\ DOMAIN heap' = DOMAIN heap \cup {new} /\ new # NULL
      /\ \A m \in DOMAIN heap : heap'[m] = heap[m] /\ m # new
      /\ heap'[new].kids = <<>>
  BY <1>1, ConfTreeAssumption DEF NewNode
<1>4. ToSet(heap'[new].kids) = {}  BY <1>3 DEF ToSet
<1>5. ASSUME NEW p \in Paths, Find(new, p)' # NULL PROVE FALSE
  <2>1. PICK n : n = Find(new, p)'  OBVIOUS
  <2>2. PICK w : Way(new, p, w, n)'  BY <1>3, <1>5, <2>1 DEF LookupInv, FindsWays
  <2>3. w[1] \in ToSet(heap'[w[0]].kids) /\ w[0] = new
    <3>1. 1 \in 1..Len(p) /\ 1 - 1 = 0  BY PathLength
    <3> QED  BY <2>2, <3>1 DEF Way
  <2> QED  BY <1>4, <2>3
<1>6. AsDb(root)' = [p \in {} |-> Db!OnTheWay]
  <2>1. AsDb(root)' = [p \in Held(new)' |-> Param(Find(new, p))']
    BY <1>1, <1>3 DEF LookupInv
  <2>2. Held(new)' = {}  BY <1>5 DEF Held
  <2> QED  BY <2>1, <2>2
<1>7. AsDb(root_backup)' = AsDb(root_backup)
  <2>1. CASE root_backup = NULL  BY <1>2, <2>1, NoDb DEF AsDb
  <2>2. CASE root_backup # NULL
    <3>1. PICK t \in DOMAIN heap : t = root_backup  BY <2>2 DEF LookupInv, TreeInv, NoDangling
    <3>2. ListsKept(DOMAIN heap)  BY <1>3, <1>4, KidsFacts DEF ListsKept, LookupInv
    <3>3. ASSUME NEW p \in Paths PROVE Find(t, p)' = Find(t, p)
      <4>1. Find(t, p) \in DOMAIN heap \cup {NULL}  BY DEF LookupInv
      <4>2. Find(t, p)' \in DOMAIN heap \cup {NULL}
        <5>1. PICK n : n = Find(t, p)'  OBVIOUS
        <5>2. n # NULL => n \in DOMAIN heap' /\ \E m \in DOMAIN heap' : n \in ToSet(heap'[m].kids)
          BY <1>3, <5>1 DEF LookupInv
        <5> QED  BY <1>3, <1>4, <5>1, <5>2, KidsFacts DEF LookupInv
      <4>3. PICK S : S = DOMAIN heap  OBVIOUS
      <4> QED  BY <3>2, <4>1, <4>2, <4>3, FindSame
    <3>4. \A n \in DOMAIN heap : Param(n)' = Param(n)  BY <1>3 DEF Param
    <3>5. \A p \in Paths : Find(t, p) # NULL => Param(Find(t, p))' = Param(Find(t, p))
      <4> TAKE p \in Paths
      <4> HAVE Find(t, p) # NULL
      <4>1. PICK n \in DOMAIN heap : n = Find(t, p)  BY DEF LookupInv
      <4>2. Find(t, p)' = n  BY <3>3, <4>1
      <4> QED  BY <1>3, <4>1, <4>2 DEF Param
    <3>6. t \in DOMAIN heap'  BY <1>3
    <3>7. AsDb(t)' = AsDb(t)  BY <3>3, <3>5, <3>6, DbKept
    <3> QED  BY <1>2, <3>1, <3>7
  <2> QED  BY <2>1, <2>2
<1>8. AsDb(root) = NULL  BY <1>2, NoDb
<1> QED  BY <1>2, <1>6, <1>7, <1>8 DEF Db!Begin

\* A tree all of whose nodes that a lookup finds, before and after a step, are
\* kept.
LEMMA TreeKept ==
  ASSUME LookupInv, LookupInv', NEW S, ListsKept(S), NEW t \in S,
         \A p \in Paths : Find(t, p) \in S \cup {NULL} /\ Find(t, p)' \in S \cup {NULL},
         \A n \in S : Param(n)' = Param(n)
  PROVE  /\ AsDb(t)' = AsDb(t)
         /\ \A p \in Paths : Find(t, p)' = Find(t, p)
<1>1. t \in DOMAIN heap /\ t \in DOMAIN heap'  BY DEF ListsKept
<1>2. \A p \in Paths : Find(t, p)' = Find(t, p)  BY FindSame
<1>3. \A p \in Paths : Find(t, p) # NULL => Param(Find(t, p))' = Param(Find(t, p))
  <2> TAKE p \in Paths
  <2> HAVE Find(t, p) # NULL
  <2>1. PICK n \in S : n = Find(t, p)  OBVIOUS
  <2>2. Find(t, p)' = n  BY <1>2, <2>1
  <2>3. heap'[n].val = heap[n].val /\ heap'[n].allow_override = heap[n].allow_override
    BY DEF Param
  <2> QED  BY <2>1, <2>2, <2>3 DEF Param
<1> QED  BY <1>1, <1>2, <1>3, DbKept

\* The backup, when the step does not touch its nodes.
LEMMA SavedTreeKept ==
  ASSUME LookupInv, LookupInv', root_backup' = root_backup,
         root_backup # NULL =>
            \E S : /\ ListsKept(S) /\ root_backup \in S
                   /\ \A p \in Paths : /\ Find(root_backup, p) \in S \cup {NULL}
                                       /\ Find(root_backup, p)' \in S \cup {NULL}
                   /\ \A n \in S : Param(n)' = Param(n)
  PROVE  AsDb(root_backup)' = AsDb(root_backup)
<1>1. CASE root_backup = NULL  BY <1>1 DEF AsDb
<1>2. CASE root_backup # NULL
  <2>1. PICK t : t = root_backup  OBVIOUS
  <2>2. PICK S : /\ ListsKept(S) /\ t \in S
                 /\ \A p \in Paths : Find(t, p) \in S \cup {NULL} /\ Find(t, p)' \in S \cup {NULL}
                 /\ \A n \in S : Param(n)' = Param(n)
    BY <1>2, <2>1
  <2>3. AsDb(t)' = AsDb(t)  BY <2>2, TreeKept
  <2> QED  BY <2>1, <2>3
<1> QED  BY <1>1, <1>2

LEMMA SameHeap ==
  ASSUME LookupInv, LookupInv', heap' = heap, NEW t \in DOMAIN heap \cup {NULL}
  PROVE  AsDb(t)' = AsDb(t)
<1>1. CASE t = NULL  BY <1>1 DEF AsDb
<1>2. CASE t \in DOMAIN heap
  <2>1. PICK S : S = DOMAIN heap  OBVIOUS
  <2>2. ListsKept(S)  BY <2>1, KidsFacts DEF ListsKept, LookupInv
  <2>3. \A p \in Paths : Find(t, p) \in S \cup {NULL} /\ Find(t, p)' \in S \cup {NULL}
    BY <1>2, <2>1 DEF LookupInv
  <2>4. \A n \in S : Param(n)' = Param(n)  BY DEF Param
  <2> QED  BY <1>2, <2>1, <2>2, <2>3, <2>4, TreeKept
<1> QED  BY <1>1, <1>2

\* Both roots are NULL or nodes.
LEMMA RootsFacts ==
  ASSUME LookupInv
  PROVE  /\ root \in DOMAIN heap \cup {NULL} /\ root_backup \in DOMAIN heap \cup {NULL}
         /\ AsDb(root) = NULL <=> root = NULL
<1>1. root \in DOMAIN heap \cup {NULL} /\ root_backup \in DOMAIN heap \cup {NULL}
  BY DEF LookupInv, TreeInv, NoDangling
<1>2. root = NULL => AsDb(root) = NULL  BY DEF AsDb
<1> QED  BY <1>1, <1>2 DEF LookupInv

LEMMA SavesDb ==
  ASSUME LookupInv, LookupInv', ConfCreateContextBackup PROVE Db!Backup
<1>1. heap' = heap /\ root' = NULL /\ root_backup' = root /\ last' = <<"backup">>
  BY DEF ConfCreateContextBackup
<1>2. PICK t \in DOMAIN heap \cup {NULL} : t = root  BY RootsFacts
<1>3. AsDb(t)' = AsDb(t)  BY <1>1, SameHeap
<1>4. AsDb(root_backup)' = AsDb(root)  BY <1>1, <1>2, <1>3
<1>5. AsDb(root)' = NULL  BY <1>1 DEF AsDb
<1> QED  BY <1>1, <1>4, <1>5 DEF Db!Backup

LEMMA RestoresDb ==
  ASSUME LookupInv, LookupInv', ConfRestoreContextBackup PROVE Db!Restore
<1>1. heap' = heap /\ root_backup' = NULL /\ root' = root_backup /\ last' = <<"restore">>
  BY DEF ConfRestoreContextBackup
<1>2. PICK t \in DOMAIN heap \cup {NULL} : t = root_backup  BY RootsFacts
<1>3. AsDb(t)' = AsDb(t)  BY <1>1, SameHeap
<1>4. AsDb(root)' = AsDb(root_backup)  BY <1>1, <1>2, <1>3
<1>5. AsDb(root_backup)' = NULL  BY <1>1 DEF AsDb
<1> QED  BY <1>1, <1>4, <1>5 DEF Db!Restore

LEMMA GetsDb ==
  ASSUME LookupInv, LookupInv', NEW path \in Paths, ConfGet(path) PROVE Db!Get(path)
<1>1. PICK node : node = Find(root, path)  OBVIOUS
<1>2. /\ root # NULL /\ heap' = heap /\ root' = root /\ root_backup' = root_backup
      /\ last' = IF node = NULL THEN <<"get", path, 0, NULL>>
                 ELSE <<"get", path, 1, heap[node].val>>
  BY <1>1 DEF ConfGet, ConfGetNode
<1>3. PICK t \in DOMAIN heap : t = root  BY <1>2, RootsFacts
<1>4. PICK b \in DOMAIN heap \cup {NULL} : b = root_backup  BY RootsFacts
<1>5. AsDb(t)' = AsDb(t) /\ AsDb(b)' = AsDb(b)  BY <1>2, SameHeap
<1>6. AsDb(root)' = AsDb(root) /\ AsDb(root_backup)' = AsDb(root_backup)
  BY <1>2, <1>3, <1>4, <1>5
<1>7. /\ AsDb(root) # NULL /\ DOMAIN AsDb(root) = Held(root)
      /\ AsDb(root) = [p \in Held(root) |-> Param(Find(root, p))]
  BY <1>3 DEF LookupInv
<1>8. CASE node = NULL
  <2>1. path \notin DOMAIN AsDb(root)  BY <1>1, <1>7, <1>8 DEF Held
  <2> QED  BY <1>2, <1>6, <1>7, <1>8, <2>1 DEF Db!Get
<1>9. CASE node # NULL
  <2>1. path \in Held(root)  BY <1>1, <1>9 DEF Held
  <2>2. AsDb(root)[path].val = heap[node].val  BY <1>1, <1>7, <2>1 DEF Param
  <2> QED  BY <1>2, <1>6, <1>7, <1>9, <2>1, <2>2 DEF Db!Get
<1> QED  BY <1>8, <1>9

\* What Without leaves behind keeps its lists.
LEMMA WithoutLists ==
  ASSUME TreeInv, NEW node \in DOMAIN heap, heap' = Without(node)
  PROVE  /\ ListsKept(DOMAIN heap')
         /\ \A n \in DOMAIN heap' : Param(n)' = Param(n)
<1>1. /\ DOMAIN heap' = DOMAIN heap \ Subtree(node)
      /\ \A n \in DOMAIN heap' :
            /\ ToSet(heap'[n].kids) = ToSet(heap[n].kids) \ {node}
            /\ heap'[n].name = heap[n].name
  BY WithoutFacts
<1>2. Closed(Subtree(node)) /\ node \in Subtree(node)  BY SubtreeFacts DEF TreeInv
<1>3. ASSUME NEW n \in DOMAIN heap' PROVE Param(n)' = Param(n)
  <2>1. n \in DOMAIN heap /\ heap[n] \in NodeType  BY <1>1, KidsFacts
  <2>2. \/ heap'[n] = heap[n]
        \/ heap'[n] = [heap[n] EXCEPT !.kids = RemoveFirst(heap[n].kids, node)]
    BY <1>1 DEF Without
  <2> QED  BY <2>1, <2>2 DEF Param, NodeType
<1>4. ASSUME NEW y \in DOMAIN heap', NEW x \in DOMAIN heap, y \in ToSet(heap[x].kids)
      PROVE  x \in DOMAIN heap' /\ y \in ToSet(heap'[x].kids)
  <2>1. x \in DOMAIN heap'  BY <1>1, <1>2, <1>4 DEF Closed
  <2> QED  BY <1>1, <1>2, <1>4, <2>1
<1> QED  BY <1>1, <1>3, <1>4 DEF ListsKept

-----------------------------------------------------------------------------
(* Prefixes, and what lies below a node *)

LEMMA PrefixIs ==
  ASSUME NEW p \in Paths, NEW q \in Paths
  PROVE  IsPrefix(p, q) <=> Len(p) <= Len(q) /\ p = SubSeq(q, 1, Len(p))
<1>1. SubSeq(p, 1, Len(p)) = p  BY PathLength, SubSeqFull
<1> QED  BY <1>1 DEF IsPrefix

LEMMA PathPrefix ==
  ASSUME NEW p \in Paths, NEW k \in 1..Len(p)
  PROVE  /\ SubSeq(p, 1, k) \in Paths /\ Len(SubSeq(p, 1, k)) = k
         /\ \A i \in 1..k : SubSeq(p, 1, k)[i] = p[i]
<1>1. p \in Seq(Names) /\ Len(p) \in Nat  BY PathLength
<1>2. PICK q : q = SubSeq(p, 1, k)  OBVIOUS
<1>3. q \in Paths  BY <1>2, ConfTreeAssumption
<1>4. Len(q) = k /\ \A i \in 1..k : q[i] = p[i]  BY <1>1, <1>2
<1> QED  BY <1>2, <1>3, <1>4

\* The beginning of a way is a way.
LEMMA WayPrefix ==
  ASSUME NEW t, NEW p \in Paths, NEW w, NEW n, Way(t, p, w, n), NEW k \in 1..Len(p)
  PROVE  \E v : Way(t, SubSeq(p, 1, k), v, w[k])
<1>1. PICK L \in Nat : L = Len(p) /\ p \in Seq(Names)  BY PathLength
<1>2. /\ w \in [0..L -> DOMAIN heap] /\ w[0] = t
      /\ \A i \in 1..L : w[i] \in ToSet(heap[w[i - 1]].kids) /\ heap[w[i]].name = p[i]
  BY <1>1 DEF Way
<1>3. PICK q : q = SubSeq(p, 1, k) /\ Len(q) = k /\ \A i \in 1..k : q[i] = p[i]
  <2>1. Len(SubSeq(p, 1, k)) = k /\ \A i \in 1..k : SubSeq(p, 1, k)[i] = p[i]
    BY PathPrefix
  <2> QED  BY <2>1
<1>4. k \in Nat /\ k \in 1..L /\ k # 0  BY <1>1
<1>5. PICK v : v = [i \in 0..k |-> w[i]]  OBVIOUS
<1>6. \A i \in 0..k : i \in 0..L /\ v[i] = w[i]  BY <1>4, <1>5
<1>7. v \in [0..k -> DOMAIN heap]  BY <1>2, <1>5, <1>6
<1>8. \A i \in 1..k : i \in 1..L /\ i \in 0..k /\ i - 1 \in 0..k  BY <1>4
<1>9. \A i \in 1..k : v[i] \in ToSet(heap[v[i - 1]].kids) /\ heap[v[i]].name = q[i]
  <2> TAKE i \in 1..k
  <2>1. w[i] \in ToSet(heap[w[i - 1]].kids) /\ heap[w[i]].name = p[i]  BY <1>2, <1>8
  <2>2. v[i] = w[i] /\ v[i - 1] = w[i - 1] /\ q[i] = p[i]  BY <1>3, <1>6, <1>8
  <2> QED  BY <2>1, <2>2
<1>10. 0 \in 0..k /\ k \in 0..k  BY <1>4
<1>11. Way(t, q, v, w[k])  BY <1>2, <1>3, <1>6, <1>7, <1>9, <1>10 DEF Way
<1> QED  BY <1>3, <1>11

\* A way from a root that ends below a node comes by that node.
LEMMA WayComesBy ==
  ASSUME TreeInv, NEW t \in DOMAIN heap, heap[t].parent = NULL,
         NEW p \in Paths, NEW w, NEW n, Way(t, p, w, n),
         NEW node \in DOMAIN heap, n \in Subtree(node)
  PROVE  \E k \in 0..Len(p) : w[k] = node
<1>1. PICK L \in Nat : L = Len(p) /\ p \in Seq(Names)  BY PathLength
<1>2. /\ w \in [0..L -> DOMAIN heap] /\ w[0] = t /\ w[L] = n
      /\ \A i \in 1..L : w[i] \in ToSet(heap[w[i - 1]].kids)
  BY <1>1 DEF Way
<1> SUFFICES ASSUME \A k \in 0..L : w[k] # node PROVE FALSE  BY <1>1
<1> DEFINE T == {j \in Nat : j <= L /\ w[L - j] \notin Subtree(node)}
<1>3. \A k \in 0..L : L - k \in Nat /\ L - k <= L /\ L - (L - k) = k  OBVIOUS
<1>4. T \subseteq Nat  OBVIOUS
<1>5. CASE T = {}
  <2>1. t \in Subtree(node)
    <3>1. L \notin T /\ L - L = 0  BY <1>5
    <3> QED  BY <1>2, <3>1
  <2>2. t # node  BY <1>2
  <2>3. heap[t].parent \in Subtree(node)  BY <2>1, <2>2, SubtreeEnds
  <2>4. Subtree(node) \subseteq DOMAIN heap  BY SubtreeFacts DEF TreeInv
  <2> QED  BY <2>3, <2>4, KidsFacts
<1>6. CASE T # {}
  <2>1. PICK j \in T : \A i \in T : j <= i
    <3> HIDE DEF T
    <3> QED  BY <1>4, <1>6, Least
  <2>2. j # 0  BY <1>2, <2>1
  <2>3. j - 1 \notin T /\ j - 1 \in Nat
    <3> HIDE DEF T
    <3> QED  BY <1>4, <2>1, <2>2
  <2>4. PICK k \in 1..L : k = L - (j - 1) /\ k - 1 = L - j  BY <2>1, <2>2
  <2>5. j - 1 <= L  BY <2>1
  <2>6. w[k] \in Subtree(node)  BY <2>3, <2>4, <2>5
  <2>7. k - 1 \in 0..L /\ k \in 0..L  OBVIOUS
  <2>8. w[k - 1] \in DOMAIN heap /\ w[k] # node  BY <1>2, <2>7
  <2>9. heap[w[k]].parent = w[k - 1]  BY <1>2, <2>8, KidsFacts
  <2>10. w[k - 1] \in Subtree(node)  BY <2>6, <2>8, <2>9, SubtreeEnds
  <2> QED  BY <2>1, <2>4, <2>10
<1> QED  BY <1>5, <1>6

\* What lies below the node of a path are the nodes of the longer paths.
LEMMA BelowIsLonger ==
  ASSUME LookupInv, NEW t \in Roots, NEW u \in Roots, NEW path \in Paths, NEW p \in Paths,
         NEW node, node = Find(t, path), node # NULL, Find(u, p) # NULL
  PROVE  Find(u, p) \in Subtree(node) <=> u = t /\ IsPrefix(path, p)
<1>1. /\ t \in DOMAIN heap /\ u \in DOMAIN heap /\ TreeInv
      /\ heap[t].parent = NULL /\ heap[u].parent = NULL
  BY DEF Roots, LookupInv, TreeInv, RootsInv, NoDangling
<1>2. node \in DOMAIN heap /\ \E m \in DOMAIN heap : node \in ToSet(heap[m].kids)
  BY <1>1 DEF LookupInv
<1>3. heap[node].parent # NULL  BY <1>1, <1>2, KidsFacts
<1>4. PICK n : n = Find(u, p)  OBVIOUS
<1>5. PICK w : Way(u, p, w, n)  BY <1>1, <1>4 DEF LookupInv, FindsWays
<1>6. PICK L \in Nat : L = Len(p) /\ p \in Seq(Names)  BY PathLength
<1>7. PICK K \in Nat : K = Len(path) /\ K # 0  BY PathLength
<1>8. /\ w \in [0..L -> DOMAIN heap] /\ w[0] = u /\ w[L] = n
      /\ \A i \in 1..L : w[i] \in ToSet(heap[w[i - 1]].kids)
  BY <1>5, <1>6 DEF Way
<1>9. ASSUME NEW k \in 1..L
      PROVE  SubSeq(p, 1, k) \in Paths /\ Find(u, SubSeq(p, 1, k)) = w[k]
  <2>1. SubSeq(p, 1, k) \in Paths /\ k \in 1..Len(p)  BY <1>6, PathPrefix
  <2>2. PICK v : Way(u, SubSeq(p, 1, k), v, w[k])  BY <1>5, <2>1, WayPrefix
  <2> QED  BY <1>1, <2>1, <2>2 DEF LookupInv, FindsWays
<1>10. ASSUME n \in Subtree(node) PROVE u = t /\ IsPrefix(path, p)
  <2>1. PICK k \in 0..L : w[k] = node  BY <1>1, <1>2, <1>5, <1>6, <1>10, WayComesBy
  <2>2. k # 0  BY <1>1, <1>3, <1>8, <2>1
  <2>3. k \in 1..L  BY <2>2
  <2>4. SubSeq(p, 1, k) \in Paths /\ Find(u, SubSeq(p, 1, k)) = node  BY <1>9, <2>1, <2>3
  <2>5. u = t /\ SubSeq(p, 1, k) = path
    <3>1. PICK q \in Paths : q = SubSeq(p, 1, k)  BY <2>4
    <3>2. Find(t, path) # NULL /\ Find(t, path) = Find(u, q)  BY <2>4, <3>1
    <3>3. t = u /\ path = q  BY <3>2 DEF LookupInv, Unambiguous
    <3> QED  BY <3>1, <3>3
  <2>6. Len(path) = k /\ k <= Len(p)  BY <1>6, <2>3, <2>5, PathPrefix
  <2> QED  BY <2>5, <2>6, PrefixIs
<1>11. ASSUME u = t, IsPrefix(path, p) PROVE n \in Subtree(node)
  <2>1. K <= L /\ path = SubSeq(p, 1, K)  BY <1>6, <1>7, <1>11, PrefixIs
  <2>2. K \in 1..L  BY <1>7, <2>1
  <2>3. w[K] = node  BY <1>9, <1>11, <2>1, <2>2
  <2> DEFINE T == {j \in K..L : w[j] \notin Subtree(node)}
  <2>4. SUFFICES ASSUME T # {} PROVE FALSE
    <3>1. L \in K..L  BY <2>1
    <3> QED  BY <1>8, <3>1
  <2>5. T \subseteq Nat  OBVIOUS
  <2>6. PICK j \in T : \A i \in T : j <= i
    <3> HIDE DEF T
    <3> QED  BY <2>4, <2>5, Least
  <2>7. NoDangling  BY <1>1 DEF TreeInv
  <2>8. node \in Subtree(node) /\ Closed(Subtree(node)) /\ Subtree(node) \subseteq DOMAIN heap
    BY <1>2, <2>7, SubtreeFacts
  <2>9. j # K  BY <2>3, <2>6, <2>8
  <2>10. j - 1 \in K..L /\ j \in 1..L  BY <2>2, <2>6, <2>9
  <2>11. j - 1 \notin T
    <3>1. ~ (j <= j - 1)  BY <2>10
    <3> HIDE DEF T
    <3> QED  BY <2>6, <3>1
  <2>12. w[j - 1] \in Subtree(node)  BY <2>10, <2>11
  <2>13. w[j] \in Subtree(node)  BY <1>8, <2>8, <2>10, <2>12 DEF Closed
  <2> QED  BY <2>6, <2>13
<1> QED  BY <1>4, <1>10, <1>11
LEMMA EndsDb ==
  ASSUME LookupInv, LookupInv', ConfDeInit PROVE Db!End
<1>1. PICK node : node = root  OBVIOUS
<1>2. /\ node # NULL /\ root' = NULL /\ root_backup' = root_backup
      /\ last' = <<"deinit">>
  BY <1>1 DEF ConfDeInit
<1>3. TreeInv /\ node \in DOMAIN heap /\ heap[node].parent = NULL
  BY <1>1, <1>2, RootsFacts DEF LookupInv, TreeInv, RootsInv
<1>4. heap' = Without(node)
  <2>1. heap' = [n \in DOMAIN heap \ Subtree(node) |-> heap[n]]  BY <1>1 DEF ConfDeInit
  <2>2. \A n \in DOMAIN heap \ Subtree(node) : n # heap[node].parent
    BY <1>3 DEF LookupInv
  <2> QED  BY <2>1, <2>2 DEF Without
<1>5. PICK S : S = DOMAIN heap'  OBVIOUS
<1>6. ListsKept(S) /\ \A n \in S : Param(n)' = Param(n)
  BY <1>3, <1>4, <1>5, WithoutLists
<1>7. AsDb(root_backup)' = AsDb(root_backup)
  <2>1. SUFFICES ASSUME root_backup # NULL
        PROVE  /\ root_backup \in S
               /\ \A p \in Paths : /\ Find(root_backup, p) \in S \cup {NULL}
                                   /\ Find(root_backup, p)' \in S \cup {NULL}
    BY <1>2, <1>6, SavedTreeKept
  <2>2. PICK b : b = root_backup  OBVIOUS
  <2>3. /\ b \in S /\ b \in DOMAIN heap /\ heap[b].parent = NULL /\ b # node
    BY <1>1, <1>2, <1>5, <2>1, <2>2, RootsFacts DEF LookupInv, TreeInv, NoDangling, RootsInv
  <2>4. ASSUME NEW p \in Paths
        PROVE  Find(b, p) \in S \cup {NULL} /\ Find(b, p)' \in S \cup {NULL}
    <3>1. Find(b, p)' \in S \cup {NULL}  BY <1>5, <2>3 DEF LookupInv
    <3>2. ASSUME Find(b, p) # NULL PROVE Find(b, p) \in S
      <4>1. PICK n \in DOMAIN heap : n = Find(b, p)  BY <2>3, <3>2 DEF LookupInv
      <4>2. PICK w : Way(b, p, w, n)  BY <2>3, <3>2, <4>1 DEF LookupInv, FindsWays
      <4>3. n \notin Subtree(node)
        <5>1. SUFFICES ASSUME n \in Subtree(node) PROVE FALSE  OBVIOUS
        <5>2. PICK k \in 0..Len(p) : w[k] = node  BY <1>3, <2>3, <4>2, <5>1, WayComesBy
        <5>3. w[0] = b /\ Len(p) \in Nat  BY <4>2, PathLength DEF Way
        <5>4. k \in 1..Len(p)  BY <2>3, <5>2, <5>3
        <5>5. w[k] \in ToSet(heap[w[k - 1]].kids) /\ w[k - 1] \in DOMAIN heap
          BY <4>2, <5>3, <5>4 DEF Way
        <5>6. heap[w[k]].parent = w[k - 1] /\ w[k - 1] # NULL  BY <1>3, <5>5, KidsFacts
        <5> QED  BY <1>3, <5>2, <5>6
      <4>4. S = DOMAIN heap \ Subtree(node)  BY <1>4, <1>5 DEF Without
      <4> QED  BY <4>1, <4>3, <4>4
    <3> QED  BY <3>1, <3>2
  <2> QED  BY <1>2, <2>2, <2>3, <2>4
<1>8. AsDb(root) # NULL /\ AsDb(root)' = NULL  BY <1>1, <1>2, RootsFacts DEF AsDb
<1> QED  BY <1>2, <1>7, <1>8 DEF Db!End

LEMMA DropsDb ==
  ASSUME LookupInv, LookupInv', NEW path \in Paths, ConfRemove(path) PROVE Db!Drop(path)
<1>1. PICK node : node = Find(root, path)  OBVIOUS
<1>2. /\ root # NULL /\ root' = root /\ root_backup' = root_backup
      /\ heap' = IF node = NULL THEN heap ELSE Without(node)
      /\ last' = <<"remove", path, IF node = NULL THEN 0 ELSE 1>>
  BY <1>1 DEF ConfRemove, ConfGetNode
<1>3. PICK t \in DOMAIN heap : t = root  BY <1>2, RootsFacts
<1>4. PICK b \in DOMAIN heap \cup {NULL} : b = root_backup  BY RootsFacts
<1>5. /\ TreeInv /\ t \in Roots /\ t \in DOMAIN heap' /\ b \in DOMAIN heap' \cup {NULL}
      /\ b # NULL => b \in Roots /\ b # t
  BY <1>2, <1>3, <1>4, RootsFacts DEF LookupInv, Roots, TreeInv, RootsInv, NoDangling
<1>6. /\ AsDb(t) = [p \in Held(t) |-> Param(Find(t, p))] /\ DOMAIN AsDb(t) = Held(t)
      /\ AsDb(t)' = [p \in Held(t)' |-> Param(Find(t, p))']
      /\ AsDb(t) # NULL
  BY <1>5 DEF LookupInv
<1>7. path \in DOMAIN AsDb(t) <=> node # NULL  BY <1>1, <1>3, <1>6 DEF Held
<1>8. CASE node = NULL
  <2>1. heap' = heap  BY <1>2, <1>8
  <2>2. AsDb(t)' = AsDb(t) /\ AsDb(b)' = AsDb(b)  BY <2>1, SameHeap
  <2>3. ASSUME NEW p \in Held(t) PROVE ~ IsPrefix(path, p)
    <3>1. p \in Paths /\ Find(t, p) # NULL  BY DEF Held
    <3>2. SUFFICES ASSUME IsPrefix(path, p) PROVE FALSE  OBVIOUS
    <3>3. PICK w : Way(t, p, w, Find(t, p))  BY <3>1 DEF LookupInv, FindsWays
    <3>4. Len(path) <= Len(p) /\ path = SubSeq(p, 1, Len(path))  BY <3>1, <3>2, PrefixIs
    <3>5. PICK k \in 1..Len(p) : k = Len(path)
      <4>1. PICK K \in Nat : K = Len(path) /\ K # 0  BY PathLength
      <4>2. PICK L \in Nat : L = Len(p)  BY <3>1, PathLength
      <4>3. K <= L  BY <3>4, <4>1, <4>2
      <4>4. K \in 1..L  BY <4>1, <4>3
      <4> QED  BY <4>1, <4>2, <4>4
    <3>6. PICK v : Way(t, path, v, w[k])  BY <3>1, <3>3, <3>4, <3>5, WayPrefix
    <3>7. Find(t, path) = w[k]  BY <3>6 DEF LookupInv, FindsWays
    <3>8. w[k] \in DOMAIN heap
      <4>1. k \in 0..Len(p)  BY <3>1, PathLength
      <4> QED  BY <3>3, <4>1 DEF Way
    <3> QED  BY <1>1, <1>3, <1>8, <3>7, <3>8 DEF LookupInv
  <2>4. AsDb(t) = [p \in {q \in Held(t) : ~ IsPrefix(path, q)} |-> AsDb(t)[p]]
    <3>1. {q \in Held(t) : ~ IsPrefix(path, q)} = Held(t)  BY <2>3
    <3> QED  BY <1>6, <3>1
  <2>5. AsDb(root)' = AsDb(root) /\ AsDb(root_backup)' = AsDb(root_backup)
    BY <1>2, <1>3, <1>4, <2>2
  <2>6. {q \in DOMAIN AsDb(t) : ~ IsPrefix(path, q)} = {q \in Held(t) : ~ IsPrefix(path, q)}
    BY <1>6
  <2>7. AsDb(root)' = [p \in {q \in DOMAIN AsDb(root) : ~ IsPrefix(path, q)} |-> AsDb(root)[p]]
    BY <1>3, <2>4, <2>5, <2>6
  <2>8. AsDb(root) # NULL  BY <1>3, <1>6
  <2>9. last' = <<"remove", path, IF path \in DOMAIN AsDb(root) THEN 1 ELSE 0>>
    BY <1>2, <1>3, <1>7, <1>8
  <2> QED  BY <2>5, <2>7, <2>8, <2>9 DEF Db!Drop, Db!IsPrefix, IsPrefix
<1>9. CASE node # NULL
  <2>1. node \in DOMAIN heap /\ heap' = Without(node)
    BY <1>1, <1>2, <1>3, <1>9 DEF LookupInv
  <2>2. PICK S : S = DOMAIN heap' /\ S = DOMAIN heap \ Subtree(node)
    BY <2>1 DEF Without
  <2>3. ListsKept(S) /\ \A n \in S : Param(n)' = Param(n)
    BY <1>5, <2>1, <2>2, WithoutLists
  <2>4. \A u \in {t, b} \ {NULL} : \A p \in Paths : Find(u, p)' \in S \cup {NULL}
    BY <1>5, <2>2 DEF LookupInv
  <2>5. \A u \in {t, b} \ {NULL} : \A p \in Paths :
           Find(u, p) # NULL => (Find(u, p) \in S <=> ~ (u = t /\ IsPrefix(path, p)))
    <3> TAKE u \in {t, b} \ {NULL}
    <3> TAKE p \in Paths
    <3> HAVE Find(u, p) # NULL
    <3>1. u \in Roots /\ u \in DOMAIN heap  BY <1>4, <1>5
    <3>2. Find(u, p) \in Subtree(node) <=> u = t /\ IsPrefix(path, p)
      BY <1>1, <1>3, <1>5, <1>9, <3>1, BelowIsLonger
    <3>3. Find(u, p) \in DOMAIN heap  BY <3>1 DEF LookupInv
    <3> QED  BY <2>2, <3>2, <3>3
  <2>6. AsDb(root_backup)' = AsDb(root_backup)
    <3>1. CASE b = NULL  BY <1>2, <1>4, <3>1 DEF AsDb
    <3>2. CASE b # NULL
      <4>1. \A p \in Paths : Find(b, p) \in S \cup {NULL}  BY <1>5, <2>5, <3>2
      <4>2. b \in S  BY <1>5, <2>2, <3>2
      <4>3. \A p \in Paths : Find(b, p)' \in S \cup {NULL}  BY <2>4, <3>2
      <4>4. AsDb(b)' = AsDb(b)  BY <2>3, <4>1, <4>2, <4>3, TreeKept
      <4> QED  BY <1>2, <1>4, <4>4
    <3> QED  BY <3>1, <3>2
  <2> DEFINE Left == {q \in Held(t) : ~ IsPrefix(path, q)}
  <2>7. t # NULL /\ t \in S  BY <1>2, <1>3, <1>5, <2>2
  <2>8. \A p \in Left : Find(t, p)' = Find(t, p) /\ Find(t, p) \in S
    <3> TAKE p \in Left
    <3>1. p \in Paths /\ Find(t, p) # NULL /\ ~ IsPrefix(path, p)  BY DEF Held
    <3>2. Find(t, p) \in S /\ Find(t, p)' \in S \cup {NULL}  BY <2>4, <2>5, <2>7, <3>1
    <3> QED  BY <2>3, <2>7, <3>1, <3>2, FindSame
  <2>9. ASSUME NEW p \in Paths, Find(t, p)' # NULL PROVE p \in Left
    <3>1. PICK n \in S : n = Find(t, p)'  BY <2>4, <2>7, <2>9
    <3>2. Find(t, p) = n
      BY <2>3, <2>7, <3>1, FindKept DEF LookupInv
    <3>3. n # NULL  BY <2>2 DEF LookupInv
    <3> QED  BY <2>5, <2>7, <3>2, <3>3 DEF Held
  <2>10. NULL \notin S  BY <2>2 DEF LookupInv
  <2>11. Held(t)' = Left
    <3>1. Held(t)' = {q \in Paths : Find(t, q)' # NULL}  BY DEF Held
    <3>2. \A p \in Left : p \in Paths /\ Find(t, p)' # NULL  BY <2>8, <2>10 DEF Held
    <3> QED  BY <2>9, <3>1, <3>2
  <2>12. \A p \in Left : Param(Find(t, p))' = AsDb(t)[p]
    <3> TAKE p \in Left
    <3>1. PICK n \in S : n = Find(t, p) /\ n = Find(t, p)'  BY <2>8
    <3>2. Param(Find(t, p))' = Param(n)'  BY <3>1 DEF Param
    <3>3. AsDb(t)[p] = Param(n)  BY <1>6, <3>1
    <3> QED  BY <2>3, <3>2, <3>3
  <2>13. AsDb(t)' = [p \in {q \in DOMAIN AsDb(t) : ~ IsPrefix(path, q)} |-> AsDb(t)[p]]
    BY <1>6, <2>11, <2>12
  <2>14. AsDb(root)' = [p \in {q \in DOMAIN AsDb(root) : ~ IsPrefix(path, q)} |-> AsDb(root)[p]]
    BY <1>2, <1>3, <2>13
  <2>15. AsDb(root) # NULL  BY <1>3, <1>6
  <2>16. last' = <<"remove", path, IF path \in DOMAIN AsDb(root) THEN 1 ELSE 0>>
    BY <1>2, <1>3, <1>7, <1>9
  <2> QED  BY <2>6, <2>14, <2>15, <2>16 DEF Db!Drop, Db!IsPrefix, IsPrefix
<1> QED  BY <1>8, <1>9

\* What is found is found together with everything on the way to it.
LEMMA PrefixFound ==
  ASSUME LookupInv, NEW t \in DOMAIN heap, NEW p \in Paths, Find(t, p) # NULL,
         NEW q \in Paths, IsPrefix(q, p)
  PROVE  Find(t, q) # NULL
<1>1. PICK K \in Nat, L \in Nat : K = Len(q) /\ K # 0 /\ L = Len(p)  BY PathLength
<1>2. K <= L /\ q = SubSeq(p, 1, K)  BY <1>1, PrefixIs
<1>3. K \in 1..L /\ K \in 0..L  BY <1>1, <1>2
<1>4. PICK w : Way(t, p, w, Find(t, p))  BY DEF LookupInv, FindsWays
<1>5. PICK v : Way(t, q, v, w[K])  BY <1>1, <1>2, <1>3, <1>4, WayPrefix
<1>6. Find(t, q) = w[K]  BY <1>5 DEF LookupInv, FindsWays
<1>7. w[K] \in DOMAIN heap  BY <1>1, <1>3, <1>4 DEF Way
<1> QED  BY <1>6, <1>7 DEF LookupInv

LEMMA SetsOldDb ==
  ASSUME LookupInv, LookupInv', NEW path \in Paths, NEW v \in Values, NEW allow \in BOOLEAN,
         SetExisting(path, v, allow)
  PROVE  Db!Set(path, v, allow)
<1>1. PICK node : node = Find(root, path)  OBVIOUS
<1>2. /\ root # NULL /\ node # NULL /\ root' = root /\ root_backup' = root_backup
      /\ IF heap[node].allow_override
         THEN /\ heap' = [heap EXCEPT ![node].val = v, ![node].allow_override = allow]
              /\ last' = <<"set", path, v, allow, 1>>
         ELSE /\ last' = <<"set", path, v, allow, 0>>
              /\ heap' = heap
  BY <1>1 DEF SetExisting, ConfGetNode
<1>3. PICK t \in DOMAIN heap : t = root  BY <1>2, RootsFacts
<1>4. PICK b \in DOMAIN heap \cup {NULL} : b = root_backup  BY RootsFacts
<1>5. /\ TreeInv /\ t \in Roots /\ NULL \notin DOMAIN heap
      /\ b # NULL => b \in Roots /\ b # t
  BY <1>2, <1>3, <1>4 DEF LookupInv, Roots, TreeInv, RootsInv
<1>6. /\ AsDb(t) = [p \in Held(t) |-> Param(Find(t, p))] /\ DOMAIN AsDb(t) = Held(t)
      /\ AsDb(t) # NULL
  BY <1>5 DEF LookupInv
<1>7. node \in DOMAIN heap /\ heap[node] \in NodeType
  BY <1>1, <1>2, <1>3, <1>5, KidsFacts DEF LookupInv
<1>8. path \in Held(t) /\ AsDb(t)[path].allow_override = heap[node].allow_override
  BY <1>1, <1>2, <1>3, <1>6 DEF Held, Param
<1>9. {p \in Paths : IsPrefix(p, path)} \ Held(t) = {}
  <2>1. \A p \in Paths : IsPrefix(p, path) => Find(t, p) # NULL
    BY <1>1, <1>2, <1>3, PrefixFound
  <2> QED  BY <2>1 DEF Held
<1>10. CASE ~ heap[node].allow_override
  <2>1. AsDb(t)' = AsDb(t) /\ AsDb(b)' = AsDb(b)  BY <1>2, <1>10, SameHeap
  <2>2. AsDb(root)' = AsDb(root) /\ AsDb(root_backup)' = AsDb(root_backup)
    BY <1>2, <1>3, <1>4, <2>1
  <2>3. path \in DOMAIN AsDb(root) /\ ~ AsDb(root)[path].allow_override
    BY <1>3, <1>6, <1>8, <1>10
  <2>4. AsDb(root) # NULL /\ last' = <<"set", path, v, allow, 0>>
    BY <1>2, <1>3, <1>6, <1>10
  <2> QED  BY <2>2, <2>3, <2>4 DEF Db!Set
<1>11. CASE heap[node].allow_override
  <2>1. heap' = [heap EXCEPT ![node].val = v, ![node].allow_override = allow]
    BY <1>2, <1>11
  <2>2. DOMAIN heap' = DOMAIN heap  BY <2>1
  <2>3. \A n \in DOMAIN heap : n # node => heap'[n] = heap[n]  BY <1>7, <2>1
  <2>4. heap'[node] = [heap[node] EXCEPT !.val = v, !.allow_override = allow]
    BY <1>7, <2>1
  <2>5. /\ heap'[node].val = v /\ heap'[node].allow_override = allow
        /\ heap'[node].kids = heap[node].kids /\ heap'[node].name = heap[node].name
    BY <1>7, <2>4 DEF NodeType
  <2>6. PICK S : S = DOMAIN heap  OBVIOUS
  <2>7. \A n \in S : heap'[n].kids = heap[n].kids /\ heap'[n].name = heap[n].name
    BY <2>3, <2>5, <2>6
  <2>8. ListsKept(S)
    <3>1. \A n \in S : ToSet(heap[n].kids) = ToSet(heap'[n].kids)  BY <2>7
    <3> QED  BY <2>2, <2>6, <2>7, <3>1 DEF ListsKept
  <2>9. \A u \in {t, b} \ {NULL} : \A p \in Paths :
           Find(u, p)' = Find(u, p) /\ Find(u, p) \in S \cup {NULL}
    <3> TAKE u \in {t, b} \ {NULL}
    <3> TAKE p \in Paths
    <3>1. u \in S  BY <1>3, <1>4, <2>6
    <3>2. Find(u, p) \in S \cup {NULL} /\ Find(u, p)' \in S \cup {NULL}
      BY <2>2, <2>6, <3>1 DEF LookupInv
    <3> QED  BY <2>8, <3>1, <3>2, FindSame
  <2>10. \A u \in {t, b} \ {NULL} : \A p \in Paths : Find(u, p) = node => u = t /\ p = path
    BY <1>1, <1>2, <1>3, <1>5 DEF LookupInv, Unambiguous
  <2>11. AsDb(root_backup)' = AsDb(root_backup)
    <3>1. CASE b = NULL  BY <1>2, <1>4, <3>1 DEF AsDb
    <3>2. CASE b # NULL
      <4>1. \A p \in Paths : Find(b, p)' = Find(b, p)  BY <2>9, <3>2
      <4>2. \A p \in Paths : Find(b, p) # NULL => Param(Find(b, p))' = Param(Find(b, p))
        <5> TAKE p \in Paths
        <5> HAVE Find(b, p) # NULL
        <5>1. PICK n \in S : n = Find(b, p) /\ n = Find(b, p)'  BY <2>9, <3>2
        <5>2. n # node  BY <1>5, <2>10, <3>2, <5>1
        <5>3. heap'[n] = heap[n]  BY <2>3, <2>6, <5>2
        <5> QED  BY <5>1, <5>3 DEF Param
      <4>3. b \in DOMAIN heap /\ b \in DOMAIN heap'  BY <2>2, <3>2
      <4>4. AsDb(b)' = AsDb(b)  BY <4>1, <4>2, <4>3, DbKept
      <4> QED  BY <1>2, <1>4, <4>4
    <3> QED  BY <3>1, <3>2
  <2>12. t # NULL /\ t \in DOMAIN heap'  BY <1>2, <1>3, <2>2
  <2>13. AsDb(t)' = [p \in Held(t)' |-> Param(Find(t, p))']  BY <2>12 DEF LookupInv
  <2>14. Held(t)' = Held(t)  BY <2>9, <2>12 DEF Held
  <2>15. \A p \in Held(t) : Param(Find(t, p))' =
           IF p = path THEN [val |-> v, allow_override |-> allow] ELSE AsDb(t)[p]
    <3> TAKE p \in Held(t)
    <3>1. p \in Paths /\ Find(t, p) # NULL  BY DEF Held
    <3>2. PICK n \in S : n = Find(t, p) /\ n = Find(t, p)'  BY <2>9, <2>12, <3>1
    <3>3. Param(Find(t, p))' = Param(n)'  BY <3>2 DEF Param
    <3>4. CASE p = path
      <4>1. n = node  BY <1>1, <1>3, <3>2, <3>4
      <4> QED  BY <2>5, <3>3, <3>4, <4>1 DEF Param
    <3>5. CASE p # path
      <4>1. n # node  BY <2>10, <2>12, <3>1, <3>2, <3>5
      <4>2. heap'[n] = heap[n]  BY <2>3, <2>6, <4>1
      <4>3. AsDb(t)[p] = Param(n)  BY <1>6, <3>2
      <4> QED  BY <3>3, <3>5, <4>2, <4>3 DEF Param
    <3> QED  BY <3>4, <3>5
  <2>16. AsDb(t)' = [p \in DOMAIN AsDb(t) \cup {} |->
            IF p = path THEN [val |-> v, allow_override |-> allow]
            ELSE IF p \in {} THEN Db!OnTheWay ELSE AsDb(t)[p]]
    BY <1>6, <2>13, <2>14, <2>15
  <2>17. {p \in Paths : IsPrefix(p, path)} \ DOMAIN AsDb(t) = {}  BY <1>6, <1>9
  <2>18. AsDb(root) = AsDb(t) /\ AsDb(root)' = AsDb(t)'  BY <1>2, <1>3
  <2>19. ~ (path \in DOMAIN AsDb(t) /\ ~ AsDb(t)[path].allow_override)
    BY <1>6, <1>8, <1>11
  <2>20. last' = <<"set", path, v, allow, 1>>  BY <1>2, <1>11
  <2> QED  BY <1>6, <2>11, <2>16, <2>17, <2>18, <2>19, <2>20
           DEF Db!Set, Db!IsPrefix, IsPrefix
<1> QED  BY <1>10, <1>11

\* Beginnings of ways, as a state predicate.
WaysBegin ==
    \A t, w, n : \A p \in Paths : Way(t, p, w, n) =>
        \A k \in 1..Len(p) : \E v : Way(t, SubSeq(p, 1, k), v, w[k])

LEMMA WaysDoBegin == WaysBegin
BY WayPrefix DEF WaysBegin

\* The new nodes are found at the paths they were made for.
LEMMA NewAreFound ==
  ASSUME LookupInv, LookupInv', root # NULL, NEW t \in DOMAIN heap, t = root,
         NEW path \in Paths, NEW k \in 0..(Len(path) - 1), NEW N \in Nat, N = Len(path) - k,
         NEW base \in DOMAIN heap, base = ConfGetNode(SubSeq(path, 1, k)),
         NEW new, NEW v, NEW allow, ChainMade(path, k, base, N, new, v, allow)
  PROVE  \A i \in 1..N : /\ SubSeq(path, 1, k + i) \in Paths
                         /\ Find(t, SubSeq(path, 1, k + i))' = new[i]
<1>1. PICK L \in Nat : L = Len(path) /\ path \in Seq(Names)  BY PathLength
<1>2. k \in Nat /\ k <= L /\ N = L - k /\ k \in 0..L  BY <1>1
<1>3. PICK f : Walk(root, path, Len(path), f)  BY <1>1, WalkExists
<1>4. f[k] = base  BY <1>1, <1>2, <1>3, PrefixFacts
<1>5. base # NULL /\ TreeInv  BY DEF LookupInv
<1>6. /\ f[0] = t /\ \A j \in 0..k : f[j] \in DOMAIN heap
      /\ \A i \in 1..k : f[i] \in ToSet(heap[f[i - 1]].kids) /\ heap[f[i]].name = path[i]
  <2>1. Leads(f, t, path, k)  BY <1>1, <1>2, <1>3, <1>4, <1>5, WalkIsWay
  <2> QED  BY <2>1 DEF Leads
<1>7. /\ DOMAIN heap' = DOMAIN heap \cup ToSet(new) /\ 1 \in 1..N
      /\ \A i \in 1..N :
            /\ new[i] \in ToSet(new) /\ new[i] \in Nodes \ DOMAIN heap
            /\ heap'[new[i]].kids = (IF i = N THEN <<>> ELSE <<new[i + 1]>>)
            /\ heap'[new[i]].name = path[k + i]
      /\ heap'[base].kids = Append(heap[base].kids, new[1])
      /\ \A n \in DOMAIN heap :
            /\ heap'[n].name = heap[n].name
            /\ n # base => heap'[n].kids = heap[n].kids
  BY DEF ChainMade
<1>8. /\ \A n \in DOMAIN heap : ToSet(heap[n].kids) \subseteq ToSet(heap'[n].kids)
      /\ new[1] \in ToSet(heap'[base].kids)
  <2>1. heap[base].kids \in Seq(Nodes) /\ IsInjective(heap[base].kids)
    BY <1>5, KidsFacts DEF TreeInv, ParentsAgree
  <2>2. new[1] \in Nodes /\ new[1] \notin ToSet(heap[base].kids)
    BY <1>5, <1>7, KidsFacts
  <2>3. ToSet(heap'[base].kids) = ToSet(heap[base].kids) \cup {new[1]}
    BY <1>7, <2>1, <2>2, AppendFacts
  <2> QED  BY <1>7, <2>3
<1>9. \A i \in 1..N : i # N => new[i + 1] \in ToSet(heap'[new[i]].kids)
  <2> TAKE i \in 1..N
  <2> HAVE i # N
  <2>1. heap'[new[i]].kids = <<new[i + 1]>>  BY <1>7
  <2> QED  BY <2>1 DEF ToSet
<1>10. PICK W : W = [j \in 0..L |-> IF j <= k THEN f[j] ELSE new[j - k]]  OBVIOUS
<1>11. \A j \in 0..L : j > k => j - k \in 1..N  BY <1>2
<1>12. /\ \A j \in 0..k : j \in 0..L /\ W[j] = f[j]
       /\ \A i \in 1..N : k + i \in 0..L /\ k + i \in 1..L /\ W[k + i] = new[i]
  <2>1. \A j \in 0..k : j \in 0..L /\ j <= k  BY <1>2
  <2>2. \A i \in 1..N : k + i \in 0..L /\ k + i \in 1..L /\ ~ (k + i <= k) /\ (k + i) - k = i
    BY <1>2
  <2> QED  BY <1>10, <2>1, <2>2
<1>13. W \in [0..L -> DOMAIN heap']
  <2>1. \A j \in 0..L : W[j] \in DOMAIN heap'
    <3> TAKE j \in 0..L
    <3>1. CASE j <= k
      <4>1. j \in 0..k  BY <3>1
      <4> QED  BY <1>6, <1>7, <1>12, <4>1
    <3>2. CASE ~ (j <= k)
      <4>1. j - k \in 1..N  BY <1>2, <3>2
      <4> QED  BY <1>7, <1>10, <3>2, <4>1
    <3> QED  BY <3>1, <3>2
  <2> QED  BY <1>10, <2>1
<1>14. ASSUME NEW i \in 1..L
       PROVE  W[i] \in ToSet(heap'[W[i - 1]].kids) /\ heap'[W[i]].name = path[i]
  <2>1. CASE i <= k
    <3>1. i \in 1..k /\ i \in 0..k /\ i - 1 \in 0..k  BY <2>1
    <3>2. /\ f[i - 1] \in DOMAIN heap /\ f[i] \in DOMAIN heap
          /\ f[i] \in ToSet(heap[f[i - 1]].kids) /\ heap[f[i]].name = path[i]
          /\ W[i] = f[i] /\ W[i - 1] = f[i - 1]
      BY <1>6, <1>12, <3>1
    <3>3. heap'[f[i]].name = path[i]  BY <1>7, <3>2
    <3>4. f[i] \in ToSet(heap'[f[i - 1]].kids)  BY <1>8, <3>2
    <3> QED  BY <3>2, <3>3, <3>4
  <2>2. CASE i = k + 1
    <3>1. 1 \in 1..N /\ k \in 0..k  BY <1>2, <1>7
    <3>2. W[i] = new[1] /\ heap'[new[1]].name = path[i]  BY <1>7, <1>12, <2>2, <3>1
    <3>3. i - 1 = k  BY <2>2
    <3>4. W[i - 1] = base  BY <1>4, <1>12, <3>1, <3>3
    <3> QED  BY <1>8, <3>2, <3>4
  <2>3. CASE i > k + 1
    <3>1. PICK h \in 1..N : i = k + (h + 1) /\ i - 1 = k + h /\ h # N /\ h + 1 \in 1..N
      <4>1. i - 1 - k \in 1..N /\ i = k + ((i - 1 - k) + 1) /\ i - 1 = k + (i - 1 - k)
            /\ i - 1 - k # N /\ (i - 1 - k) + 1 \in 1..N
        BY <1>2, <2>3
      <4> QED  BY <4>1
    <3>2. W[i] = new[h + 1] /\ W[i - 1] = new[h]  BY <1>12, <3>1
    <3>3. heap'[new[h + 1]].name = path[i]  BY <1>7, <3>1
    <3> QED  BY <1>9, <3>1, <3>2, <3>3
  <2> QED  BY <1>2, <2>1, <2>2, <2>3
<1>15. 0 \in 0..L /\ 0 \in 0..k /\ L \in 0..L  BY <1>2
<1>16. Way(t, path, W, W[L])'  BY <1>1, <1>6, <1>12, <1>13, <1>14, <1>15 DEF Way
<1>17. WaysBegin'  BY WaysDoBegin, PTL
<1>18. ASSUME NEW i \in 1..N
       PROVE  /\ SubSeq(path, 1, k + i) \in Paths
              /\ Find(t, SubSeq(path, 1, k + i))' = new[i]
  <2>1. k + i \in 1..Len(path) /\ W[k + i] = new[i]  BY <1>1, <1>12
  <2>2. SubSeq(path, 1, k + i) \in Paths  BY <2>1, PathPrefix
  <2>3. PICK u : Way(t, SubSeq(path, 1, k + i), u, W[k + i])'
    BY <1>16, <1>17, <2>1 DEF WaysBegin
  <2>4. t \in DOMAIN heap'  BY <1>7
  <2>5. Find(t, SubSeq(path, 1, k + i))' = W[k + i]
    BY <2>2, <2>3, <2>4 DEF LookupInv, FindsWays
  <2> QED  BY <2>1, <2>2, <2>5
<1> QED  BY <1>18

LEMMA SetsNewDb ==
  ASSUME ConfInv, LookupInv, LookupInv',
         NEW path \in Paths, NEW v \in Values, NEW allow \in BOOLEAN,
         SetNew(path, v, allow)
  PROVE  Db!Set(path, v, allow)
<1>1. PICK k, base : k = Known(path) /\ base = ConfGetNode(SubSeq(path, 1, k))
  OBVIOUS
<1>2. /\ root # NULL /\ ConfGetNode(path) = NULL
      /\ root' = root /\ root_backup' = root_backup
      /\ last' = <<"set", path, v, allow, 1>>
      /\ \E new \in FreshChains(Len(path) - k) :
            heap' = Chained(path, k, base, new, v, allow)
  BY <1>1 DEF SetNew
<1>3. /\ k \in 0..(Len(path) - 1) /\ Len(path) \in Nat /\ base \in DOMAIN heap
  BY <1>1, <1>2, KnownFacts DEF LookupInv
<1>4. PICK N \in Nat : N = Len(path) - k  BY <1>3
<1>5. PICK new \in [1..N -> Nodes \ DOMAIN heap] :
        IsInjective(new) /\ heap' = Chained(path, k, base, new, v, allow)
  BY <1>2, <1>4 DEF FreshChains
<1>6. ChainMade(path, k, base, N, new, v, allow)
  <2>1. TreeInv  BY DEF LookupInv
  <2> QED  BY <1>3, <1>4, <1>5, <2>1, ChainFacts
<1>7. PICK t \in DOMAIN heap : t = root  BY <1>2, RootsFacts
<1>8. PICK b \in DOMAIN heap \cup {NULL} : b = root_backup  BY RootsFacts
<1>9. /\ DOMAIN heap' = DOMAIN heap \cup ToSet(new) /\ N \in 1..N
      /\ \A i \in 1..N :
            /\ new[i] \in ToSet(new) /\ new[i] \in Nodes \ DOMAIN heap
            /\ heap'[new[i]].kids = (IF i = N THEN <<>> ELSE <<new[i + 1]>>)
            /\ heap'[new[i]].val = (IF i = N THEN v ELSE NULL)
            /\ heap'[new[i]].allow_override = (i < N \/ allow)
      /\ \A x \in ToSet(new) : \E i \in 1..N : x = new[i]
      /\ heap'[base].kids = Append(heap[base].kids, new[1])
      /\ \A n \in DOMAIN heap :
            /\ heap'[n].name = heap[n].name
            /\ heap'[n].val = heap[n].val
            /\ heap'[n].allow_override = heap[n].allow_override
            /\ n # base => heap'[n].kids = heap[n].kids
  <2>1. 1 \in 1..N => N \in 1..N  OBVIOUS
  <2> QED  BY <1>6, <2>1 DEF ChainMade
<1>10. /\ TreeInv /\ t \in Roots /\ t \in Roots' /\ t \in DOMAIN heap' /\ t # NULL
       /\ NULL \notin DOMAIN heap /\ NULL \notin DOMAIN heap'
       /\ b # NULL => b \in Roots' /\ b # t /\ b \in DOMAIN heap'
  BY <1>2, <1>7, <1>8, <1>9 DEF LookupInv, Roots, TreeInv, RootsInv
\* The paths of the new nodes.
<1>11. PICK q : q = [i \in 1..N |-> SubSeq(path, 1, k + i)]  OBVIOUS
<1>12. \A i \in 1..N : q[i] \in Paths /\ Find(t, q[i])' = new[i]
  <2>1. \A i \in 1..N : /\ SubSeq(path, 1, k + i) \in Paths
                        /\ Find(t, SubSeq(path, 1, k + i))' = new[i]
    <3>1. root # NULL /\ t = root /\ base = ConfGetNode(SubSeq(path, 1, k))
      BY <1>1, <1>2, <1>7
    <3>2. k \in 0..(Len(path) - 1) /\ N = Len(path) - k /\ base \in DOMAIN heap
      BY <1>3, <1>4
    <3> QED  BY <1>6, <3>1, <3>2, NewAreFound
  <2>2. \A i \in 1..N : q[i] = SubSeq(path, 1, k + i)  BY <1>11
  <2> QED  BY <2>1, <2>2
<1>13. \A i \in 1..N : Len(q[i]) = k + i /\ k + i \in 1..Len(path)
  <2> TAKE i \in 1..N
  <2>1. k + i \in 1..Len(path)  BY <1>3, <1>4
  <2> QED  BY <1>11, <2>1, PathPrefix
<1>14. q[N] = path
  <2>1. k + N = Len(path)  BY <1>3, <1>4
  <2>2. q[N] = SubSeq(path, 1, Len(path))  BY <1>9, <1>11, <2>1
  <2>3. path \in Seq(Names)  BY PathLength
  <2> QED  BY <2>2, <2>3, SubSeqFull
<1>15. \A i \in 1..N : q[i] = path => i = N
  <2> TAKE i \in 1..N
  <2> HAVE q[i] = path
  <2>1. k + i = Len(path)  BY <1>13
  <2> QED  BY <1>3, <1>4, <2>1
<1>16. PICK S : S = DOMAIN heap  OBVIOUS
<1>17. ListsKept(S)
  <2>1. heap[base].kids \in Seq(Nodes) /\ IsInjective(heap[base].kids)
    BY <1>3, <1>10, KidsFacts DEF TreeInv, ParentsAgree
  <2>2. 1 \in 1..N  BY <1>9
  <2>3. new[1] \in Nodes /\ new[1] \notin ToSet(heap[base].kids)
    BY <1>3, <1>9, <1>10, <2>2, KidsFacts
  <2>4. ToSet(heap'[base].kids) = ToSet(heap[base].kids) \cup {new[1]}
    BY <1>9, <2>1, <2>3, AppendFacts
  <2>5. \A x \in S : \A y \in S : y \in ToSet(heap[x].kids) <=> y \in ToSet(heap'[x].kids)
    <3>1. new[1] \notin S  BY <1>9, <1>16, <2>2
    <3>2. \A x \in S : x # base => heap'[x].kids = heap[x].kids  BY <1>9, <1>16
    <3> QED  BY <2>4, <3>1, <3>2
  <2>6. \A x \in DOMAIN heap' : \A y \in S : y \in ToSet(heap'[x].kids) => x \in S
    <3> SUFFICES ASSUME NEW x \in ToSet(new), NEW y \in S PROVE y \notin ToSet(heap'[x].kids)
      BY <1>9, <1>16
    <3>1. PICK i \in 1..N : x = new[i]  BY <1>9
    <3>2. CASE i = N
      <4>1. heap'[x].kids = <<>>  BY <1>9, <3>1, <3>2
      <4> QED  BY <4>1 DEF ToSet
    <3>3. CASE i # N
      <4>1. i + 1 \in 1..N  BY <3>3
      <4>2. heap'[x].kids = <<new[i + 1]>>  BY <1>9, <3>1, <3>3
      <4>3. ToSet(heap'[x].kids) = {new[i + 1]}  BY <4>2 DEF ToSet
      <4> QED  BY <1>9, <1>16, <4>1, <4>3
    <3> QED  BY <3>2, <3>3
  <2> QED  BY <1>9, <1>16, <2>5, <2>6 DEF ListsKept
\* What is found now.
<1>18. \A u \in {t, b} \ {NULL} : \A p \in Paths :
          \/ Find(u, p)' \in S \cup {NULL} /\ Find(u, p)' = Find(u, p)
          \/ u = t /\ Find(u, p) = NULL /\ \E i \in 1..N : p = q[i]
  <2> TAKE u \in {t, b} \ {NULL}
  <2> TAKE p \in Paths
  <2>1. u \in S /\ u \in DOMAIN heap' /\ u \in Roots'  BY <1>7, <1>8, <1>10, <1>16
  <2>2. PICK n : n = Find(u, p)'  OBVIOUS
  <2>3. n \in DOMAIN heap' \cup {NULL} /\ Find(u, p) \in S \cup {NULL}
    BY <1>16, <2>1, <2>2 DEF LookupInv
  <2>4. CASE n \in S \cup {NULL}  BY <1>17, <2>1, <2>2, <2>3, <2>4, FindSame
  <2>5. CASE n \notin S \cup {NULL}
    <3>1. PICK i \in 1..N : n = new[i]  BY <1>9, <1>16, <2>3, <2>5
    <3>2. Find(u, p)' # NULL /\ Find(u, p)' = Find(t, q[i])' /\ q[i] \in Paths
      BY <1>12, <2>2, <2>5, <3>1
    <3>3. u = t /\ p = q[i]
      <4>1. PICK r \in Paths : r = q[i]  BY <3>2
      <4>2. Find(u, p)' = Find(t, r)'  BY <3>2, <4>1
      <4>3. u = t /\ p = r  BY <1>10, <2>1, <3>2, <4>2 DEF LookupInv, Unambiguous
      <4> QED  BY <4>1, <4>3
    <3>4. Find(u, p) = NULL
      <4>1. SUFFICES ASSUME Find(u, p) \in S PROVE FALSE  BY <2>3
      <4>2. PICK m \in S : m = Find(u, p)  BY <4>1
      <4>3. Find(u, p)' = m  BY <1>17, <2>1, <4>2, FindKept DEF LookupInv
      <4> QED  BY <2>2, <2>5, <4>3
    <3> QED  BY <3>3, <3>4
  <2> QED  BY <2>4, <2>5
<1>19. \A n \in S : Param(n)' = Param(n)  BY <1>9, <1>16 DEF Param
<1>20. AsDb(root_backup)' = AsDb(root_backup)
  <2>1. CASE b = NULL  BY <1>2, <1>8, <2>1 DEF AsDb
  <2>2. CASE b # NULL
    <3>1. b \in S  BY <1>16, <2>2
    <3>2. \A p \in Paths : Find(b, p) \in S \cup {NULL} /\ Find(b, p)' \in S \cup {NULL}
      BY <1>10, <1>16, <1>18, <2>2 DEF LookupInv
    <3>3. AsDb(b)' = AsDb(b)  BY <1>17, <1>19, <3>1, <3>2, TreeKept
    <3> QED  BY <1>2, <1>8, <3>3
  <2> QED  BY <2>1, <2>2
<1>21. /\ AsDb(t) = [p \in Held(t) |-> Param(Find(t, p))] /\ DOMAIN AsDb(t) = Held(t)
       /\ AsDb(t)' = [p \in Held(t)' |-> Param(Find(t, p))'] /\ AsDb(t) # NULL
  BY <1>10 DEF LookupInv
<1>22. PICK New : New = {p \in Paths : IsPrefix(p, path)} \ Held(t)  OBVIOUS
\* The new paths are the beginnings of this one that were not found.
<1>23. \A i \in 1..N : Find(t, q[i]) = NULL
  <2> TAKE i \in 1..N
  <2>1. Find(t, q[i])' \notin S \cup {NULL} /\ q[i] \in Paths
    <3>1. new[i] \notin S /\ new[i] # NULL  BY <1>9, <1>16, ConfTreeAssumption
    <3> QED  BY <1>12, <3>1
  <2> QED  BY <1>10, <1>18, <2>1
<1>24. \A p : p \in New <=> \E i \in 1..N : p = q[i]
  <2>1. ASSUME NEW i \in 1..N PROVE q[i] \in New
    <3>1. q[i] \in Paths /\ q[i] \notin Held(t)  BY <1>12, <1>23 DEF Held
    <3>2. Len(q[i]) = k + i /\ k + i \in 1..Len(path)  BY <1>13
    <3>3. q[i] = SubSeq(path, 1, Len(q[i])) /\ Len(q[i]) <= Len(path)
      BY <1>3, <1>11, <3>2
    <3>4. IsPrefix(q[i], path)  BY <3>1, <3>3, PrefixIs
    <3> QED  BY <1>22, <3>1, <3>4
  <2>2. ASSUME NEW p \in New PROVE \E i \in 1..N : p = q[i]
    <3>1. p \in Paths /\ IsPrefix(p, path) /\ Find(t, p) = NULL  BY <1>22 DEF Held
    <3>2. PICK K \in Nat : K = Len(p) /\ K # 0  BY <3>1, PathLength
    <3>3. K <= Len(path) /\ p = SubSeq(path, 1, K)  BY <3>1, <3>2, PrefixIs
    <3>4. k < K
      <4>1. SUFFICES ASSUME K <= k PROVE FALSE  BY <1>3, <3>2
      <4>2. PICK f : Walk(root, path, Len(path), f)  BY <1>3, WalkExists
      <4>3. K \in 0..Len(path) /\ k \in 0..Len(path) /\ K \in 0..k
        BY <1>3, <3>2, <3>3, <4>1
      <4>4. f[k] = base /\ f[K] = Find(t, p)
        BY <1>1, <1>7, <3>3, <4>2, <4>3, PrefixFacts DEF ConfGetNode
      <4>5. f[k] # NULL  BY <1>3, <1>10, <4>4
      <4>6. k \in Nat /\ k <= Len(path)  BY <1>3
      <4>7. Leads(f, t, path, k)
        BY <1>3, <1>7, <1>10, <4>2, <4>5, <4>6, WalkIsWay
      <4>8. f[K] \in DOMAIN heap  BY <4>3, <4>7 DEF Leads
      <4> QED  BY <1>10, <3>1, <4>4, <4>8
    <3>5. K - k \in 1..N /\ k + (K - k) = K  BY <1>3, <1>4, <3>2, <3>3, <3>4
    <3>6. q[K - k] = SubSeq(path, 1, K)  BY <1>11, <3>5
    <3> QED  BY <3>3, <3>5, <3>6
  <2> QED  BY <2>1, <2>2
<1>25. Held(t)' = Held(t) \cup New
  <2>1. Held(t)' = {p \in Paths : Find(t, p)' # NULL}  BY DEF Held
  <2>2. ASSUME NEW p \in Paths PROVE Find(t, p)' # NULL <=> p \in Held(t) \cup New
    <3>1. CASE p \in New
      <4>1. PICK i \in 1..N : p = q[i]  BY <1>24, <3>1
      <4>2. Find(t, p)' = new[i]  BY <1>12, <4>1
      <4> QED  BY <1>9, <1>10, <3>1, <4>2
    <3>2. CASE p \notin New
      <4>1. Find(t, p)' = Find(t, p)  BY <1>10, <1>18, <1>24, <3>2
      <4> QED  BY <3>2, <4>1 DEF Held
    <3> QED  BY <3>1, <3>2
  <2>3. Held(t) \cup New \subseteq Paths  BY <1>22 DEF Held
  <2> QED  BY <2>1, <2>2, <2>3
<1>26. ASSUME NEW p \in Held(t) \cup New
       PROVE  Param(Find(t, p))' =
                IF p = path THEN [val |-> v, allow_override |-> allow]
                ELSE IF p \in New THEN Db!OnTheWay ELSE AsDb(t)[p]
  <2>1. CASE p \in New
    <3>1. PICK i \in 1..N : p = q[i]  BY <1>24, <2>1
    <3>2. Find(t, p)' = new[i]  BY <1>12, <3>1
    <3>3. Param(Find(t, p))' =
            [val |-> IF i = N THEN v ELSE NULL, allow_override |-> i < N \/ allow]
      BY <1>9, <3>2 DEF Param
    <3>4. CASE i = N
      <4>1. p = path /\ ~ (i < N)  BY <1>14, <3>1, <3>4
      <4> QED  BY <3>3, <3>4, <4>1
    <3>5. CASE i # N
      <4>1. p # path /\ i < N  BY <1>15, <3>1, <3>5
      <4> QED  BY <2>1, <3>3, <3>5, <4>1 DEF Db!OnTheWay
    <3> QED  BY <3>4, <3>5
  <2>2. CASE p \notin New
    <3>1. p \in Held(t) /\ p \in Paths /\ Find(t, p) # NULL  BY <2>2 DEF Held
    <3>2. Find(t, p)' = Find(t, p) /\ Find(t, p) \in S
      <4>1. Find(t, p)' = Find(t, p)  BY <1>10, <1>18, <1>24, <2>2, <3>1
      <4> QED  BY <1>10, <1>16, <3>1, <4>1 DEF LookupInv
    <3>3. PICK n \in S : n = Find(t, p) /\ n = Find(t, p)'  BY <3>2
    <3>4. Param(Find(t, p))' = Param(n)'  BY <3>3 DEF Param
    <3>5. AsDb(t)[p] = Param(n)  BY <1>21, <3>1, <3>3
    <3>6. p # path  BY <1>9, <1>14, <1>24, <2>2
    <3> QED  BY <1>19, <2>2, <3>4, <3>5, <3>6
  <2> QED  BY <2>1, <2>2
<1>27. AsDb(t)' = [p \in DOMAIN AsDb(t) \cup New |->
          IF p = path THEN [val |-> v, allow_override |-> allow]
          ELSE IF p \in New THEN Db!OnTheWay ELSE AsDb(t)[p]]
  BY <1>21, <1>25, <1>26
<1>28. New = {p \in Paths : IsPrefix(p, path)} \ DOMAIN AsDb(t)  BY <1>21, <1>22
<1>29. AsDb(root) = AsDb(t) /\ AsDb(root)' = AsDb(t)'  BY <1>2, <1>7
<1>30. path \notin DOMAIN AsDb(t)  BY <1>9, <1>14, <1>21, <1>23 DEF Held
<1> QED  BY <1>2, <1>20, <1>21, <1>27, <1>28, <1>29, <1>30
         DEF Db!Set, Db!IsPrefix, IsPrefix

-----------------------------------------------------------------------------
LEMMA DbStart == Init => Db!Init
BY DEF Init, Db!Init, AsDb

LEMMA DbStep == ConfInv /\ ConfInv' /\ [Next]_vars => [Db!Next]_(Db!vars)
<1> SUFFICES ASSUME ConfInv, ConfInv', [Next]_vars PROVE [Db!Next]_(Db!vars)  OBVIOUS
<1>1. LookupInv  BY LookupsRight
<1>2. ConfInv' => LookupInv'  BY LookupsRight, PTL
<1>3. LookupInv'  BY <1>2
<1>4. CASE UNCHANGED vars
  <2>1. heap' = heap /\ root' = root /\ root_backup' = root_backup /\ last' = last
    BY <1>4 DEF vars
  <2>2. PICK t \in DOMAIN heap \cup {NULL} : t = root  BY <1>1, RootsFacts
  <2>3. PICK b \in DOMAIN heap \cup {NULL} : b = root_backup  BY <1>1, RootsFacts
  <2>4. AsDb(t)' = AsDb(t) /\ AsDb(b)' = AsDb(b)  BY <1>1, <1>3, <2>1, SameHeap
  <2>5. AsDb(root)' = AsDb(root) /\ AsDb(root_backup)' = AsDb(root_backup)
    BY <2>1, <2>2, <2>3, <2>4
  <2> QED  BY <2>1, <2>5 DEF Db!vars
<1>5. CASE ConfInit  BY <1>1, <1>3, <1>5, StartsDb DEF Db!Next
<1>6. CASE ConfDeInit  BY <1>1, <1>3, <1>6, EndsDb DEF Db!Next
<1>7. CASE ConfCreateContextBackup  BY <1>1, <1>3, <1>7, SavesDb DEF Db!Next
<1>8. CASE ConfRestoreContextBackup  BY <1>1, <1>3, <1>8, RestoresDb DEF Db!Next
<1>9. ASSUME NEW p \in Paths, ConfGet(p) PROVE Db!Next
  BY <1>1, <1>3, <1>9, GetsDb DEF Db!Next
<1>10. ASSUME NEW p \in Paths, ConfRemove(p) PROVE Db!Next
  BY <1>1, <1>3, <1>10, DropsDb DEF Db!Next
<1>11. ASSUME NEW p \in Paths, NEW v \in Values, NEW a \in BOOLEAN, ConfSet(p, v, a)
       PROVE  Db!Next
  <2>1. Db!Set(p, v, a)  BY <1>1, <1>3, <1>11, SetsOldDb, SetsNewDb DEF ConfSet
  <2> QED  BY <2>1 DEF Db!Next
<1> QED  BY <1>4, <1>5, <1>6, <1>7, <1>8, <1>9, <1>10, <1>11 DEF Next

\* The tree of conf.c is a database of named parameters: ConfSet, ConfGet,
\* ConfRemove and the context calls change what their path says and nothing
\* else, and answer what that database would.
THEOREM Refinement == Spec => ImplementsDb
<1> QED  BY DbStart, DbStep, InvariantHolds, PTL DEF Spec, ImplementsDb, Db!Spec

-----------------------------------------------------------------------------
(* The loader *)

\* A record with the fields of a node, and one with those of a collection.
IsNode(r) ==
    r = [name |-> r.name, val |-> r.val, allow_override |-> r.allow_override,
         is_seq |-> r.is_seq, parent |-> r.parent, kids |-> r.kids]

IsCollection(c) ==
    c = [kind |-> c.kind, path |-> c.path, key |-> c.key, keys |-> c.keys,
         items |-> c.items]

\* A node of a tree that a file is loaded into.  What the loader makes may be
\* set again, so a node that is not is none that it calls by another name.
LoadNode(n) ==
    /\ IsNode(heap[n]) /\ heap[n].kids \in Seq(Nodes)
    /\ heap[n].allow_override \in BOOLEAN /\ heap[n].is_seq \in BOOLEAN
    /\ heap[n].is_seq => heap[n].allow_override

LoadTree ==
    /\ root_backup = NULL /\ DOMAIN heap \subseteq Nodes
    /\ NoDangling /\ Reached
    /\ \A n \in DOMAIN heap : LoadNode(n)

FrameType == [parent : Nodes, node : Nodes, inseq : BOOLEAN,
              state : {CONF_KEY, CONF_VAL}, seq_idx : Nat]

FramesAlive ==
    /\ stack \in Seq(FrameType)
    /\ \A i \in DOMAIN stack :
          stack[i].parent \in DOMAIN heap /\ stack[i].node \in DOMAIN heap

\* The stream, then the document, then the collections with a frame each.
FramesFollow(outer) ==
    /\ open[1].kind = "stream"
    /\ outer = 1 => Len(open) = 1
    /\ outer = 2 => Len(open) >= 2 /\ open[2].kind = "doc"
    /\ \A i \in DOMAIN open : i > outer => open[i].kind \in {"map", "seq"}
    /\ Len(stack) + outer = Len(open) + 1
    /\ \A i \in 2..Len(stack) :
          stack[i].inseq = (open[i + outer - 1].kind = "seq")

OpenInv ==
    stack # <<>> =>
        /\ open \in Seq(ToSet(open)) /\ Len(open) # 0
        /\ \A i \in DOMAIN open : IsCollection(open[i])
        /\ \E outer \in {1, 2} : FramesFollow(outer)

Preparing == stack = <<>> /\ result = NULL

LoaderInv ==
    /\ LoadTree /\ FramesAlive /\ OpenInv
    /\ result # NULL => stack = <<>>
    /\ Preparing => ConfInv /\ \A n \in DOMAIN heap : ~ heap[n].is_seq

-----------------------------------------------------------------------------
\* Sequences of anything.
LEMMA AnySeq ==
  ASSUME NEW s, s \in Seq(ToSet(s))
  PROVE  /\ Len(s) \in Nat /\ DOMAIN s = 1..Len(s)
         /\ s # <<>> <=> Len(s) # 0
         /\ \A i \in 1..Len(s) : s[i] \in ToSet(s)
BY DEF ToSet

LEMMA AnyUpdate ==
  ASSUME NEW s, s \in Seq(ToSet(s)), NEW t, DOMAIN t = DOMAIN s, t = [i \in DOMAIN s |-> t[i]]
  PROVE  t \in Seq(ToSet(t)) /\ Len(t) = Len(s)
<1>1. PICK n \in Nat : n = Len(s) /\ DOMAIN s = 1..n  OBVIOUS
<1>2. \A i \in 1..n : t[i] \in ToSet(t)  BY <1>1 DEF ToSet
<1>3. t \in [1..n -> ToSet(t)]  BY <1>1, <1>2
<1>4. t \in Seq(ToSet(t))  BY <1>3, SeqDef
<1> QED  BY <1>1, <1>4

LEMMA AnyAppend ==
  ASSUME NEW s, s \in Seq(ToSet(s)), NEW e
  PROVE  LET t == Append(s, e)
         IN  /\ t \in Seq(ToSet(t)) /\ Len(t) = Len(s) + 1 /\ t[Len(s) + 1] = e
             /\ \A i \in 1..Len(s) : t[i] = s[i]
<1>0. PICK t : t = Append(s, e)  OBVIOUS
<1>1. PICK S : S = ToSet(s) \cup {e}  OBVIOUS
<1>2. s \in Seq(S) /\ e \in S
  <2>1. ToSet(s) \subseteq S  BY <1>1
  <2> QED  BY <1>1, <2>1, SeqMonotonic
<1>3. /\ t \in Seq(S) /\ Len(t) = Len(s) + 1 /\ t[Len(s) + 1] = e
      /\ \A i \in 1..Len(s) : t[i] = s[i]
  BY <1>0, <1>2, AppendProperties
<1>4. t \in Seq(ToSet(t))
  <2>1. PICK n \in Nat : t \in [1..n -> S]
    <3>1. t \in Seq(S)  BY <1>3
    <3>2. Seq(S) = UNION {[1..n -> S] : n \in Nat}  BY SeqDef
    <3> QED  BY <3>1, <3>2, Zenon
  <2>2. DOMAIN t = 1..n /\ t = [i \in 1..n |-> t[i]]  BY <2>1
  <2>3. \A i \in 1..n : t[i] \in ToSet(t)  BY <2>2 DEF ToSet
  <2>4. t \in [1..n -> ToSet(t)]  BY <2>2, <2>3
  <2> QED  BY <2>4, SeqDef
<1> QED  BY <1>0, <1>3, <1>4

LEMMA AnyFront ==
  ASSUME NEW s, s \in Seq(ToSet(s)), Len(s) # 0
  PROVE  LET t == Front(s)
         IN  /\ t \in Seq(ToSet(t)) /\ Len(t) = Len(s) - 1
             /\ \A i \in 1..(Len(s) - 1) : t[i] = s[i]
<1>0. PICK t : t = Front(s)  OBVIOUS
<1>1. PICK n \in Nat : n = Len(s) /\ DOMAIN s = 1..n /\ n # 0  OBVIOUS
<1>2. /\ t \in Seq(ToSet(s)) /\ Len(t) = n - 1
      /\ \A i \in 1..(n - 1) : t[i] = s[i]
  BY <1>0, <1>1 DEF Front
<1>3. t \in Seq(ToSet(t))
  <2>1. DOMAIN t = 1..Len(t) /\ Len(t) \in Nat /\ t = [i \in 1..Len(t) |-> t[i]]  BY <1>2
  <2>2. \A i \in 1..Len(t) : t[i] \in ToSet(t)  BY <2>1 DEF ToSet
  <2>3. t \in [1..Len(t) -> ToSet(t)]  BY <2>1, <2>2
  <2> QED  BY <2>1, <2>3, SeqDef
<1> QED  BY <1>0, <1>1, <1>2, <1>3

-----------------------------------------------------------------------------
\* What a step adds below parent and leaves alone elsewhere.
Grows(parent, new) ==
    /\ parent \in DOMAIN heap /\ new \subseteq Nodes \ DOMAIN heap
    /\ DOMAIN heap' = DOMAIN heap \cup new
    /\ \A n \in DOMAIN heap' : LoadNode(n)'
    /\ \A n \in DOMAIN heap :
          /\ ToSet(heap'[n].kids) = ToSet(heap[n].kids) \cup (IF n = parent THEN new ELSE {})
          /\ ~ heap[n].allow_override => heap'[n].val = heap[n].val
    /\ \A n \in new : ToSet(heap'[n].kids) = {}

LEMMA GrowthKeeps ==
  ASSUME LoadTree, NEW parent, NEW new, Grows(parent, new),
         root' = root, root_backup' = root_backup
  PROVE  LoadTree'
<1>1. /\ DOMAIN heap' = DOMAIN heap \cup new /\ parent \in DOMAIN heap
      /\ new \subseteq Nodes \ DOMAIN heap
      /\ \A n \in DOMAIN heap :
            ToSet(heap'[n].kids) = ToSet(heap[n].kids) \cup (IF n = parent THEN new ELSE {})
      /\ \A n \in new : ToSet(heap'[n].kids) = {}
  BY DEF Grows
<1>2. NoDangling'
  <2>1. \A n \in DOMAIN heap : ToSet(heap[n].kids) \subseteq DOMAIN heap
    BY DEF LoadTree, NoDangling
  <2>2. \A n \in DOMAIN heap' : ToSet(heap'[n].kids) \subseteq DOMAIN heap'  BY <1>1, <2>1
  <2>3. {root, root_backup} \subseteq DOMAIN heap \cup {NULL}  BY DEF LoadTree, NoDangling
  <2> QED  BY <1>1, <2>2, <2>3 DEF NoDangling
<1>3. Reached'
  <2> SUFFICES ASSUME NEW S \in SUBSET DOMAIN heap', Roots' \subseteq S, Closed(S)'
               PROVE  DOMAIN heap' \subseteq S
    BY DEF Reached
  <2> DEFINE T == S \ new
  <2>1. T \in SUBSET DOMAIN heap /\ Roots \subseteq T
    <3>1. Roots' = Roots  BY DEF Roots
    <3>2. Roots \subseteq DOMAIN heap  BY DEF Roots, LoadTree, NoDangling
    <3> QED  BY <1>1, <3>1, <3>2
  <2>2. Closed(T)
    <3>1. \A n \in DOMAIN heap : ToSet(heap[n].kids) \subseteq DOMAIN heap
      BY DEF LoadTree, NoDangling
    <3>2. \A m \in T : ToSet(heap'[m].kids) \subseteq S  BY DEF Closed
    <3> QED  BY <1>1, <2>1, <3>1, <3>2 DEF Closed
  <2>3. DOMAIN heap \subseteq T
    <3> HIDE DEF T
    <3> QED  BY <2>1, <2>2 DEF LoadTree, Reached
  <2>4. parent \in S  BY <1>1, <2>3
  <2>5. new \subseteq S
    <3>1. ToSet(heap'[parent].kids) \subseteq S  BY <2>4 DEF Closed
    <3> QED  BY <1>1, <3>1
  <2> QED  BY <1>1, <2>3, <2>5
<1>4. DOMAIN heap' \subseteq Nodes  BY <1>1 DEF LoadTree
<1>5. \A n \in DOMAIN heap' : LoadNode(n)'  BY DEF Grows
<1> QED  BY <1>2, <1>3, <1>4, <1>5 DEF LoadTree

\* A new last child.
LEMMA AddedGrows ==
  ASSUME LoadTree, NEW parent \in DOMAIN heap, NEW n \in Nodes \ DOMAIN heap, NEW rec,
         IsNode(rec), rec.kids = <<>>, rec.allow_override = TRUE, rec.is_seq \in BOOLEAN,
         NEW v, ~ heap[parent].allow_override => v = heap[parent].val,
         \/ heap' = Added(parent, n, rec) /\ v = heap[parent].val
         \/ heap' = [Added(parent, n, rec) EXCEPT ![parent].val = v]
  PROVE  Grows(parent, {n})
<1>1. DOMAIN heap' = DOMAIN heap \cup {n} /\ n # parent  BY DEF Added
<1>2. heap'[n] = rec  BY <1>1 DEF Added
<1>3. \A m \in DOMAIN heap : m # parent => heap'[m] = heap[m]  BY DEF Added
<1>4. LoadNode(parent)  BY DEF LoadTree
<1>5. heap'[parent] = [heap[parent] EXCEPT !.val = v, !.kids = Append(heap[parent].kids, n)]
  <2>1. PICK r : r = heap[parent]  OBVIOUS
  <2>2. r = [name |-> r.name, val |-> r.val, allow_override |-> r.allow_override,
             is_seq |-> r.is_seq, parent |-> r.parent, kids |-> r.kids]
    BY <1>4, <2>1 DEF LoadNode, IsNode
  <2>3. Added(parent, n, rec)[parent] = [r EXCEPT !.kids = Append(r.kids, n)]
    BY <1>1, <2>1 DEF Added
  <2>4. CASE heap' = Added(parent, n, rec) /\ v = r.val
    BY <2>1, <2>2, <2>3, <2>4
  <2>5. CASE heap' = [Added(parent, n, rec) EXCEPT ![parent].val = v]
    <3>1. parent \in DOMAIN Added(parent, n, rec)  BY DEF Added
    <3>2. heap'[parent] = [Added(parent, n, rec)[parent] EXCEPT !.val = v]  BY <2>5, <3>1
    <3> QED  BY <2>1, <2>2, <2>3, <3>2
  <2> QED  BY <2>1, <2>4, <2>5
<1>6. /\ IsNode(heap'[parent]) /\ heap'[parent].kids = Append(heap[parent].kids, n)
      /\ heap'[parent].val = v
      /\ heap'[parent].allow_override = heap[parent].allow_override
      /\ heap'[parent].is_seq = heap[parent].is_seq
  BY <1>4, <1>5 DEF LoadNode, IsNode
<1>7. /\ heap'[parent].kids \in Seq(Nodes)
      /\ ToSet(heap'[parent].kids) = ToSet(heap[parent].kids) \cup {n}
  <2>1. PICK s \in Seq(Nodes) : s = heap[parent].kids  BY <1>4 DEF LoadNode
  <2>2. /\ Append(s, n) \in Seq(Nodes) /\ Len(Append(s, n)) = Len(s) + 1
        /\ Append(s, n)[Len(s) + 1] = n
        /\ \A i \in 1..Len(s) : Append(s, n)[i] = s[i]
    BY AppendProperties
  <2>3. PICK t \in Seq(Nodes) : t = Append(s, n)  BY <2>2
  <2>4. ToSet(t) = ToSet(s) \cup {n}
    <3>1. /\ Len(s) \in Nat /\ DOMAIN s = 1..Len(s) /\ DOMAIN t = 1..(Len(s) + 1)
          /\ t[Len(s) + 1] = n /\ \A i \in 1..Len(s) : t[i] = s[i]
      BY <2>2, <2>3
    <3>2. PICK L \in Nat : L = Len(s)  BY <3>1
    <3>3. \A i \in 1..(L + 1) : i = L + 1 \/ i \in 1..L  OBVIOUS
    <3>4. \A i \in 1..L : i \in 1..(L + 1) /\ L + 1 \in 1..(L + 1)  OBVIOUS
    <3>5. L + 1 \in 1..(L + 1)  OBVIOUS
    <3> QED  BY <3>1, <3>2, <3>3, <3>4, <3>5 DEF ToSet
  <2> QED  BY <1>6, <2>1, <2>3, <2>4
<1>8. LoadNode(parent)'  BY <1>4, <1>6, <1>7 DEF LoadNode
<1>9. LoadNode(n)' /\ ToSet(heap'[n].kids) = {}
  <2>1. <<>> \in Seq(Nodes) /\ ToSet(<<>>) = {}  BY DEF ToSet
  <2> QED  BY <1>2, <2>1 DEF LoadNode
<1>10. \A m \in DOMAIN heap : m # parent => LoadNode(m)'
  BY <1>3 DEF LoadTree, LoadNode
<1>11. \A m \in DOMAIN heap' : LoadNode(m)'  BY <1>1, <1>8, <1>9, <1>10
<1> QED  BY <1>1, <1>3, <1>6, <1>7, <1>9, <1>11 DEF Grows

\* A new value.
LEMMA ValueGrows ==
  ASSUME LoadTree, NEW node \in DOMAIN heap, NEW v,
         ~ heap[node].allow_override => v = heap[node].val,
         heap' = [heap EXCEPT ![node].val = v]
  PROVE  Grows(node, {})
<1>1. DOMAIN heap' = DOMAIN heap /\ \A m \in DOMAIN heap : m # node => heap'[m] = heap[m]
  OBVIOUS
<1>2. LoadNode(node)  BY DEF LoadTree
<1>3. heap'[node] = [heap[node] EXCEPT !.val = v]  OBVIOUS
<1>4. /\ IsNode(heap'[node]) /\ heap'[node].val = v
      /\ heap'[node].kids = heap[node].kids
      /\ heap'[node].allow_override = heap[node].allow_override
      /\ heap'[node].is_seq = heap[node].is_seq
  BY <1>2, <1>3 DEF LoadNode, IsNode
<1>5. \A m \in DOMAIN heap : LoadNode(m)'
  BY <1>1, <1>2, <1>4 DEF LoadTree, LoadNode
<1>6. \A m \in DOMAIN heap : heap'[m].kids = heap[m].kids  BY <1>1, <1>4
<1> QED  BY <1>1, <1>4, <1>5, <1>6 DEF Grows

LEMMA IsSequence ==
  ASSUME NEW F, NEW n \in Nat, NEW s \in [1..n -> F] PROVE s \in Seq(F) /\ Len(s) = n
OBVIOUS

\* A child that is found is in the list.
LEMMA LookupListed ==
  ASSUME NEW n \in DOMAIN heap, heap[n].kids \in Seq(Nodes), NEW name
  PROVE  \/ ConfNodeLookupChild(n, name) = NULL
         \/ ConfNodeLookupChild(n, name) \in ToSet(heap[n].kids)
<1> DEFINE kids == heap[n].kids
           hits == {i \in DOMAIN kids : heap[kids[i]].name = name}
<1>1. CASE hits = {}  BY <1>1 DEF ConfNodeLookupChild
<1>2. CASE hits # {}
  <2>1. hits \in SUBSET Nat  OBVIOUS
  <2>2. \E i \in hits : \A j \in hits : i <= j
    <3> HIDE DEF hits
    <3> QED  BY <1>2, <2>1, Least
  <2> DEFINE i == CHOOSE i \in hits : \A j \in hits : i <= j
  <2>3. i \in hits  BY <2>2
  <2>4. ConfNodeLookupChild(n, name) = kids[i]  BY <1>2 DEF ConfNodeLookupChild
  <2> HIDE DEF i
  <2> QED  BY <2>3, <2>4 DEF ToSet
<1> QED  BY <1>1, <1>2

LEMMA TopFacts ==
  ASSUME FramesAlive, stack # <<>>
  PROVE  /\ Len(stack) \in Nat /\ Len(stack) # 0 /\ DOMAIN stack = 1..Len(stack)
         /\ Len(stack) \in DOMAIN stack
         /\ Top \in FrameType /\ Top.parent \in DOMAIN heap /\ Top.node \in DOMAIN heap
         /\ Top.seq_idx \in Nat /\ Top.inseq \in BOOLEAN
<1>1. stack \in Seq(FrameType)  BY DEF FramesAlive
<1>2. Len(stack) \in Nat /\ DOMAIN stack = 1..Len(stack) /\ Len(stack) # 0  BY <1>1, EmptySeq
<1>3. Len(stack) \in DOMAIN stack  BY <1>2
<1>4. Top \in FrameType  BY <1>1, <1>3 DEF Top
<1> QED  BY <1>2, <1>3, <1>4 DEF FramesAlive, Top, FrameType

\* The frames of a stack that another one has the same calls as.
SameCalls(st) ==
    /\ st \in Seq(FrameType) /\ Len(st) = Len(stack)
    /\ \A i \in 1..Len(stack) :
          /\ st[i].inseq = stack[i].inseq
          /\ st[i].parent \in DOMAIN heap' /\ st[i].node \in DOMAIN heap'

LEMMA TopChanges ==
  ASSUME FramesAlive, stack # <<>>, DOMAIN heap \subseteq DOMAIN heap',
         NEW frame \in FrameType, frame.inseq = Top.inseq,
         frame.parent \in DOMAIN heap', frame.node \in DOMAIN heap',
         NEW st, st = [stack EXCEPT ![Len(stack)] = frame]
  PROVE  SameCalls(st)
<1>1. PICK L \in Nat : L = Len(stack) /\ L # 0 /\ DOMAIN stack = 1..L /\ L \in DOMAIN stack
  BY TopFacts
<1>2. \A i \in 1..L : /\ stack[i] \in FrameType
                      /\ stack[i].parent \in DOMAIN heap /\ stack[i].node \in DOMAIN heap
  BY <1>1 DEF FramesAlive
<1>3. \A i \in 1..L : st[i] = IF i = L THEN frame ELSE stack[i]  BY <1>1
<1>4. DOMAIN st = 1..L /\ st = [i \in 1..L |-> st[i]]  BY <1>1
<1>5. \A i \in 1..L : st[i] \in FrameType  BY <1>2, <1>3
<1>7. st \in [1..L -> FrameType]  BY <1>4, <1>5
<1>8. st \in Seq(FrameType) /\ Len(st) = L  BY ONLY <1>7, IsSequence
<1> QED  BY <1>1, <1>2, <1>3, <1>8 DEF SameCalls, Top

LEMMA SameStack ==
  ASSUME FramesAlive, DOMAIN heap \subseteq DOMAIN heap' PROVE SameCalls(stack)
<1>1. stack \in Seq(FrameType) /\ DOMAIN stack = 1..Len(stack)  BY DEF FramesAlive
<1> QED  BY <1>1 DEF FramesAlive, SameCalls

LEMMA SameCallsAlive ==
  ASSUME NEW st, SameCalls(st), stack' = st PROVE FramesAlive'
<1>1. st \in Seq(FrameType) /\ Len(st) = Len(stack)  BY DEF SameCalls
<1>2. DOMAIN st = 1..Len(stack)  BY <1>1
<1> QED  BY <1>1, <1>2 DEF SameCalls, FramesAlive

\* A frame more.
LEMMA PushedAlive ==
  ASSUME NEW st, SameCalls(st), NEW n \in Nodes, n \in DOMAIN heap', NEW b \in BOOLEAN,
         stack' = Append(st, Frame(n, b))
  PROVE  /\ FramesAlive' /\ Len(stack') = Len(stack) + 1 /\ Len(stack) \in Nat
         /\ stack'[Len(stack) + 1].inseq = b
         /\ \A i \in 1..Len(stack) : stack'[i].inseq = stack[i].inseq
<1>1. PICK f : f = Frame(n, b)  OBVIOUS
<1>2. f \in FrameType /\ f.parent = n /\ f.node = n /\ f.inseq = b
  BY <1>1 DEF Frame, FrameType
<1>3. st \in Seq(FrameType) /\ Len(st) = Len(stack)  BY DEF SameCalls
<1>4. /\ stack' \in Seq(FrameType) /\ Len(stack') = Len(st) + 1
      /\ stack'[Len(st) + 1] = f /\ \A i \in 1..Len(st) : stack'[i] = st[i]
  BY <1>1, <1>2, <1>3, AppendProperties
<1>5. PICK L \in Nat : L = Len(stack)  BY <1>3
<1>6. DOMAIN stack' = 1..(L + 1)  BY <1>3, <1>4, <1>5
<1>7. \A i \in 1..(L + 1) : i = L + 1 \/ i \in 1..L  OBVIOUS
<1>8. \A i \in 1..L : /\ stack'[i].inseq = stack[i].inseq
                      /\ stack'[i].parent \in DOMAIN heap' /\ stack'[i].node \in DOMAIN heap'
  BY <1>3, <1>4, <1>5 DEF SameCalls
<1>9. \A i \in DOMAIN stack' : stack'[i].parent \in DOMAIN heap' /\ stack'[i].node \in DOMAIN heap'
  BY <1>2, <1>3, <1>4, <1>5, <1>6, <1>7, <1>8
<1> QED  BY <1>2, <1>3, <1>4, <1>5, <1>8, <1>9 DEF FramesAlive

\* A frame less.
LEMMA PoppedAlive ==
  ASSUME FramesAlive, Len(stack) >= 2, heap' = heap, stack' = Returned(Front(stack))
  PROVE  /\ FramesAlive' /\ Len(stack') = Len(stack) - 1 /\ Len(stack) \in Nat
         /\ \A i \in 1..(Len(stack) - 1) : stack'[i].inseq = stack[i].inseq
<1>1. PICK L \in Nat : L = Len(stack) /\ DOMAIN stack = 1..L  BY DEF FramesAlive
<1>2. PICK fr : fr = Front(stack)  OBVIOUS
<1>3. /\ fr \in Seq(FrameType) /\ Len(fr) = L - 1 /\ L >= 2
      /\ \A i \in 1..(L - 1) : fr[i] = stack[i]
  BY <1>1, <1>2 DEF Front, FramesAlive
<1>4. PICK K \in Nat : K = L - 1 /\ K \in 1..K  BY <1>3
<1>5. DOMAIN fr = 1..K /\ \A i \in 1..K : fr[i] \in FrameType /\ fr[i] = stack[i]
  BY <1>3, <1>4
<1>6. stack' = [fr EXCEPT ![K].state = CONF_KEY]  BY <1>2, <1>3, <1>4 DEF Returned
<1>7. \A i \in 1..K : /\ stack'[i] \in FrameType /\ stack'[i].inseq = stack[i].inseq
                      /\ stack'[i].parent = stack[i].parent /\ stack'[i].node = stack[i].node
  <2> TAKE i \in 1..K
  <2>1. CASE i # K  BY <1>5, <1>6, <2>1
  <2>2. CASE i = K
    <3>1. stack'[i] = [fr[i] EXCEPT !.state = CONF_KEY]  BY <1>5, <1>6, <2>2
    <3> QED  BY <1>5, <3>1 DEF FrameType
  <2> QED  BY <2>1, <2>2
<1>8. DOMAIN stack' = 1..K /\ stack' = [i \in 1..K |-> stack'[i]]  BY <1>5, <1>6
<1>9. stack' \in Seq(FrameType) /\ Len(stack') = K  BY <1>7, <1>8
<1>10. \A i \in 1..K : i \in DOMAIN stack  BY <1>1, <1>4
<1>11. \A i \in DOMAIN stack' : stack'[i].parent \in DOMAIN heap' /\ stack'[i].node \in DOMAIN heap'
  BY <1>7, <1>8, <1>10 DEF FramesAlive
<1> QED  BY <1>1, <1>4, <1>7, <1>9, <1>11 DEF FramesAlive

-----------------------------------------------------------------------------
\* libyaml's collections, with other marks.
SameKinds(new) ==
    /\ new \in Seq(ToSet(new)) /\ Len(new) = Len(open)
    /\ \A i \in 1..Len(open) : IsCollection(new[i]) /\ new[i].kind = open[i].kind

LEMMA OpenFacts ==
  ASSUME OpenInv, stack # <<>>
  PROVE  /\ open \in Seq(ToSet(open)) /\ Len(open) \in Nat /\ Len(open) # 0
         /\ DOMAIN open = 1..Len(open) /\ Len(open) \in 1..Len(open)
         /\ \A i \in 1..Len(open) : IsCollection(open[i])
         /\ \E outer \in {1, 2} : FramesFollow(outer)
<1>1. open \in Seq(ToSet(open)) /\ Len(open) # 0  BY DEF OpenInv
<1>2. Len(open) \in Nat /\ DOMAIN open = 1..Len(open)  BY <1>1, AnySeq
<1> QED  BY <1>1, <1>2 DEF OpenInv

LEMMA MarksChange ==
  ASSUME OpenInv, stack # <<>>, NEW new, DOMAIN new = DOMAIN open,
         new = [i \in DOMAIN open |-> new[i]],
         \A i \in 1..Len(open) : IsCollection(new[i]) /\ new[i].kind = open[i].kind
  PROVE  SameKinds(new)
<1>1. open \in Seq(ToSet(open))  BY OpenFacts
<1>2. new \in Seq(ToSet(new)) /\ Len(new) = Len(open)  BY <1>1, AnyUpdate
<1> QED  BY <1>2 DEF SameKinds

LEMMA NodeSeenMarks ==
  ASSUME OpenInv, stack # <<>> PROVE SameKinds(NodeSeen)
<1>1. PICK L \in Nat : L = Len(open) /\ DOMAIN open = 1..L /\ L \in 1..L  BY OpenFacts
<1>2. \A i \in 1..L : IsCollection(open[i])  BY <1>1, OpenFacts
<1>3. PICK new : new = NodeSeen  OBVIOUS
<1>4. DOMAIN new = DOMAIN open /\ new = [i \in DOMAIN open |-> new[i]]
  BY <1>3 DEF NodeSeen
<1>5. \A i \in 1..L : IsCollection(new[i]) /\ new[i].kind = open[i].kind
  <2> TAKE i \in 1..L
  <2>1. CASE i # L  BY <1>1, <1>2, <1>3, <2>1 DEF NodeSeen
  <2>2. CASE i = L
    <3>1. PICK key : key = Nameless  OBVIOUS
    <3>2. CASE AtKey
      <4>1. new[i] = [open[i] EXCEPT !.key = key]
        BY <1>1, <1>2, <1>3, <2>2, <3>1, <3>2 DEF NodeSeen, IsCollection
      <4> QED  BY <1>2, <4>1 DEF IsCollection
    <3>3. CASE ~ AtKey
      <4>1. new[i] = [open[i] EXCEPT !.key = <<>>, !.items = open[i].items + 1]
        BY <1>1, <1>2, <1>3, <2>2, <3>3 DEF NodeSeen, IsCollection
      <4> QED  BY <1>2, <4>1 DEF IsCollection
    <3> QED  BY <3>2, <3>3
  <2> QED  BY <2>1, <2>2
<1> QED  BY <1>1, <1>3, <1>4, <1>5, MarksChange

\* What the innermost collection says of the ones around it.
LEMMA WhichOuter ==
  ASSUME OpenInv, stack # <<>>, NEW outer \in {1, 2}, FramesFollow(outer)
  PROVE  /\ Here.kind = "stream" => outer = 1 /\ Len(open) = 1
         /\ Here.kind = "doc" => outer = 2 /\ Len(open) = 2
         /\ Here.kind \in {"map", "seq"} => outer = 2 /\ Len(open) >= 3
<1>1. PICK L \in Nat : L = Len(open) /\ DOMAIN open = 1..L /\ L \in 1..L /\ L # 0
  BY OpenFacts
<1>2. Here.kind = open[L].kind  BY <1>1 DEF Here
<1>3. CASE outer = 1  BY <1>1, <1>2, <1>3 DEF FramesFollow
<1>4. CASE outer = 2
  <2>1. L = 2 \/ (L > 2 /\ open[L].kind \in {"map", "seq"})
    BY <1>1, <1>4 DEF FramesFollow
  <2>2. L = 2 => open[L].kind = "doc"  BY <1>1, <1>4 DEF FramesFollow
  <2> QED  BY <1>1, <1>2, <1>4, <2>1, <2>2
<1> QED  BY <1>3, <1>4

\* Nothing is opened or closed.
LEMMA MarksFollow ==
  ASSUME OpenInv, stack # <<>>, NEW st, SameCalls(st), stack' = st, SameKinds(open')
  PROVE  OpenInv'
<1>1. PICK L \in Nat : L = Len(open) /\ DOMAIN open = 1..L /\ L # 0  BY OpenFacts
<1>2. PICK outer \in {1, 2} : FramesFollow(outer)  BY OpenFacts
<1>3. /\ open' \in Seq(ToSet(open')) /\ Len(open') = L
      /\ \A i \in 1..L : IsCollection(open'[i]) /\ open'[i].kind = open[i].kind
  BY <1>1 DEF SameKinds
<1>4. DOMAIN open' = 1..L  BY <1>1, <1>3, AnySeq
<1>5. /\ Len(stack') = Len(stack) /\ Len(stack) \in Nat
      /\ \A i \in 1..Len(stack) : stack'[i].inseq = stack[i].inseq
  BY DEF SameCalls
<1>6. FramesFollow(outer)'
  <2>1. open'[1].kind = "stream"  BY <1>1, <1>2, <1>3 DEF FramesFollow
  <2>2. outer = 1 => L = 1  BY <1>1, <1>2 DEF FramesFollow
  <2>3. outer = 2 => L >= 2 /\ open'[2].kind = "doc"  BY <1>1, <1>2, <1>3 DEF FramesFollow
  <2>4. \A i \in 1..L : i > outer => open'[i].kind \in {"map", "seq"}
    BY <1>1, <1>2, <1>3 DEF FramesFollow
  <2>5. Len(stack) + outer = L + 1  BY <1>1, <1>2 DEF FramesFollow
  <2>6. \A i \in 2..Len(stack) : i \in 1..Len(stack) /\ i + outer - 1 \in 1..L
    BY <1>1, <1>5, <2>5
  <2>7. \A i \in 2..Len(stack) : stack'[i].inseq = (open'[i + outer - 1].kind = "seq")
    <3> TAKE i \in 2..Len(stack)
    <3>1. stack[i].inseq = (open[i + outer - 1].kind = "seq")  BY <1>2 DEF FramesFollow
    <3>2. stack'[i].inseq = stack[i].inseq  BY <1>5, <2>6
    <3>3. open'[i + outer - 1].kind = open[i + outer - 1].kind  BY <1>3, <2>6
    <3> QED  BY <3>1, <3>2, <3>3
  <2>8. /\ outer = 1 => Len(open') = 1
        /\ outer = 2 => Len(open') >= 2
        /\ Len(stack') + outer = Len(open') + 1
    BY <1>3, <1>5, <2>2, <2>3, <2>5
  <2>9. \A i \in DOMAIN open' : i > outer => open'[i].kind \in {"map", "seq"}
    BY <1>4, <2>4
  <2>10. \A i \in 2..Len(stack') : stack'[i].inseq = (open'[i + outer - 1].kind = "seq")
    BY <1>5, <2>7
  <2> QED  BY <2>1, <2>3, <2>8, <2>9, <2>10, Zenon DEF FramesFollow
<1> QED  BY <1>1, <1>2, <1>3, <1>4, <1>6 DEF OpenInv

\* A collection begins, and a call for it.
LEMMA PushFollows ==
  ASSUME OpenInv, stack # <<>>, Here.kind \in {"map", "seq", "doc"},
         NEW new, SameKinds(new), NEW kind \in {"map", "seq"}, NEW path,
         open' = Append(new, Collection(kind, path)),
         Len(stack) \in Nat, Len(stack') = Len(stack) + 1,
         stack'[Len(stack) + 1].inseq = (kind = "seq"),
         \A i \in 1..Len(stack) : stack'[i].inseq = stack[i].inseq
  PROVE  OpenInv'
<1>1. PICK L \in Nat : L = Len(open) /\ DOMAIN open = 1..L /\ L # 0  BY OpenFacts
<1>2. PICK K \in Nat : K = Len(stack)  OBVIOUS
<1>3. FramesFollow(2) /\ L >= 2  BY <1>1, OpenFacts, WhichOuter
<1>4. /\ open[1].kind = "stream" /\ open[2].kind = "doc" /\ K = L - 1
      /\ \A i \in 1..L : i > 2 => open[i].kind \in {"map", "seq"}
      /\ \A i \in 2..K : stack[i].inseq = (open[i + 1].kind = "seq")
  <2>1. /\ open[1].kind = "stream" /\ open[2].kind = "doc"
        /\ Len(stack) + 2 = Len(open) + 1
        /\ \A i \in DOMAIN open : i > 2 => open[i].kind \in {"map", "seq"}
        /\ \A i \in 2..Len(stack) : stack[i].inseq = (open[i + 2 - 1].kind = "seq")
    BY <1>3, Zenon DEF FramesFollow
  <2>2. \A i \in 2..K : i + 2 - 1 = i + 1  OBVIOUS
  <2>3. K + 2 = L + 1  BY <1>1, <1>2, <2>1
  <2>4. K = L - 1  BY <2>3
  <2>5. \A i \in 2..K : stack[i].inseq = (open[i + 1].kind = "seq")
    BY <1>2, <2>1, <2>2
  <2> QED  BY <1>1, <2>1, <2>4, <2>5
<1>5. PICK c : c = Collection(kind, path)  OBVIOUS
<1>6. IsCollection(c) /\ c.kind = kind  BY <1>5 DEF Collection, IsCollection
<1>7. /\ new \in Seq(ToSet(new)) /\ Len(new) = L
      /\ \A i \in 1..L : IsCollection(new[i]) /\ new[i].kind = open[i].kind
  BY <1>1 DEF SameKinds
<1>8. /\ open' \in Seq(ToSet(open')) /\ Len(open') = L + 1 /\ open'[L + 1] = c
      /\ \A i \in 1..L : open'[i] = new[i]
  <2>1. open' = Append(new, c)  BY <1>5
  <2>2. new \in Seq(ToSet(new)) /\ Len(new) = L  BY <1>7
  <2>3. /\ open' \in Seq(ToSet(open')) /\ Len(open') = Len(new) + 1
        /\ open'[Len(new) + 1] = c /\ \A i \in 1..Len(new) : open'[i] = new[i]
    BY <2>1, <2>2, AnyAppend
  <2> QED  BY <2>2, <2>3
<1>9. DOMAIN open' = 1..(L + 1)  BY <1>8, AnySeq
<1>10. \A i \in 1..(L + 1) : i \in 1..L \/ i = L + 1  OBVIOUS
<1>11. \A i \in 1..(L + 1) : IsCollection(open'[i])  BY <1>6, <1>7, <1>8, <1>10
<1>12. open'[1].kind = "stream" /\ open'[2].kind = "doc"  BY <1>3, <1>4, <1>7, <1>8
<1>13. \A i \in 1..(L + 1) : i > 2 => open'[i].kind \in {"map", "seq"}
  <2> TAKE i \in 1..(L + 1)
  <2>1. CASE i = L + 1  BY <1>6, <1>8, <2>1
  <2>2. CASE i \in 1..L
    <3>1. open'[i] = new[i]  BY <1>8, <2>2
    <3>2. new[i].kind = open[i].kind  BY <1>7, <2>2
    <3>3. i > 2 => open[i].kind \in {"map", "seq"}  BY <1>4, <2>2
    <3> QED  BY <3>1, <3>2, <3>3
  <2> QED  BY <1>10, <2>1, <2>2
<1>14. \A i \in 2..(K + 1) : stack'[i].inseq = (open'[i + 1].kind = "seq")
  <2> TAKE i \in 2..(K + 1)
  <2>1. CASE i = K + 1
    <3>1. i + 1 = L + 1  BY <1>1, <1>2, <1>4, <2>1
    <3> QED  BY <1>2, <1>6, <1>8, <2>1, <3>1
  <2>2. CASE i # K + 1
    <3>1. i \in 1..K /\ i \in 2..K /\ i + 1 \in 1..L  BY <1>1, <1>2, <1>4, <2>2
    <3>2. open'[i + 1].kind = open[i + 1].kind  BY <1>7, <1>8, <3>1
    <3>3. stack'[i].inseq = stack[i].inseq  BY <1>2, <3>1
    <3> QED  BY <1>4, <3>1, <3>2, <3>3
  <2> QED  BY <2>1, <2>2
<1>15. Len(stack') + 2 = Len(open') + 1 /\ Len(stack') = K + 1
  BY <1>1, <1>2, <1>4, <1>8
<1>16. FramesFollow(2)'
  BY <1>1, <1>3, <1>8, <1>9, <1>12, <1>13, <1>14, <1>15 DEF FramesFollow
<1> QED  BY <1>1, <1>8, <1>9, <1>11, <1>16 DEF OpenInv

\* A collection ends, and its call.
LEMMA PopFollows ==
  ASSUME OpenInv, stack # <<>>, Here.kind \in {"map", "seq"}, open' = Front(open),
         Len(stack) \in Nat, Len(stack') = Len(stack) - 1,
         \A i \in 1..(Len(stack) - 1) : stack'[i].inseq = stack[i].inseq
  PROVE  OpenInv'
<1>1. PICK L \in Nat : L = Len(open) /\ DOMAIN open = 1..L /\ L # 0  BY OpenFacts
<1>2. PICK K \in Nat : K = Len(stack)  OBVIOUS
<1>3. FramesFollow(2) /\ L >= 3  BY <1>1, OpenFacts, WhichOuter
<1>4. /\ open[1].kind = "stream" /\ open[2].kind = "doc" /\ K = L - 1
      /\ \A i \in 1..L : i > 2 => open[i].kind \in {"map", "seq"}
      /\ \A i \in 2..K : stack[i].inseq = (open[i + 1].kind = "seq")
  BY <1>1, <1>2, <1>3 DEF FramesFollow
<1>5. /\ open' \in Seq(ToSet(open')) /\ Len(open') = L - 1
      /\ \A i \in 1..(L - 1) : open'[i] = open[i]
  BY <1>1, OpenFacts, AnyFront
<1>6. DOMAIN open' = 1..(L - 1)  BY <1>5, AnySeq
<1>7. \A i \in 1..(L - 1) : IsCollection(open'[i])
  <2>1. \A i \in 1..(L - 1) : i \in 1..L  OBVIOUS
  <2> QED  BY <1>1, <1>5, <2>1, OpenFacts
<1>8. open'[1].kind = "stream" /\ open'[2].kind = "doc"  BY <1>3, <1>4, <1>5
<1>9. \A i \in 1..(L - 1) : i > 2 => open'[i].kind \in {"map", "seq"}
  BY <1>4, <1>5
<1>10. \A i \in 2..(K - 1) : stack'[i].inseq = (open'[i + 1].kind = "seq")
  <2> TAKE i \in 2..(K - 1)
  <2>1. i \in 1..(K - 1) /\ i \in 2..K /\ i + 1 \in 1..(L - 1)  BY <1>4
  <2> QED  BY <1>2, <1>4, <1>5, <2>1
<1>11. Len(stack') + 2 = Len(open') + 1 /\ Len(stack') = K - 1
  BY <1>1, <1>2, <1>4, <1>5
<1>12. FramesFollow(2)'
  BY <1>3, <1>5, <1>6, <1>8, <1>9, <1>10, <1>11 DEF FramesFollow
<1>13. L - 1 # 0  BY <1>3
<1> QED  BY <1>5, <1>6, <1>7, <1>12, <1>13 DEF OpenInv

\* The document shares the call of the stream.
LEMMA DocumentFollows ==
  ASSUME OpenInv, stack # <<>>, stack' = stack, Len(stack) \in Nat,
         \/ /\ Here.kind = "stream"
            /\ open' = Append(NodeSeen, Collection("doc", <<>>))
         \/ /\ Here.kind = "doc"
            /\ open' = Front(open)
  PROVE  OpenInv'
<1>1. PICK L \in Nat : L = Len(open) /\ DOMAIN open = 1..L /\ L # 0  BY OpenFacts
<1>2. PICK outer \in {1, 2} : FramesFollow(outer)  BY OpenFacts
<1>3. open[1].kind = "stream" /\ Len(stack) + outer = L + 1 /\ IsCollection(open[1])
  BY <1>1, <1>2, OpenFacts DEF FramesFollow
<1>6. PICK K \in Nat : K = Len(stack') /\ K + outer = L + 1  BY <1>3
<1>4. CASE Here.kind = "stream"
  <2>1. outer = 1 /\ L = 1  BY <1>1, <1>2, <1>4, WhichOuter
  <2>2. open' = Append(NodeSeen, Collection("doc", <<>>))  BY <1>4
  <2>3. PICK c : c = Collection("doc", <<>>)  OBVIOUS
  <2>4. IsCollection(c) /\ c.kind = "doc"  BY <2>3 DEF Collection, IsCollection
  <2>5. PICK new : new = NodeSeen  OBVIOUS
  <2>6. /\ new \in Seq(ToSet(new)) /\ Len(new) = 1
        /\ IsCollection(new[1]) /\ new[1].kind = "stream"
    BY <1>1, <1>3, <2>1, <2>5, NodeSeenMarks DEF SameKinds
  <2>7. open' \in Seq(ToSet(open')) /\ Len(open') = 2 /\ open'[2] = c /\ open'[1] = new[1]
    <3>1. open' = Append(new, c)  BY <2>2, <2>3, <2>5
    <3>2. new \in Seq(ToSet(new))  BY <2>6
    <3>7. PICK o : o = Append(new, c)  OBVIOUS
    <3>3. /\ o \in Seq(ToSet(o)) /\ Len(o) = Len(new) + 1
          /\ o[Len(new) + 1] = c /\ \A i \in 1..Len(new) : o[i] = new[i]
      BY ONLY <3>7, <3>2, AnyAppend
    <3>4. Len(new) + 1 = 2 /\ 1 \in 1..Len(new)  BY <2>6
    <3>5. o[1] = new[1]  BY <3>3, <3>4
    <3>6. o[2] = c /\ Len(o) = 2  BY <3>3, <3>4, Zenon
    <3> QED  BY <3>1, <3>3, <3>5, <3>6, <3>7
  <2>8. DOMAIN open' = 1..2  BY <2>7, AnySeq
  <2>9. \A i \in 1..2 : IsCollection(open'[i])  BY <2>4, <2>6, <2>7
  <2>10. Len(stack') = 1  BY <1>6, <2>1
  <2>11. FramesFollow(2)'  BY <2>4, <2>6, <2>7, <2>8, <2>10 DEF FramesFollow
  <2> QED  BY <2>7, <2>8, <2>9, <2>11 DEF OpenInv
<1>5. CASE Here.kind = "doc"
  <2>1. outer = 2 /\ L = 2  BY <1>1, <1>2, <1>5, WhichOuter
  <2>2. open' = Front(open)  BY <1>5
  <2>3. open' \in Seq(ToSet(open')) /\ Len(open') = 1 /\ open'[1] = open[1]
    <3>1. open \in Seq(ToSet(open)) /\ Len(open) = 2  BY <1>1, <2>1, OpenFacts
    <3>7. PICK o : o = Front(open)  OBVIOUS
    <3>2. /\ o \in Seq(ToSet(o)) /\ Len(o) = Len(open) - 1
          /\ \A i \in 1..(Len(open) - 1) : o[i] = open[i]
      <4>1. open \in Seq(ToSet(open)) /\ Len(open) # 0  BY <3>1
      <4> QED  BY ONLY <4>1, <3>7, AnyFront
    <3>4. Len(open) - 1 = 1 /\ 1 \in 1..(Len(open) - 1)  BY <3>1
    <3>5. o[1] = open[1]  BY <3>2, <3>4
    <3>6. Len(o) = 1  BY <3>2, <3>4, Zenon
    <3> QED  BY <2>2, <3>2, <3>5, <3>6, <3>7
  <2>4. DOMAIN open' = 1..1  BY <2>3, AnySeq
  <2>5. Len(stack') = 1  BY <1>6, <2>1
  <2>6. FramesFollow(1)'  BY <1>3, <2>3, <2>4, <2>5 DEF FramesFollow
  <2> QED  BY <1>3, <2>3, <2>4, <2>6 DEF OpenInv
<1> QED  BY <1>4, <1>5

\* What SetForGood says of a step.
Settled ==
    \A n \in DOMAIN heap \cap DOMAIN heap' :
        ~ heap[n].allow_override => heap'[n].val = heap[n].val

LEMMA GrowthSettles ==
  ASSUME LoadTree, NEW parent, NEW new, Grows(parent, new),
         root' = root, root_backup' = root_backup
  PROVE  LoadTree' /\ Settled /\ DOMAIN heap \subseteq DOMAIN heap'
<1>1. LoadTree'  BY GrowthKeeps
<1> QED  BY <1>1 DEF Grows, Settled

LEMMA HeapSettles ==
  ASSUME LoadTree, UNCHANGED <<root, root_backup, heap>> PROVE LoadTree' /\ Settled
<1>1. NoDangling' /\ Reached'  BY DEF LoadTree, NoDangling, Reached, Roots, Closed
<1> QED  BY <1>1 DEF LoadTree, LoadNode, Settled

\* An event that has been dealt with.
LEMMA EventKeeps ==
  ASSUME LoaderInv, Delivers, LoadTree', FramesAlive', OpenInv', Len(stack') # 0
  PROVE  LoaderInv'
<1>1. stack # <<>> /\ result' = result  BY DEF Delivers
<1>2. result' = NULL  BY <1>1 DEF LoaderInv
<1>3. stack' # <<>>
  <2>1. Len(<<>>) = 0  OBVIOUS
  <2> QED  BY <2>1
<1> QED  BY <1>2, <1>3 DEF LoaderInv, Preparing

\* The node that a scalar makes or finds, and the frame that goes on with it.
LEMMA ItemGrows ==
  ASSUME LoadTree, FramesAlive, stack # <<>>, NEW s, ScalarItem(s),
         root' = root, root_backup' = root_backup
  PROVE  LoadTree' /\ Settled /\ SameCalls(stack')
<1>1. PICK n \in Nodes \ DOMAIN heap :
        heap' = Added(Top.parent, n, Loaded(Index(Top.seq_idx), s))
  BY DEF ScalarItem
<1>2. stack' = [stack EXCEPT ![Len(stack)] = [Top EXCEPT !.seq_idx = @ + 1]]
  BY DEF ScalarItem, Advance
<1>3. PICK rec : rec = Loaded(Index(Top.seq_idx), s)  OBVIOUS
<1>4. IsNode(rec) /\ rec.kids = <<>> /\ rec.allow_override = TRUE /\ rec.is_seq = FALSE
  BY <1>3 DEF Loaded, NewNode, IsNode
<1>5. PICK p \in DOMAIN heap : p = Top.parent  BY TopFacts
<1>6. Grows(p, {n})
  <2>1. heap' = Added(p, n, rec)  BY <1>1, <1>3, <1>5
  <2>2. rec.is_seq \in BOOLEAN  BY <1>4
  <2>3. PICK v : v = heap[p].val  OBVIOUS
  <2> QED  BY <1>4, <2>1, <2>2, <2>3, AddedGrows
<1>7. LoadTree' /\ Settled /\ DOMAIN heap \subseteq DOMAIN heap'  BY <1>6, GrowthSettles
<1>8. PICK f : f = [Top EXCEPT !.seq_idx = @ + 1]  OBVIOUS
<1>9. Top \in FrameType /\ Top.parent \in DOMAIN heap /\ Top.node \in DOMAIN heap
  BY TopFacts
<1>10. f \in FrameType /\ f.inseq = Top.inseq /\ f.parent = Top.parent /\ f.node = Top.node
  BY <1>8, <1>9 DEF FrameType
<1>11. PICK st : st = stack'  OBVIOUS
<1>12. SameCalls(st)
  BY <1>2, <1>7, <1>8, <1>9, <1>10, <1>11, TopChanges
<1> QED  BY <1>7, <1>11, <1>12

LEMMA KeyGrows ==
  ASSUME LoadTree, FramesAlive, stack # <<>>, NEW s, ScalarKey(s),
         root' = root, root_backup' = root_backup
  PROVE  LoadTree' /\ Settled /\ SameCalls(stack')
<1>1. PICK p \in DOMAIN heap : p = Top.parent  BY TopFacts
<1>2. LoadNode(p) /\ DOMAIN heap \subseteq Nodes  BY DEF LoadTree
<1>3. PICK v : v = Called(s)[p].val  OBVIOUS
<1>4. Called(s) = [heap EXCEPT ![p].val = v] /\ (~ heap[p].allow_override => v = heap[p].val)
  <2>1. PICK w : w = IF heap[p].is_seq /\ heap[p].val = NULL THEN Mangle(s) ELSE heap[p].val
    OBVIOUS
  <2>2. Called(s) = [heap EXCEPT ![p].val = w]  BY <1>1, <2>1 DEF Called
  <2>3. [heap EXCEPT ![p].val = w][p] = [heap[p] EXCEPT !.val = w]  OBVIOUS
  <2>4. v = w  BY <1>2, <1>3, <2>2, <2>3 DEF LoadNode, IsNode
  <2>5. ~ heap[p].allow_override => w = heap[p].val  BY <1>2, <2>1 DEF LoadNode
  <2> QED  BY <2>2, <2>4, <2>5
<1>5. PICK n0 : n0 = ConfNodeLookupChild(p, s)  OBVIOUS
<1>6. n0 = NULL \/ n0 \in DOMAIN heap
  <2>1. heap[p].kids \in Seq(Nodes)  BY <1>2 DEF LoadNode
  <2>2. n0 = NULL \/ n0 \in ToSet(heap[p].kids)  BY <1>5, <2>1, LookupListed
  <2>3. ToSet(heap[p].kids) \subseteq DOMAIN heap  BY DEF LoadTree, NoDangling
  <2> QED  BY <2>2, <2>3
<1>7. \E n \in Nodes :
        /\ n \in DOMAIN heap'
        /\ LoadTree' /\ Settled /\ DOMAIN heap \subseteq DOMAIN heap'
        /\ stack' = [stack EXCEPT ![Len(stack)] =
                        [Top EXCEPT !.node = n, !.state = CONF_VAL]]
  <2>1. CASE /\ n0 # NULL /\ heap' = Called(s)
             /\ Advance([Top EXCEPT !.node = n0, !.state = CONF_VAL])
    <3>1. n0 \in DOMAIN heap /\ n0 \in Nodes  BY <1>2, <1>6, <2>1
    <3>2. heap' = [heap EXCEPT ![p].val = v]  BY <1>4, <2>1
    <3>3. Grows(p, {})  BY <1>4, <3>2, ValueGrows
    <3>4. LoadTree' /\ Settled /\ DOMAIN heap \subseteq DOMAIN heap'  BY <3>3, GrowthSettles
    <3> QED  BY <2>1, <3>1, <3>4 DEF Advance
  <2>2. CASE \E n \in Nodes \ DOMAIN heap :
               /\ heap' = [Added(Top.parent, n, Loaded(KeyName(s), NULL))
                             EXCEPT ![Top.parent].val = Called(s)[Top.parent].val]
               /\ Advance([Top EXCEPT !.node = n, !.state = CONF_VAL])
    <3>1. PICK n \in Nodes \ DOMAIN heap :
            /\ heap' = [Added(p, n, Loaded(KeyName(s), NULL)) EXCEPT ![p].val = v]
            /\ Advance([Top EXCEPT !.node = n, !.state = CONF_VAL])
      BY <1>1, <1>3, <2>2
    <3>2. PICK rec : rec = Loaded(KeyName(s), NULL)  OBVIOUS
    <3>3. IsNode(rec) /\ rec.kids = <<>> /\ rec.allow_override = TRUE /\ rec.is_seq \in BOOLEAN
      BY <3>2 DEF Loaded, NewNode, IsNode
    <3>4. heap' = [Added(p, n, rec) EXCEPT ![p].val = v]  BY <3>1, <3>2
    <3>5. Grows(p, {n})  BY <1>4, <3>3, <3>4, AddedGrows
    <3>6. LoadTree' /\ Settled /\ DOMAIN heap \subseteq DOMAIN heap'  BY <3>5, GrowthSettles
    <3>7. n \in DOMAIN heap'  BY <3>5 DEF Grows
    <3> QED  BY <3>1, <3>6, <3>7 DEF Advance
  <2> QED  BY <1>1, <1>5, <2>1, <2>2 DEF ScalarKey
<1>8. PICK n \in Nodes :
        /\ n \in DOMAIN heap'
        /\ LoadTree' /\ Settled /\ DOMAIN heap \subseteq DOMAIN heap'
        /\ stack' = [stack EXCEPT ![Len(stack)] =
                        [Top EXCEPT !.node = n, !.state = CONF_VAL]]
  BY <1>7
<1>9. PICK f : f = [Top EXCEPT !.node = n, !.state = CONF_VAL]  OBVIOUS
<1>10. Top \in FrameType /\ Top.parent \in DOMAIN heap  BY TopFacts
<1>11. f \in FrameType /\ f.inseq = Top.inseq /\ f.parent = Top.parent /\ f.node = n
  BY <1>9, <1>10 DEF FrameType, CONF_VAL
<1>12. PICK st : st = stack'  OBVIOUS
<1>13. SameCalls(st)
  BY <1>8, <1>9, <1>10, <1>11, <1>12, TopChanges
<1> QED  BY <1>8, <1>12, <1>13

LEMMA ValueSettles ==
  ASSUME LoadTree, FramesAlive, stack # <<>>, NEW s, ScalarValue(s),
         root' = root, root_backup' = root_backup
  PROVE  LoadTree' /\ Settled /\ SameCalls(stack')
<1>1. PICK n \in DOMAIN heap : n = Top.node  BY TopFacts
<1>2. PICK v : v = IF heap[n].allow_override THEN s ELSE heap[n].val  OBVIOUS
<1>3. LoadTree' /\ Settled /\ DOMAIN heap \subseteq DOMAIN heap'
  <2>1. CASE heap[n].allow_override
    <3>1. heap' = [heap EXCEPT ![n].val = v]  BY <1>1, <1>2, <2>1 DEF ScalarValue
    <3>2. Grows(n, {})  BY <1>2, <3>1, ValueGrows
    <3> QED  BY <3>2, GrowthSettles
  <2>2. CASE ~ heap[n].allow_override
    <3>1. heap' = heap  BY <1>1, <2>2 DEF ScalarValue
    <3> QED  BY <3>1, HeapSettles
  <2> QED  BY <2>1, <2>2
<1>4. stack' = [stack EXCEPT ![Len(stack)] = [Top EXCEPT !.state = CONF_KEY]]
  BY DEF ScalarValue, Advance
<1>5. PICK f : f = [Top EXCEPT !.state = CONF_KEY]  OBVIOUS
<1>6. Top \in FrameType /\ Top.parent \in DOMAIN heap /\ Top.node \in DOMAIN heap
  BY TopFacts
<1>7. f \in FrameType /\ f.inseq = Top.inseq /\ f.parent = Top.parent /\ f.node = Top.node
  BY <1>5, <1>6 DEF FrameType, CONF_KEY
<1>8. PICK st : st = stack'  OBVIOUS
<1>9. SameCalls(st)  BY <1>3, <1>4, <1>5, <1>6, <1>7, <1>8, TopChanges
<1> QED  BY <1>3, <1>8, <1>9

LEMMA ScalarKeeps ==
  ASSUME LoaderInv, Delivers, NEW s, Scalar(s), SameKinds(open')
  PROVE  LoaderInv' /\ Settled
<1>1. LoadTree /\ FramesAlive /\ OpenInv  BY DEF LoaderInv
<1>2. stack # <<>> /\ root' = root /\ root_backup' = root_backup  BY DEF Delivers
<1>3. LoadTree' /\ Settled /\ SameCalls(stack')
  BY <1>1, <1>2, ItemGrows, KeyGrows, ValueSettles DEF Scalar
<1>4. FramesAlive' /\ OpenInv'
  <2>1. PICK st : st = stack'  OBVIOUS
  <2>2. SameCalls(st)  BY <1>3, <2>1
  <2> QED  BY <1>1, <1>2, <2>1, <2>2, SameCallsAlive, MarksFollow
<1>5. Len(stack') # 0  BY <1>1, <1>2, <1>3, TopFacts DEF SameCalls
<1> QED  BY <1>3, <1>4, <1>5, EventKeeps

LEMMA KeyScalarKeeps ==
  ASSUME LoaderInv, NEW s, KeyScalar(s) PROVE LoaderInv' /\ Settled
<1>1. PICK L \in Nat : L = Len(open) /\ DOMAIN open = 1..L /\ L \in 1..L
  BY OpenFacts DEF LoaderInv, KeyScalar, Delivers
<1>2. \A i \in 1..L : IsCollection(open[i])
  BY <1>1, OpenFacts DEF LoaderInv, KeyScalar, Delivers
<1>3. PICK new : new = open'  OBVIOUS
<1>4. PICK key : key = KeyPath(s)  OBVIOUS
<1>5. new = [open EXCEPT ![L].key = key, ![L].keys = @ \cup {key}]
  BY <1>1, <1>3, <1>4 DEF KeyScalar
<1>6. DOMAIN new = DOMAIN open /\ new = [i \in DOMAIN open |-> new[i]]  BY <1>5
<1>7. \A i \in 1..L : IsCollection(new[i]) /\ new[i].kind = open[i].kind
  <2> TAKE i \in 1..L
  <2>1. CASE i # L  BY <1>1, <1>2, <1>5, <2>1
  <2>2. CASE i = L
    <3>1. new[i] = [open[i] EXCEPT !.key = key, !.keys = open[i].keys \cup {key}]
      BY <1>1, <1>2, <1>5, <2>2 DEF IsCollection
    <3> QED  BY <1>2, <3>1 DEF IsCollection
  <2> QED  BY <2>1, <2>2
<1>8. SameKinds(new)
  <2>1. OpenInv /\ stack # <<>>  BY DEF LoaderInv, KeyScalar, Delivers
  <2> QED  BY <1>1, <1>6, <1>7, <2>1, MarksChange
<1> QED  BY <1>3, <1>8, ScalarKeeps DEF KeyScalar

LEMMA NodeScalarKeeps ==
  ASSUME LoaderInv, NEW s, NodeScalar(s) PROVE LoaderInv' /\ Settled
<1>1. Delivers /\ Scalar(s) /\ open' = NodeSeen  BY DEF NodeScalar
<1>2. PICK new : new = NodeSeen  OBVIOUS
<1>3. SameKinds(new)  BY <1>1, <1>2, NodeSeenMarks DEF LoaderInv, Delivers
<1> QED  BY <1>1, <1>2, <1>3, ScalarKeeps

LEMMA AliasKeeps == ASSUME LoaderInv, Alias PROVE LoaderInv' /\ Settled
<1>1. Delivers /\ heap' = heap /\ stack' = stack /\ open' = NodeSeen  BY DEF Alias
<1>2. /\ LoadTree /\ FramesAlive /\ OpenInv /\ stack # <<>>
      /\ root' = root /\ root_backup' = root_backup
  BY <1>1 DEF LoaderInv, Delivers
<1>3. PICK new : new = NodeSeen  OBVIOUS
<1>4. SameKinds(new)  BY <1>2, <1>3, NodeSeenMarks
<1>5. SameCalls(stack)  BY <1>1, <1>2, SameStack
<1>6. OpenInv' /\ FramesAlive'
  <2>1. PICK st : st = stack  OBVIOUS
  <2>2. SameCalls(st) /\ stack' = st  BY <1>1, <1>5, <2>1
  <2> QED  BY <1>1, <1>2, <1>3, <1>4, <2>2, MarksFollow, SameCallsAlive
<1>7. LoadTree' /\ Settled  BY <1>1, <1>2, HeapSettles
<1>8. Len(stack') # 0  BY <1>1, <1>2, TopFacts
<1> QED  BY <1>1, <1>6, <1>7, <1>8, EventKeeps

\* A collection that begins in the frame on top.
LEMMA PushKeeps ==
  ASSUME LoaderInv, Delivers, AtNode, LoadTree', Settled,
         NEW st, SameCalls(st), NEW n \in Nodes, n \in DOMAIN heap',
         NEW kind \in {"map", "seq"}, NEW path, NEW b \in BOOLEAN, b = (kind = "seq"),
         stack' = Append(st, Frame(n, b)), open' = Append(NodeSeen, Collection(kind, path))
  PROVE  LoaderInv' /\ Settled
<1>1. FramesAlive /\ OpenInv /\ stack # <<>>  BY DEF LoaderInv, Delivers
<1>2. /\ FramesAlive' /\ Len(stack') = Len(stack) + 1 /\ Len(stack) \in Nat
      /\ stack'[Len(stack) + 1].inseq = b
      /\ \A i \in 1..Len(stack) : stack'[i].inseq = stack[i].inseq
  BY PushedAlive
<1>3. PICK new : new = NodeSeen  OBVIOUS
<1>4. SameKinds(new)  BY <1>1, <1>3, NodeSeenMarks
<1>5. Here.kind \in {"map", "seq", "doc"}  BY DEF AtNode, AtKey, AtValue
<1>6. OpenInv'  BY <1>1, <1>2, <1>3, <1>4, <1>5, PushFollows
<1>7. Len(stack') # 0  BY <1>2
<1> QED  BY <1>2, <1>6, <1>7, EventKeeps

LEMMA SequenceStartKeeps == ASSUME LoaderInv, SequenceStart PROVE LoaderInv' /\ Settled
<1>1. /\ Delivers /\ AtNode /\ heap' = heap
      /\ stack' = Append(stack, Frame(Top.node, TRUE))
      /\ open' = Append(NodeSeen, Collection("seq", PathHere))
  BY DEF SequenceStart
<1>2. /\ LoadTree /\ FramesAlive /\ stack # <<>>
      /\ root' = root /\ root_backup' = root_backup
  BY <1>1 DEF LoaderInv, Delivers
<1>3. LoadTree' /\ Settled  BY <1>1, <1>2, HeapSettles
<1>4. SameCalls(stack)  BY <1>1, <1>2, SameStack
<1>5. Top.node \in Nodes /\ Top.node \in DOMAIN heap'
  BY <1>1, <1>2, TopFacts DEF FrameType
<1>6. PICK n, st : n = Top.node /\ st = stack  OBVIOUS
<1>7. PICK b \in BOOLEAN : b = TRUE  OBVIOUS
<1>8. PICK kind \in {"map", "seq"} : kind = "seq"  OBVIOUS
<1>9. b = (kind = "seq")  BY <1>7, <1>8
<1>10. PICK path : path = PathHere  OBVIOUS
<1>11. /\ SameCalls(st) /\ n \in Nodes /\ n \in DOMAIN heap'
       /\ stack' = Append(st, Frame(n, b)) /\ open' = Append(NodeSeen, Collection(kind, path))
  BY <1>1, <1>4, <1>5, <1>6, <1>7, <1>8, <1>10
<1> QED
  BY ONLY LoaderInv, kind \in {"map", "seq"}, b \in BOOLEAN,
     <1>1, <1>3, <1>9, <1>11, PushKeeps, Zenon

LEMMA MappingStartKeeps == ASSUME LoaderInv, MappingStart PROVE LoaderInv' /\ Settled
<1>1. /\ Delivers /\ AtNode /\ (MappingItem \/ MappingValue)
      /\ open' = Append(NodeSeen, Collection("map", PathHere))
  BY DEF MappingStart
<1>2. /\ LoadTree /\ FramesAlive /\ stack # <<>>
      /\ root' = root /\ root_backup' = root_backup
  BY <1>1 DEF LoaderInv, Delivers
<1>3. Top \in FrameType /\ Top.parent \in DOMAIN heap /\ Top.node \in DOMAIN heap
  BY <1>2, TopFacts
<1>4. \E n \in Nodes : \E st :
        /\ n \in DOMAIN heap' /\ SameCalls(st) /\ stack' = Append(st, Frame(n, FALSE))
        /\ LoadTree' /\ Settled
  <2>1. CASE MappingItem
    <3>1. PICK n \in Nodes \ DOMAIN heap :
            /\ heap' = Added(Top.node, n,
                             [Loaded(Index(Top.seq_idx), NULL) EXCEPT !.is_seq = TRUE])
            /\ stack' = Append([stack EXCEPT ![Len(stack)].seq_idx = @ + 1], Frame(n, FALSE))
      BY <2>1 DEF MappingItem
    <3>2. PICK rec : rec = [Loaded(Index(Top.seq_idx), NULL) EXCEPT !.is_seq = TRUE]
      OBVIOUS
    <3>3. IsNode(rec) /\ rec.kids = <<>> /\ rec.allow_override = TRUE /\ rec.is_seq \in BOOLEAN
      BY <3>2 DEF Loaded, NewNode, IsNode
    <3>4. PICK p \in DOMAIN heap : p = Top.node  BY <1>3
    <3>5. heap' = Added(p, n, rec)  BY <3>1, <3>2, <3>4
    <3>6. PICK v : v = heap[p].val  OBVIOUS
    <3>7. Grows(p, {n})  BY <1>2, <3>3, <3>5, <3>6, AddedGrows
    <3>8. LoadTree' /\ Settled /\ DOMAIN heap \subseteq DOMAIN heap'
      BY <1>2, <3>7, GrowthSettles
    <3>9. n \in DOMAIN heap'  BY <3>7 DEF Grows
    <3>10. PICK f : f = [Top EXCEPT !.seq_idx = @ + 1]  OBVIOUS
    <3>11. f \in FrameType /\ f.inseq = Top.inseq /\ f.parent = Top.parent /\ f.node = Top.node
      BY <1>3, <3>10 DEF FrameType
    <3>12. PICK st : st = [stack EXCEPT ![Len(stack)] = f]  OBVIOUS
    <3>13. SameCalls(st)  BY <1>2, <1>3, <3>8, <3>11, <3>12, TopChanges
    <3>14. st = [stack EXCEPT ![Len(stack)].seq_idx = @ + 1]  BY <3>10, <3>12 DEF Top
    <3> QED  BY <3>1, <3>8, <3>9, <3>13, <3>14
  <2>2. CASE MappingValue
    <3>1. heap' = heap /\ stack' = Append(stack, Frame(Top.node, FALSE))
      BY <2>2 DEF MappingValue
    <3>2. LoadTree' /\ Settled  BY <1>2, <3>1, HeapSettles
    <3>3. SameCalls(stack)  BY <1>2, <3>1, SameStack
    <3>4. Top.node \in Nodes /\ Top.node \in DOMAIN heap'
      BY <1>3, <3>1 DEF FrameType
    <3> QED  BY <3>1, <3>2, <3>3, <3>4
  <2> QED  BY <1>1, <2>1, <2>2
<1>5. PICK n \in Nodes : \E st :
        /\ n \in DOMAIN heap' /\ SameCalls(st) /\ stack' = Append(st, Frame(n, FALSE))
        /\ LoadTree' /\ Settled
  BY <1>4
<1>6. PICK st :
        /\ n \in DOMAIN heap' /\ SameCalls(st) /\ stack' = Append(st, Frame(n, FALSE))
        /\ LoadTree' /\ Settled
  BY <1>5
<1>7. PICK b \in BOOLEAN : b = FALSE  OBVIOUS
<1>8. PICK kind \in {"map", "seq"} : kind = "map"  OBVIOUS
<1>9. b = (kind = "seq")  BY <1>7, <1>8
<1>10. PICK path : path = PathHere  OBVIOUS
<1>11. stack' = Append(st, Frame(n, b)) /\ open' = Append(NodeSeen, Collection(kind, path))
  BY <1>1, <1>6, <1>7, <1>8, <1>10
<1> QED
  BY ONLY LoaderInv, n \in Nodes, kind \in {"map", "seq"}, b \in BOOLEAN,
     <1>1, <1>6, <1>9, <1>11, PushKeeps, Zenon

LEMMA CollectionEndKeeps ==
  ASSUME LoaderInv, SequenceEnd \/ MappingEnd PROVE LoaderInv' /\ Settled
<1>1. /\ Delivers /\ Here.kind \in {"map", "seq"} /\ heap' = heap
      /\ stack' = Returned(Front(stack)) /\ open' = Front(open)
  BY DEF SequenceEnd, MappingEnd, AtKey
<1>2. /\ LoadTree /\ FramesAlive /\ OpenInv /\ stack # <<>>
      /\ root' = root /\ root_backup' = root_backup
  BY <1>1 DEF LoaderInv, Delivers
<1>3. Len(stack) >= 2
  <2>1. PICK outer \in {1, 2} : FramesFollow(outer)  BY <1>2, OpenFacts
  <2>2. outer = 2 /\ Len(open) >= 3  BY <1>1, <1>2, <2>1, WhichOuter
  <2>3. PICK L \in Nat : L = Len(open)  BY <1>2, OpenFacts
  <2>4. PICK K \in Nat : K = Len(stack)  BY <1>2, TopFacts
  <2>5. K + 2 = L + 1  BY <2>1, <2>2, <2>3, <2>4 DEF FramesFollow
  <2> QED  BY <2>2, <2>3, <2>4, <2>5
<1>4. /\ FramesAlive' /\ Len(stack') = Len(stack) - 1 /\ Len(stack) \in Nat
      /\ \A i \in 1..(Len(stack) - 1) : stack'[i].inseq = stack[i].inseq
  BY <1>1, <1>2, <1>3, PoppedAlive
<1>5. OpenInv'  BY <1>1, <1>2, <1>4, PopFollows
<1>6. LoadTree' /\ Settled  BY <1>1, <1>2, HeapSettles
<1>7. Len(stack') # 0  BY <1>3, <1>4
<1> QED  BY <1>1, <1>4, <1>5, <1>6, <1>7, EventKeeps

LEMMA DocumentKeeps ==
  ASSUME LoaderInv, DocumentStart \/ DocumentEnd PROVE LoaderInv' /\ Settled
<1>1. /\ Delivers /\ heap' = heap /\ stack' = stack
      /\ \/ Here.kind = "stream" /\ open' = Append(NodeSeen, Collection("doc", <<>>))
         \/ Here.kind = "doc" /\ open' = Front(open)
  BY DEF DocumentStart, DocumentEnd
<1>2. /\ LoadTree /\ FramesAlive /\ OpenInv /\ stack # <<>>
      /\ root' = root /\ root_backup' = root_backup
  BY <1>1 DEF LoaderInv, Delivers
<1>3. Len(stack) \in Nat /\ Len(stack) # 0  BY <1>2, TopFacts
<1>4. OpenInv'  BY <1>1, <1>2, <1>3, DocumentFollows
<1>5. FramesAlive'  BY <1>1, <1>2 DEF FramesAlive
<1>6. LoadTree' /\ Settled  BY <1>1, <1>2, HeapSettles
<1>7. Len(stack') # 0  BY <1>1, <1>3
<1> QED  BY <1>1, <1>4, <1>5, <1>6, <1>7, EventKeeps

\* The loader has returned.
LEMMA ReturnedKeeps ==
  ASSUME LoaderInv, UNCHANGED <<root, root_backup, heap>>, stack' = <<>>, result' \in {-1, 0}
  PROVE  LoaderInv' /\ Settled
<1>1. result' # NULL  BY LoaderAssumption
<1>2. LoadTree' /\ Settled  BY HeapSettles DEF LoaderInv
<1>3. FramesAlive'
  <2>1. stack' \in Seq(FrameType) /\ DOMAIN stack' = {}  OBVIOUS
  <2> QED  BY <2>1 DEF FramesAlive
<1>4. OpenInv'  BY DEF OpenInv
<1> QED  BY <1>1, <1>2, <1>3, <1>4 DEF LoaderInv, Preparing

LEMMA FailsKeeps == ASSUME LoaderInv, Fails PROVE LoaderInv' /\ Settled
<1>1. UNCHANGED <<root, root_backup, heap>> /\ stack' = <<>> /\ result' = -1
  BY DEF Fails, vars
<1> QED  BY <1>1, ReturnedKeeps

LEMMA LoadFailsKeeps == ASSUME LoaderInv, LoadFails PROVE LoaderInv' /\ Settled
<1>1. UNCHANGED <<root, root_backup, heap>> /\ stack' = <<>> /\ result' = -1
  BY DEF LoadFails, vars
<1> QED  BY <1>1, ReturnedKeeps

\* The outermost call is the only one left when the stream ends.
LEMMA StreamEndKeeps == ASSUME LoaderInv, StreamEnd PROVE LoaderInv' /\ Settled
<1>1. /\ UNCHANGED <<root, root_backup, heap>> /\ stack' = Front(stack) /\ result' = 0
      /\ stack # <<>> /\ Here.kind = "stream"
  BY DEF StreamEnd, vars
<1>2. FramesAlive /\ OpenInv  BY DEF LoaderInv
<1>3. PICK K \in Nat : K = Len(stack)  BY <1>1, <1>2, TopFacts
<1>4. K = 1
  <2>1. PICK outer \in {1, 2} : FramesFollow(outer)  BY <1>1, <1>2, OpenFacts
  <2>2. outer = 1 /\ Len(open) = 1  BY <1>1, <1>2, <2>1, WhichOuter
  <2>3. K + 1 = 1 + 1  BY <1>3, <2>1, <2>2 DEF FramesFollow
  <2> QED  BY <2>3
<1>5. Front(stack) = <<>>
  <2>1. stack \in Seq(FrameType)  BY <1>2 DEF FramesAlive
  <2>2. SubSeq(stack, 1, 0) = <<>>  BY <2>1
  <2> QED  BY <1>3, <1>4, <2>2 DEF Front
<1> QED  BY <1>1, <1>5, ReturnedKeeps

LEMMA LoadFileKeeps == ASSUME LoaderInv, ConfYamlLoadFile PROVE LoaderInv' /\ Settled
<1>1. /\ UNCHANGED <<root, root_backup, heap>> /\ root # NULL
      /\ stack = <<>> /\ result = NULL /\ result' = NULL
      /\ stack' = <<Frame(root, FALSE)>> /\ open' = <<Collection("stream", <<>>)>>
  BY DEF ConfYamlLoadFile, vars
<1>2. LoadTree' /\ Settled  BY <1>1, HeapSettles DEF LoaderInv
<1>3. root \in DOMAIN heap /\ root \in Nodes
  BY <1>1 DEF LoaderInv, LoadTree, NoDangling
<1>4. PICK f : f = Frame(root, FALSE)  OBVIOUS
<1>5. f \in FrameType /\ f.parent = root /\ f.node = root
  BY <1>3, <1>4 DEF Frame, FrameType
<1>6. stack' = <<f>>  BY <1>1, <1>4
<1>7. stack' \in Seq(FrameType) /\ DOMAIN stack' = 1..1 /\ stack'[1] = f /\ Len(stack') = 1
  <2>1. PICK F : F = FrameType  OBVIOUS
  <2>2. f \in F  BY <1>5, <2>1
  <2>3. <<f>> \in Seq(F)  BY <2>2
  <2> QED  BY <1>6, <2>1, <2>3
<1>8. FramesAlive'
  <2>1. \A i \in DOMAIN stack' : i = 1  BY <1>7
  <2>2. stack'[1].parent \in DOMAIN heap' /\ stack'[1].node \in DOMAIN heap'
    BY <1>1, <1>3, <1>5, <1>7
  <2> QED  BY <1>7, <2>1, <2>2 DEF FramesAlive
<1>9. OpenInv'
  <2>1. PICK c : c = Collection("stream", <<>>)  OBVIOUS
  <2>2. IsCollection(c) /\ c.kind = "stream"  BY <2>1 DEF Collection, IsCollection
  <2>3. open' = <<c>>  BY <1>1, <2>1
  <2>4. DOMAIN open' = 1..1 /\ open'[1] = c /\ Len(open') = 1  BY <2>3
  <2>5. open' \in Seq(ToSet(open'))
    <3>1. c \in ToSet(open')  BY <2>4 DEF ToSet
    <3>2. <<c>> \in Seq(ToSet(open'))  BY <3>1
    <3> QED  BY <2>3, <3>2
  <2>6. FramesFollow(1)'  BY <1>7, <2>2, <2>4 DEF FramesFollow
  <2> QED  BY <2>2, <2>4, <2>5, <2>6 DEF OpenInv
<1>10. stack' # <<>>  BY <1>6
<1> QED  BY <1>1, <1>2, <1>8, <1>9, <1>10 DEF LoaderInv, Preparing

-----------------------------------------------------------------------------
\* A tree that parameters were set in can be loaded into.
Plain == \A n \in DOMAIN heap : ~ heap[n].is_seq

LEMMA PreparedTree == ConfInv /\ root_backup = NULL /\ Plain => LoadTree
<1> SUFFICES ASSUME ConfInv, root_backup = NULL, Plain PROVE LoadTree  OBVIOUS
<1>1. TreeInv /\ NoDangling /\ Reached  BY DEF ConfInv, TreeInv
<1>2. DOMAIN heap \subseteq Nodes  BY <1>1 DEF TreeInv, TypesInv
<1>3. \A n \in DOMAIN heap : LoadNode(n)
  <2> TAKE n \in DOMAIN heap
  <2>1. heap[n] \in NodeType  BY <1>1 DEF TreeInv, TypesInv
  <2>2. IsNode(heap[n])  BY <2>1 DEF NodeType, IsNode
  <2>3. /\ heap[n].kids \in Seq(Nodes) /\ heap[n].allow_override \in BOOLEAN
        /\ heap[n].is_seq \in BOOLEAN
    BY <2>1 DEF NodeType
  <2> QED  BY <2>2, <2>3 DEF LoadNode, Plain
<1> QED  BY <1>1, <1>2, <1>3 DEF LoadTree

LEMMA PreparedTreeNext == (ConfInv /\ root_backup = NULL /\ Plain => LoadTree)'
BY PreparedTree, PTL

LEMMA SetExistingPlain ==
  ASSUME ConfInv, Plain, NEW path \in Paths, NEW v \in Values, NEW allow \in BOOLEAN,
         SetExisting(path, v, allow)
  PROVE  Plain' /\ Settled
<1>1. PICK node : node = ConfGetNode(path)  OBVIOUS
<1>2. /\ root # NULL /\ node # NULL
      /\ \/ heap' = heap
         \/ /\ heap[node].allow_override
            /\ heap' = [heap EXCEPT ![node].val = v, ![node].allow_override = allow]
  BY <1>1 DEF SetExisting
<1>3. node \in DOMAIN heap /\ TreeInv  BY <1>1, <1>2, FoundFacts DEF ConfInv
<1>4. heap[node] \in NodeType  BY <1>3, KidsFacts
<1>5. CASE heap' = heap  BY <1>5 DEF Plain, Settled
<1>6. CASE /\ heap[node].allow_override
           /\ heap' = [heap EXCEPT ![node].val = v, ![node].allow_override = allow]
  <2>1. DOMAIN heap' = DOMAIN heap /\ \A n \in DOMAIN heap : n # node => heap'[n] = heap[n]
    BY <1>6
  <2>2. heap'[node] = [heap[node] EXCEPT !.val = v, !.allow_override = allow]
    BY <1>3, <1>6
  <2>3. heap'[node].is_seq = heap[node].is_seq  BY <1>4, <2>2 DEF NodeType
  <2> QED  BY <1>6, <2>1, <2>3 DEF Plain, Settled
<1> QED  BY <1>2, <1>5, <1>6

LEMMA SetNewPlain ==
  ASSUME ConfInv, Plain, NEW path \in Paths, NEW v \in Values, NEW allow \in BOOLEAN,
         SetNew(path, v, allow)
  PROVE  Plain' /\ Settled
<1>1. PICK k, base, new : heap' = Chained(path, k, base, new, v, allow) /\ base \in DOMAIN heap
                          /\ new \in FreshChains(Len(path) - k)
  <2>1. PICK k, base : k = Known(path) /\ base = ConfGetNode(SubSeq(path, 1, k))  OBVIOUS
  <2>2. /\ root # NULL /\ ConfGetNode(path) = NULL
        /\ \E new \in FreshChains(Len(path) - k) :
              heap' = Chained(path, k, base, new, v, allow)
    BY <2>1 DEF SetNew
  <2>3. base \in DOMAIN heap  BY <2>1, <2>2, KnownFacts DEF ConfInv
  <2> QED  BY <2>2, <2>3
<1>2. DOMAIN heap' = DOMAIN heap \cup ToSet(new)  BY <1>1 DEF Chained
<1>3. ToSet(new) \cap DOMAIN heap = {}  BY <1>1 DEF FreshChains, ToSet
<1>4. \A n \in ToSet(new) : ~ heap'[n].is_seq  BY <1>1 DEF Chained, Link, NewNode
<1>5. \A n \in DOMAIN heap : n # base => heap'[n] = heap[n]  BY <1>1, <1>3 DEF Chained
<1>6. heap'[base].is_seq = heap[base].is_seq /\ heap'[base].val = heap[base].val
  <2>1. heap'[base] = [heap[base] EXCEPT !.kids = Append(@, new[1])]
    BY <1>1, <1>3 DEF Chained
  <2>2. heap[base] \in NodeType  BY <1>1, KidsFacts DEF ConfInv
  <2> QED  BY <2>1, <2>2 DEF NodeType
<1>7. \A n \in DOMAIN heap : ~ heap'[n].is_seq /\ heap'[n].val = heap[n].val
  BY <1>5, <1>6 DEF Plain
<1> QED  BY <1>2, <1>4, <1>7 DEF Plain, Settled

LEMMA PrepareKeeps == ASSUME LoaderInv, Prepare PROVE LoaderInv' /\ Settled
<1>1. /\ stack = <<>> /\ result = NULL /\ UNCHANGED <<stack, result>>
      /\ \/ ConfInit
         \/ \E p \in Paths, v \in Values, a \in BOOLEAN : ConfSet(p, v, a)
  BY DEF Prepare
<1>2. ConfInv /\ Plain /\ root_backup = NULL  BY <1>1 DEF LoaderInv, Preparing, Plain, LoadTree
<1>3. ConfInv' /\ Plain' /\ Settled /\ root_backup' = root_backup
  <2>1. CASE ConfInit
    <3>1. PICK new \in Nodes \ DOMAIN heap :
            heap' = [m \in DOMAIN heap \cup {new} |->
                       IF m = new THEN NewNode(NULL, NULL) ELSE heap[m]]
      BY <2>1 DEF ConfInit
    <3>2. /\ DOMAIN heap' = DOMAIN heap \cup {new}
          /\ \A m \in DOMAIN heap : heap'[m] = heap[m]
          /\ ~ heap'[new].is_seq
      BY <3>1 DEF NewNode
    <3>3. Plain' /\ Settled  BY <1>2, <3>2 DEF Plain, Settled
    <3>4. ConfInv'  BY <1>2, <2>1, InitKeeps
    <3> QED  BY <2>1, <3>3, <3>4 DEF ConfInit
  <2>2. CASE \E p \in Paths, v \in Values, a \in BOOLEAN : ConfSet(p, v, a)
    <3>1. PICK p \in Paths, v \in Values, a \in BOOLEAN : ConfSet(p, v, a)  BY <2>2
    <3>2. CASE SetExisting(p, v, a)
      <4>1. ConfInv'  BY <1>2, <3>2, SetExistingKeeps
      <4>2. Plain' /\ Settled  BY <1>2, <3>2, SetExistingPlain
      <4> QED  BY <3>2, <4>1, <4>2 DEF SetExisting
    <3>3. CASE SetNew(p, v, a)
      <4>1. ConfInv'  BY <1>2, <3>3, SetNewKeeps
      <4>2. Plain' /\ Settled  BY <1>2, <3>3, SetNewPlain
      <4> QED  BY <3>3, <4>1, <4>2 DEF SetNew
    <3> QED  BY <3>1, <3>2, <3>3 DEF ConfSet
  <2> QED  BY <1>1, <2>1, <2>2
<1>4. LoadTree'  BY <1>2, <1>3, PreparedTreeNext
<1>5. FramesAlive'
  <2>1. stack' \in Seq(FrameType) /\ DOMAIN stack' = {}  BY <1>1
  <2> QED  BY <2>1 DEF FramesAlive
<1>6. OpenInv'  BY <1>1 DEF OpenInv
<1> QED  BY <1>1, <1>3, <1>4, <1>5, <1>6 DEF LoaderInv, Plain

-----------------------------------------------------------------------------
\* The one tree there is has every node.
LEMMA WholeTree ==
  ASSUME NoDangling, Reached, root_backup = NULL
  PROVE  DOMAIN heap = IF root = NULL THEN {} ELSE Subtree(root)
<1>1. CASE root = NULL
  <2>1. Roots = {} /\ {} \in SUBSET DOMAIN heap  BY <1>1 DEF Roots
  <2>2. DOMAIN heap \subseteq {}  BY <2>1 DEF Reached, Closed
  <2> QED  BY <1>1, <2>2
<1>2. CASE root # NULL
  <2>1. root \in DOMAIN heap /\ Roots = {root}  BY <1>2 DEF NoDangling, Roots
  <2>2. /\ root \in Subtree(root) /\ Subtree(root) \subseteq DOMAIN heap
        /\ Closed(Subtree(root))
    BY <2>1, SubtreeFacts
  <2>3. DOMAIN heap \subseteq Subtree(root)  BY <2>1, <2>2 DEF Reached
  <2> QED  BY <1>2, <2>2, <2>3
<1> QED  BY <1>1, <1>2

LEMMA TearDownKeeps == ASSUME LoaderInv, TearDown PROVE LoaderInv' /\ Settled
<1>1. /\ result # NULL /\ result' = result /\ stack' = stack /\ stack = <<>>
      /\ root # NULL /\ root' = NULL /\ root_backup' = root_backup
      /\ heap' = [n \in DOMAIN heap \ Subtree(root) |-> heap[n]]
  BY DEF TearDown, ConfDeInit, LoaderInv
<1>2. NoDangling /\ Reached /\ root_backup = NULL  BY DEF LoaderInv, LoadTree
<1>3. DOMAIN heap = Subtree(root)  BY <1>1, <1>2, WholeTree
<1>4. DOMAIN heap' = {}  BY <1>1, <1>3
<1>5. LoadTree'
  <2>1. NoDangling' /\ Reached'  BY <1>1, <1>2, <1>4 DEF NoDangling, Reached
  <2> QED  BY <1>1, <1>2, <1>4, <2>1 DEF LoadTree
<1>6. Settled  BY <1>4 DEF Settled
<1>7. FramesAlive'
  <2>1. stack' \in Seq(FrameType) /\ DOMAIN stack' = {}  BY <1>1
  <2> QED  BY <2>1 DEF FramesAlive
<1>8. OpenInv'  BY <1>1 DEF OpenInv
<1> QED  BY <1>1, <1>5, <1>6, <1>7, <1>8 DEF LoaderInv, Preparing

LEMMA LoaderStart == LoaderInit => LoaderInv
<1> SUFFICES ASSUME LoaderInit PROVE LoaderInv  OBVIOUS
<1>1. Init /\ stack = <<>>  BY DEF LoaderInit
<1>2. ConfInv /\ root_backup = NULL /\ DOMAIN heap = {}  BY <1>1, ConfInvStart DEF Init
<1>3. LoadTree  BY <1>2, PreparedTree DEF Plain
<1>4. FramesAlive
  <2>1. stack \in Seq(FrameType) /\ DOMAIN stack = {}  BY <1>1
  <2> QED  BY <2>1 DEF FramesAlive
<1> QED  BY <1>1, <1>2, <1>3, <1>4 DEF LoaderInv, OpenInv

\* A load that failed for want of memory has left one node outside of the tree.
LeakInv ==
    /\ result = -1 /\ stack = <<>>
    /\ \E n \in Nodes : leaked = {n}
    /\ DOMAIN heap \ leaked = IF root = NULL THEN {} ELSE Subtree(root)

LoadInv == (LoaderInv /\ leaked = {}) \/ LeakInv

LEMMA NoNameLeaks == ASSUME LoaderInv, NoName PROVE LeakInv' /\ Settled
<1>1. PICK n \in Nodes \ DOMAIN heap, is_seq \in BOOLEAN :
        /\ heap' = [m \in DOMAIN heap \cup {n} |->
                      IF m = n THEN [NewNode(NULL, NULL) EXCEPT !.is_seq = is_seq]
                      ELSE heap[m]]
        /\ leaked' = {n}
  BY DEF NoName
<1>2. stack' = <<>> /\ result' = -1 /\ root' = root  BY DEF NoName
<1>3. /\ DOMAIN heap' = DOMAIN heap \cup {n} /\ n \notin DOMAIN heap
      /\ \A m \in DOMAIN heap : heap'[m] = heap[m]
  BY <1>1
<1>4. NoDangling /\ Reached /\ root_backup = NULL  BY DEF LoaderInv, LoadTree
<1>5. /\ DOMAIN heap = IF root = NULL THEN {} ELSE Subtree(root)
      /\ \A m \in DOMAIN heap : ToSet(heap[m].kids) \subseteq DOMAIN heap
  BY <1>4, WholeTree DEF NoDangling
<1>6. ASSUME root # NULL PROVE Subtree(root)' = Subtree(root)
  <2>1. root \in DOMAIN heap  BY <1>4, <1>6 DEF NoDangling
  <2>2. ASSUME NEW m, m \in Subtree(root)' PROVE m \in Subtree(root)
    <3>1. /\ DOMAIN heap \in SUBSET DOMAIN heap' /\ root' \in DOMAIN heap
          /\ \A x \in DOMAIN heap : ToSet(heap'[x].kids) \subseteq DOMAIN heap
      BY <1>2, <1>3, <1>5, <2>1
    <3>2. m \in DOMAIN heap  BY <2>2, <3>1 DEF Subtree
    <3> QED  BY <1>5, <1>6, <3>2
  <2>3. ASSUME NEW m \in Subtree(root) PROVE m \in Subtree(root)'
    <3>1. m \in DOMAIN heap  BY DEF Subtree
    <3>2. ASSUME NEW S \in SUBSET DOMAIN heap', root' \in S,
                 \A x \in S : ToSet(heap'[x].kids) \subseteq S
          PROVE  m \in S
      <4>1. PICK T : T = S \ {n}  OBVIOUS
      <4>2. T \in SUBSET DOMAIN heap /\ root \in T  BY <1>2, <1>3, <2>1, <3>2, <4>1
      <4>3. \A x \in T : ToSet(heap[x].kids) \subseteq T
        <5> TAKE x \in T
        <5>1. x \in DOMAIN heap /\ x \in S  BY <4>1, <4>2
        <5>2. ToSet(heap'[x].kids) \subseteq S /\ heap'[x] = heap[x]  BY <1>3, <3>2, <5>1
        <5>3. ToSet(heap[x].kids) \subseteq DOMAIN heap  BY <1>5, <5>1
        <5> QED  BY <1>3, <4>1, <5>2, <5>3
      <4>4. m \in T  BY <4>2, <4>3 DEF Subtree
      <4> QED  BY <4>1, <4>4
    <3> QED  BY <1>3, <3>1, <3>2 DEF Subtree
  <2> QED  BY <2>2, <2>3
<1>7. DOMAIN heap' \ leaked' = DOMAIN heap  BY <1>1, <1>3
<1>8. Settled  BY <1>3 DEF Settled
<1> QED  BY <1>1, <1>2, <1>5, <1>6, <1>7, <1>8 DEF LeakInv

\* There is nothing left to do but to free the tree.
LEMMA LeakStays ==
  ASSUME LeakInv, [LoaderNext]_allvars
  PROVE  /\ LeakInv' /\ Settled /\ leaked' = leaked
         /\ UNCHANGED <<stack, result, events, style, meaning>>
<1>1. result # NULL /\ stack = <<>>  BY LoaderAssumption DEF LeakInv
<1>2. UNCHANGED allvars \/ TearDown
  <2>1. ~ ConfYamlParse
    BY <1>1 DEF ConfYamlParse, DocumentStart, DocumentOfWrongVersion, DocumentEnd, KeyScalar,
       NodeScalar, Alias, SequenceStart, SequenceEnd, MappingStart, MappingEnd, NoName,
       StreamEnd, ParseError, Fails, Delivers
  <2> QED  BY <1>1, <2>1 DEF LoaderNext, Prepare, ConfYamlLoadFile, LoadFails
<1>3. CASE UNCHANGED allvars
  <2>1. UNCHANGED <<root, heap, stack, result, leaked, events, style, meaning>>
    BY <1>3 DEF allvars
  <2>2. LeakInv'  BY <2>1 DEF LeakInv, Subtree
  <2> QED  BY <2>1, <2>2 DEF Settled
<1>4. CASE TearDown
  <2>1. /\ UNCHANGED <<stack, result, leaked, events, style, meaning>>
        /\ root # NULL /\ root' = NULL
        /\ heap' = [n \in DOMAIN heap \ Subtree(root) |-> heap[n]]
    BY <1>4 DEF TearDown, ConfDeInit, history, libyaml
  <2>2. DOMAIN heap' = DOMAIN heap \ Subtree(root)  BY <2>1
  <2>3. DOMAIN heap' \ leaked' = {}  BY <2>1, <2>2 DEF LeakInv
  <2>4. LeakInv'  BY <2>1, <2>3 DEF LeakInv
  <2>5. Settled  BY <2>1, <2>2 DEF Settled
  <2> QED  BY <2>1, <2>4, <2>5
<1> QED  BY <1>2, <1>3, <1>4

LEMMA LoaderStep ==
  ASSUME LoaderInv, [LoaderNext]_allvars PROVE NoName \/ (LoaderInv' /\ Settled)
<1>1. CASE UNCHANGED allvars
  <2>1. UNCHANGED <<root, root_backup, heap, last, stack, result, open>>
    BY <1>1 DEF allvars
  <2>2. LoadTree' /\ Settled  BY <2>1, HeapSettles DEF LoaderInv
  <2>3. FramesAlive'  BY <2>1 DEF LoaderInv, FramesAlive
  <2>4. OpenInv'  BY <2>1 DEF LoaderInv, OpenInv, FramesFollow
  <2>5. Preparing' => Preparing  BY <2>1 DEF Preparing
  <2>6. ConfInv => ConfInv'  BY <2>1, SameHeapKeeps
  <2> QED  BY <2>1, <2>2, <2>3, <2>4, <2>5, <2>6 DEF LoaderInv
<1>2. CASE DocumentOfWrongVersion  BY <1>2, FailsKeeps DEF DocumentOfWrongVersion
<1>3. CASE ParseError  BY <1>3, FailsKeeps DEF ParseError
<1>4. CASE \E s \in Scalars : KeyScalar(s) \/ NodeScalar(s)
  BY <1>4, KeyScalarKeeps, NodeScalarKeeps
<1>5. CASE ConfYamlParse
  BY <1>2, <1>3, <1>4, <1>5, DocumentKeeps, AliasKeeps, SequenceStartKeeps,
     MappingStartKeeps, CollectionEndKeeps, StreamEndKeeps DEF ConfYamlParse
<1> QED
  BY <1>1, <1>5, PrepareKeeps, LoadFileKeeps, LoadFailsKeeps, TearDownKeeps DEF LoaderNext

\* No other step leaves a node behind.
LEMMA LeakedStays ==
  ASSUME [LoaderNext]_allvars PROVE NoName \/ leaked' = leaked
<1>1. CASE UNCHANGED allvars  BY <1>1 DEF allvars
<1>2. CASE ConfYamlParse
  BY <1>2 DEF ConfYamlParse, DocumentStart, DocumentOfWrongVersion, DocumentEnd, KeyScalar,
     NodeScalar, Alias, SequenceStart, SequenceEnd, MappingStart, MappingEnd,
     StreamEnd, ParseError, Fails, Delivers, history
<1>3. CASE Prepare \/ ConfYamlLoadFile \/ LoadFails \/ TearDown
  BY <1>3 DEF Prepare, ConfYamlLoadFile, LoadFails, TearDown, history
<1> QED  BY <1>1, <1>2, <1>3 DEF LoaderNext

LEMMA LoadStep == LoadInv /\ [LoaderNext]_allvars => LoadInv' /\ Settled
<1> SUFFICES ASSUME LoadInv, [LoaderNext]_allvars PROVE LoadInv' /\ Settled  OBVIOUS
<1>1. CASE LeakInv  BY <1>1, LeakStays DEF LoadInv
<1>2. CASE LoaderInv /\ leaked = {} /\ NoName  BY <1>2, NoNameLeaks DEF LoadInv
<1>3. CASE LoaderInv /\ leaked = {} /\ ~ NoName
  <2>1. LoaderInv' /\ Settled  BY <1>3, LoaderStep
  <2>2. leaked' = {}  BY <1>3, LeakedStays
  <2> QED  BY <2>1, <2>2 DEF LoadInv
<1> QED  BY <1>1, <1>2, <1>3 DEF LoadInv

LEMMA LoaderInvariant == LoaderSpec => []LoadInv
<1>1. LoaderInit => LoadInv
  <2> SUFFICES ASSUME LoaderInit PROVE LoadInv  OBVIOUS
  <2>1. LoaderInv  BY LoaderStart
  <2> QED  BY <2>1 DEF LoadInv, LoaderInit
<1>2. LoadInv /\ [LoaderNext]_allvars => LoadInv'  BY LoadStep
<1> QED  BY <1>1, <1>2, PTL DEF LoaderSpec

\* The calls of ConfYamlParse follow the collections of the file, however deep
\* they are and whether they are values or keys: one for each, of its kind, and
\* one for the stream, which its documents share.
THEOREM CallsFollow == LoaderSpec => []OneCallEach
<1>1. LoadInv => OneCallEach
  <2> SUFFICES ASSUME LoadInv, stack # <<>>
               PROVE  \E outer \in {1, 2} :
                        /\ \A i \in DOMAIN open : open[i].kind \in {"map", "seq"} <=> i > outer
                        /\ Len(stack) + outer = Len(open) + 1
                        /\ \A i \in 2..Len(stack) :
                              stack[i].inseq = (open[i + outer - 1].kind = "seq")
    BY DEF OneCallEach
  <2>4. LoaderInv  BY DEF LoadInv, LeakInv
  <2>1. /\ DOMAIN open = 1..Len(open) /\ Len(open) \in Nat
        /\ \E outer \in {1, 2} : FramesFollow(outer)
    BY <2>4, OpenFacts DEF LoaderInv
  <2>2. PICK outer \in {1, 2} : FramesFollow(outer)  BY <2>1
  <2>3. \A i \in DOMAIN open : open[i].kind \in {"map", "seq"} <=> i > outer
    <3> TAKE i \in DOMAIN open
    <3>1. i > outer => open[i].kind \in {"map", "seq"}  BY <2>2 DEF FramesFollow
    <3>2. ~ (i > outer) => open[i].kind \in {"stream", "doc"}
      <4>1. i = 1 \/ i > outer \/ (i = 2 /\ outer = 2)  BY <2>1
      <4> QED  BY <2>2, <4>1 DEF FramesFollow
    <3> QED  BY <3>1, <3>2
  <2> QED  BY <2>2, <2>3 DEF FramesFollow
<1> QED  BY <1>1, LoaderInvariant, PTL

\* The tree has every node that the loader made and that a call works on, so
\* ConfDeInit frees them all, whether the load succeeded or not; only an item
\* that no name could be allocated for is lost, and then the load has failed.
THEOREM LoadedNodesOwned == LoaderSpec => []AllInTree
<1>1. LoadInv => AllInTree
  <2> SUFFICES ASSUME LoadInv PROVE AllInTree  OBVIOUS
  <2>1. CASE LeakInv
    <3>1. DOMAIN stack = {}  BY <2>1 DEF LeakInv
    <3> QED  BY <2>1, <3>1 DEF LeakInv, AllInTree
  <2>2. CASE LoaderInv /\ leaked = {}
    <3>1. NoDangling /\ Reached /\ root_backup = NULL  BY <2>2 DEF LoaderInv, LoadTree
    <3>2. DOMAIN heap = IF root = NULL THEN {} ELSE Subtree(root)  BY <3>1, WholeTree
    <3>3. \A i \in DOMAIN stack : {stack[i].parent, stack[i].node} \subseteq DOMAIN heap
      BY <2>2 DEF LoaderInv, FramesAlive
    <3> QED  BY <2>2, <3>2, <3>3 DEF AllInTree
  <2> QED  BY <2>1, <2>2 DEF LoadInv
<1> QED  BY <1>1, LoaderInvariant, PTL

\* A file of any documents, collections and keys, loaded or failing on its way,
\* does not change a parameter that the program set with allow_override 0.
THEOREM SetForGoodStays == LoaderSpec => SetForGood
<1>1. LoadInv /\ [LoaderNext]_allvars =>
        [\A n \in DOMAIN heap \cap DOMAIN heap' :
            ~ heap[n].allow_override => heap'[n].val = heap[n].val]_allvars
  BY LoadStep DEF Settled
<1> QED  BY <1>1, LoaderInvariant, PTL DEF LoaderSpec, SetForGood

-----------------------------------------------------------------------------
(* What a file is understood as.  The paths that the file has given a node  *)
(* to are mapped to their nodes; the calls and libyaml's collections agree  *)
(* with the map.                                                            *)

IsPath(p) == p \in Seq(ToSet(p))

LEMMA AppendPath ==
  ASSUME NEW p, IsPath(p), NEW x
  PROVE  /\ IsPath(Append(p, x)) /\ Append(p, x) # <<>> /\ p # Append(p, x)
         /\ Len(Append(p, x)) = Len(p) + 1 /\ Len(p) \in Nat
         /\ Append(p, x)[Len(p) + 1] = x
         /\ \A i \in 1..Len(p) : Append(p, x)[i] = p[i]
<1>1. PICK t : t = Append(p, x)  BY Zenon
<1>2. p \in Seq(ToSet(p)) /\ Len(p) \in Nat  BY DEF IsPath
<1>3. /\ t \in Seq(ToSet(t)) /\ Len(t) = Len(p) + 1 /\ t[Len(p) + 1] = x
      /\ \A i \in 1..Len(p) : t[i] = p[i]
  BY ONLY <1>1, <1>2, AnyAppend
<1>4. Len(t) # Len(p) /\ Len(t) # 0  BY <1>2, <1>3
<1>5. t # <<>> /\ t # p
  <2>1. Len(<<>>) = 0  OBVIOUS
  <2> QED  BY <1>4, <2>1
<1> QED  BY <1>1, <1>2, <1>3, <1>5 DEF IsPath

LEMMA SameAppend ==
  ASSUME NEW p, IsPath(p), NEW q, IsPath(q), NEW x, NEW y, Append(p, x) = Append(q, y)
  PROVE  p = q /\ x = y
<1>0. PICK t : t = Append(p, x)  BY Zenon
<1>1. t = Append(p, x) /\ t = Append(q, y)  BY <1>0
<1>2. PICK n \in Nat, m \in Nat : n = Len(p) /\ m = Len(q)  BY AppendPath
<1>3. Len(t) = n + 1 /\ t[n + 1] = x /\ \A i \in 1..n : t[i] = p[i]
  BY <1>1, <1>2, AppendPath
<1>4. Len(t) = m + 1 /\ t[m + 1] = y /\ \A i \in 1..m : t[i] = q[i]
  BY <1>1, <1>2, AppendPath
<1>5. n = m  BY <1>3, <1>4
<1>6. x = y  BY <1>3, <1>4, <1>5
<1>7. \A i \in 1..n : p[i] = q[i]  BY <1>2, <1>3, <1>4, <1>5
<1>8. PICK S : S = ToSet(p) \cup ToSet(q)  BY Zenon
<1>9. p \in Seq(S) /\ q \in Seq(S)
  <2>1. ToSet(p) \subseteq S /\ ToSet(q) \subseteq S  BY <1>8
  <2> QED  BY <2>1, SeqMonotonic DEF IsPath
<1>10. p = q  BY <1>2, <1>5, <1>7, <1>9, SeqEqual
<1> QED  BY <1>6, <1>10

\* A lookup goes on where the lookup of a shorter path ended.
LEMMA FindIsAnyWalk ==
  ASSUME NEW tree, NEW path, Len(path) \in Nat, NEW f, Walk(tree, path, Len(path), f)
  PROVE  Find(tree, path) = f[Len(path)]
<1> DEFINE g == CHOOSE g : Walk(tree, path, Len(path), g)
<1>1. Walk(tree, path, Len(path), g)  BY WalkExists
<1>2. Find(tree, path) = g[Len(path)]  BY DEF Find, Walk, Step
<1> HIDE DEF g
<1>3. Agree(path, path, 1, Len(path))  BY DEF Agree
<1>4. Agree(f, g, 0, Len(path))  BY <1>1, <1>3, WalksAgree
<1> QED  BY <1>2, <1>4 DEF Agree

LEMMA FindNothing == ASSUME NEW tree PROVE Find(tree, <<>>) = tree
<1>1. PICK p : p = <<>>  OBVIOUS
<1>2. Len(p) = 0 /\ Len(p) \in Nat  BY <1>1
<1>3. PICK f : Walk(tree, p, Len(p), f)  BY <1>2, WalkExists
<1>4. f[0] = tree  BY ZenonT(60), <1>2, <1>3, WalkSteps
<1>5. Find(tree, p) = f[Len(p)]  BY <1>2, <1>3, FindIsAnyWalk
<1> QED  BY <1>1, <1>2, <1>4, <1>5

LEMMA FindAppend ==
  ASSUME NEW tree, NEW p, IsPath(p), NEW x
  PROVE  Find(tree, Append(p, x)) = Step(Find(tree, p), x)
<1>1. PICK t : t = Append(p, x)  BY Zenon
<1>2. PICK n \in Nat : n = Len(p)  BY AppendPath
<1>3. Len(t) = n + 1 /\ t[n + 1] = x /\ \A i \in 1..n : t[i] = p[i]
  BY <1>1, <1>2, AppendPath
<1>10. Len(t) \in Nat  BY <1>3
<1>4. PICK f : Walk(tree, t, Len(t), f)  BY <1>10, WalkExists
<1>5. PICK g : Walk(tree, p, Len(p), g)  BY Zenon, <1>2, WalkExists
<1>6. Find(tree, t) = f[n + 1]  BY <1>3, <1>4, FindIsAnyWalk
<1>7. Find(tree, p) = g[n]  BY <1>2, <1>5, FindIsAnyWalk
<1>8. f[n + 1] = Step(f[n], x)
  <2>1. n + 1 \in 1..(n + 1) /\ (n + 1) - 1 = n  OBVIOUS
  <2>2. Walk(tree, t, n + 1, f) /\ n + 1 \in Nat  BY <1>3, <1>4
  <2>4. PICK m \in Nat : m = n + 1  OBVIOUS
  <2>5. Walk(tree, t, m, f)  BY <2>2, <2>4
  <2>3. \A i \in 1..m : f[i] = Step(f[i - 1], t[i])  BY <2>5, WalkSteps
  <2> QED  BY <1>3, <2>1, <2>3, <2>4
<1>9. f[n] = g[n]
  <2>1. Agree(t, p, 1, n)  BY <1>3 DEF Agree
  <2>2. Walk(tree, t, n + 1, f) /\ n + 1 \in Nat /\ Walk(tree, p, n, g) /\ n <= n + 1
    BY <1>2, <1>3, <1>4, <1>5
  <2>3. Agree(f, g, 0, n)  BY <2>1, <2>2, WalksAgree
  <2> QED  BY <2>3 DEF Agree
<1> QED  BY <1>1, <1>6, <1>7, <1>8, <1>9

-----------------------------------------------------------------------------
\* The first child of a name in a heap, if there is one.
FirstNamed(h, n, name, c) ==
    LET kids == h[n].kids
    IN  \/ c = NULL /\ \A i \in 1..Len(kids) : h[kids[i]].name # name
        \/ \E i \in 1..Len(kids) :
              /\ c = kids[i] /\ h[kids[i]].name = name
              /\ \A j \in 1..Len(kids) : h[kids[j]].name = name => i <= j

LookupIn(h, n, name) ==
    LET kids == h[n].kids
        hits == {i \in DOMAIN kids : h[kids[i]].name = name}
    IN  IF hits = {} THEN NULL
        ELSE kids[CHOOSE i \in hits : \A j \in hits : i <= j]

LEMMA LookupFirst ==
  ASSUME NEW h, NEW n, h[n].kids \in Seq(Nodes), NEW name
  PROVE  FirstNamed(h, n, name, LookupIn(h, n, name))
<1> DEFINE kids == h[n].kids
           hits == {i \in DOMAIN kids : h[kids[i]].name = name}
<1>0. DOMAIN kids = 1..Len(kids)  OBVIOUS
<1>1. CASE hits = {}  BY <1>0, <1>1 DEF LookupIn, FirstNamed
<1>2. CASE hits # {}
  <2>1. hits \in SUBSET Nat  OBVIOUS
  <2>2. \E i \in hits : \A j \in hits : i <= j
    <3> HIDE DEF hits
    <3> QED  BY SMTT(60), <1>2, <2>1, Least
  <2> DEFINE i == CHOOSE i \in hits : \A j \in hits : i <= j
  <2>3. i \in hits /\ \A j \in hits : i <= j  BY Zenon, <2>2
  <2>4. LookupIn(h, n, name) = kids[i]  BY <1>2 DEF LookupIn
  <2> HIDE DEF i
  <2> QED  BY <1>0, <2>3, <2>4 DEF FirstNamed
<1> QED  BY <1>1, <1>2

LEMMA LookupIs == \A n, name : ConfNodeLookupChild(n, name) = LookupIn(heap, n, name)
BY DEF ConfNodeLookupChild, LookupIn

\* Two heaps in which a list of children differs at its end only.
LEMMA LookupStays ==
  ASSUME NEW h, NEW g, NEW n, NEW name,
         h[n].kids \in Seq(Nodes), g[n].kids \in Seq(Nodes),
         Len(h[n].kids) <= Len(g[n].kids),
         \A i \in 1..Len(h[n].kids) :
            /\ g[n].kids[i] = h[n].kids[i]
            /\ g[h[n].kids[i]].name = h[h[n].kids[i]].name,
         LookupIn(h, n, name) # NULL
  PROVE  LookupIn(g, n, name) = LookupIn(h, n, name)
<1>1. PICK c, d : c = LookupIn(h, n, name) /\ d = LookupIn(g, n, name)  OBVIOUS
<1>2. FirstNamed(h, n, name, c) /\ FirstNamed(g, n, name, d)  BY <1>1, LookupFirst
<1>3. PICK hk, gk : hk = h[n].kids /\ gk = g[n].kids  OBVIOUS
<1>4. PICK L \in Nat, M \in Nat : L = Len(hk) /\ M = Len(gk) /\ L <= M  BY SMTT(60), <1>3
<1>5. PICK i \in 1..L : /\ c = hk[i] /\ h[hk[i]].name = name
                        /\ \A j \in 1..L : h[hk[j]].name = name => i <= j
  BY Zenon, <1>1, <1>2, <1>3, <1>4 DEF FirstNamed
<1>6. i \in 1..M /\ gk[i] = hk[i] /\ g[gk[i]].name = name
  BY SMTT(60), <1>3, <1>4, <1>5
<1>7. PICK j \in 1..M : /\ d = gk[j] /\ g[gk[j]].name = name
                        /\ \A k \in 1..M : g[gk[k]].name = name => j <= k
  BY <1>2, <1>3, <1>4, <1>6 DEF FirstNamed
<1>8. j <= i /\ j \in 1..L  BY <1>4, <1>5, <1>6, <1>7
<1>9. h[hk[j]].name = name  BY Zenon, <1>3, <1>4, <1>7, <1>8
<1>10. i = j  BY <1>5, <1>8, <1>9
<1> QED  BY <1>1, <1>5, <1>6, <1>7, <1>10

\* A new last child is found if no other one had its name.
LEMMA LookupNew ==
  ASSUME NEW h, NEW g, NEW n, NEW name, NEW kid,
         h[n].kids \in Seq(Nodes), g[n].kids \in Seq(Nodes),
         Len(g[n].kids) = Len(h[n].kids) + 1,
         g[n].kids[Len(h[n].kids) + 1] = kid, g[kid].name = name,
         \A i \in 1..Len(h[n].kids) :
            /\ g[n].kids[i] = h[n].kids[i]
            /\ g[h[n].kids[i]].name = h[h[n].kids[i]].name,
         NULL \notin Nodes, LookupIn(h, n, name) = NULL
  PROVE  LookupIn(g, n, name) = kid
<1>1. PICK c, d : c = LookupIn(h, n, name) /\ d = LookupIn(g, n, name)  OBVIOUS
<1>2. FirstNamed(h, n, name, c) /\ FirstNamed(g, n, name, d)  BY <1>1, LookupFirst
<1>3. PICK hk \in Seq(Nodes), gk \in Seq(Nodes) : hk = h[n].kids /\ gk = g[n].kids  OBVIOUS
<1>4. PICK L \in Nat : L = Len(hk) /\ L + 1 = Len(gk)  BY <1>3
<1>5. \A i \in 1..L : hk[i] \in Nodes  BY <1>4
<1>6. c = NULL  BY SMTT(60), <1>1
<1>7. \A i \in 1..L : h[hk[i]].name # name
  BY <1>2, <1>3, <1>4, <1>5, <1>6 DEF FirstNamed
<1>8. L + 1 \in 1..(L + 1) /\ gk[L + 1] = kid /\ g[gk[L + 1]].name = name
  BY SMTT(60), <1>3, <1>4
<1>9. PICK j \in 1..(L + 1) : d = gk[j] /\ g[gk[j]].name = name
  BY Zenon, <1>2, <1>3, <1>4, <1>8 DEF FirstNamed
<1>10. j \notin 1..L  BY ZenonT(60), <1>3, <1>4, <1>7, <1>9
<1>11. j = L + 1  BY <1>10
<1> QED  BY <1>1, <1>8, <1>9, <1>11

\* A name that is found is that of a child.
LEMMA LookupKid ==
  ASSUME NEW h, NEW n, NEW name, h[n].kids \in Seq(Nodes), LookupIn(h, n, name) # NULL
  PROVE  /\ LookupIn(h, n, name) \in ToSet(h[n].kids)
         /\ h[LookupIn(h, n, name)].name = name
<1>1. PICK c : c = LookupIn(h, n, name)  OBVIOUS
<1>2. FirstNamed(h, n, name, c)  BY <1>1, LookupFirst
<1>3. PICK i \in 1..Len(h[n].kids) : c = h[n].kids[i] /\ h[h[n].kids[i]].name = name
  BY <1>1, <1>2 DEF FirstNamed
<1>4. i \in DOMAIN h[n].kids  BY <1>3
<1> QED  BY <1>1, <1>3, <1>4 DEF ToSet

\* The paths the file has given a node to: each leads on from another one, and
\* a lookup in its node finds the next node.
Hangs(at, p) ==
    \E q \in DOMAIN at : \E x :
        /\ p = Append(q, x) /\ heap[at[p]].name = x
        /\ LookupIn(heap, at[q], x) = at[p]

\* No node is in two lists.  What hangs at a node that the file has not come to
\* has not been come to either.
Waits(at) ==
    /\ \A m1, m2 \in DOMAIN heap :
          (\E m \in ToSet(heap[m1].kids) : m \in ToSet(heap[m2].kids)) => m1 = m2
    /\ \A m \in DOMAIN heap :
          (\A p \in DOMAIN at : at[p] # m) =>
             /\ ~ heap[m].is_seq
             /\ \A m2 \in ToSet(heap[m].kids), p \in DOMAIN at : at[p] # m2

Mapped(at) ==
    /\ Waits(at)
    /\ <<>> \in DOMAIN at /\ at[<<>>] = root
    /\ \A p \in DOMAIN at : IsPath(p) /\ at[p] \in DOMAIN heap
    /\ \A p, q \in DOMAIN at : at[p] = at[q] => p = q
    /\ \A p \in DOMAIN at : p # <<>> => Hangs(at, p)

\* A lookup of such a path finds its node.
LEMMA MapFinds ==
  ASSUME NEW at, Mapped(at), DOMAIN heap \subseteq Nodes
  PROVE  \A p \in DOMAIN at : ConfGetNode(p) = at[p]
<1> DEFINE T == {k \in Nat : \E p \in DOMAIN at : Len(p) = k /\ Find(root, p) # at[p]}
<1>0. \A p \in DOMAIN at : IsPath(p) /\ at[p] \in DOMAIN heap /\ Len(p) \in Nat
  BY AppendPath DEF Mapped
<1>1. SUFFICES ASSUME T # {} PROVE FALSE  BY <1>0 DEF ConfGetNode
<1>2. PICK k \in T : \A j \in T : k <= j
  <2>1. T \in SUBSET Nat  OBVIOUS
  <2> HIDE DEF T
  <2> QED  BY <1>1, <2>1, Least
<1>3. PICK p \in DOMAIN at : Len(p) = k /\ Find(root, p) # at[p]  BY <1>2
<1>4. p # <<>>  BY <1>3, FindNothing DEF Mapped
<1>5. PICK q \in DOMAIN at : \E x :
        /\ p = Append(q, x) /\ heap[at[p]].name = x
        /\ LookupIn(heap, at[q], x) = at[p]
  BY <1>4 DEF Mapped, Hangs
<1>6. PICK x : p = Append(q, x) /\ LookupIn(heap, at[q], x) = at[p]  BY <1>5
<1>7. Len(p) = Len(q) + 1 /\ Len(q) \in Nat  BY <1>0, <1>6, AppendPath
<1>8. Len(q) \notin T  BY <1>2, <1>3, <1>7
<1>9. Find(root, q) = at[q]  BY <1>7, <1>8
<1>10. at[q] # NULL  BY <1>0, ConfTreeAssumption
<1>11. Find(root, p) = Step(at[q], x)  BY <1>0, <1>6, <1>9, FindAppend
<1>12. Find(root, p) = LookupIn(heap, at[q], x)  BY <1>10, <1>11, LookupIs DEF Step
<1> QED  BY <1>3, <1>6, <1>12

-----------------------------------------------------------------------------
(* What the calls do to the heap *)

SameNode(m) ==
    /\ heap'[m].name = heap[m].name /\ heap'[m].is_seq = heap[m].is_seq
    /\ heap'[m].allow_override = heap[m].allow_override

NewKid(p, n, x) ==
    /\ p \in DOMAIN heap /\ n \in Nodes \ DOMAIN heap
    /\ DOMAIN heap' = DOMAIN heap \cup {n}
    /\ heap'[n].name = x /\ heap'[n].kids = <<>>
    /\ heap'[p].kids = Append(heap[p].kids, n)
    /\ \A m \in DOMAIN heap :
          SameNode(m) /\ (m # p => heap'[m].kids = heap[m].kids)

SameKids ==
    /\ DOMAIN heap' = DOMAIN heap
    /\ \A m \in DOMAIN heap : SameNode(m) /\ heap'[m].kids = heap[m].kids

\* Only this node's value changes, if any.
NewVal(p, v) ==
    /\ heap'[p].val = v
    /\ \A m \in DOMAIN heap : m # p => heap'[m].val = heap[m].val

LEMMA AddedIs ==
  ASSUME LoadTree, NEW parent \in DOMAIN heap, NEW n \in Nodes \ DOMAIN heap, NEW rec,
         rec.kids = <<>>, NEW v,
         \/ heap' = Added(parent, n, rec) /\ v = heap[parent].val
         \/ heap' = [Added(parent, n, rec) EXCEPT ![parent].val = v]
  PROVE  NewKid(parent, n, rec.name) /\ NewVal(parent, v) /\ heap'[n] = rec
<1>1. DOMAIN heap' = DOMAIN heap \cup {n} /\ n # parent  BY DEF Added
<1>2. heap'[n] = rec  BY Zenon, <1>1 DEF Added
<1>3. \A m \in DOMAIN heap : m # parent => heap'[m] = heap[m]  BY Zenon DEF Added
<1>4. PICK r : r = heap[parent]  OBVIOUS
<1>5. r = [name |-> r.name, val |-> r.val, allow_override |-> r.allow_override,
           is_seq |-> r.is_seq, parent |-> r.parent, kids |-> r.kids]
  BY <1>4 DEF LoadTree, LoadNode, IsNode
<1>6. heap'[parent] = [r EXCEPT !.val = v, !.kids = Append(r.kids, n)]
  <2>1. Added(parent, n, rec)[parent] = [r EXCEPT !.kids = Append(r.kids, n)]
    BY <1>1, <1>4 DEF Added
  <2>2. CASE heap' = Added(parent, n, rec) /\ v = r.val
    BY Zenon, <1>5, <2>1, <2>2
  <2>3. CASE heap' = [Added(parent, n, rec) EXCEPT ![parent].val = v]
    <3>1. parent \in DOMAIN Added(parent, n, rec)  BY DEF Added
    <3>2. heap'[parent] = [Added(parent, n, rec)[parent] EXCEPT !.val = v]  BY <2>3, <3>1
    <3> QED  BY Zenon, <1>5, <2>1, <3>2
  <2> QED  BY <1>4, <2>2, <2>3
<1>7. /\ heap'[parent].kids = Append(heap[parent].kids, n) /\ heap'[parent].val = v
      /\ SameNode(parent)
  BY <1>4, <1>5, <1>6 DEF SameNode
<1>8. \A m \in DOMAIN heap : SameNode(m)  BY <1>3, <1>7 DEF SameNode
<1>9. NewVal(parent, v)  BY <1>3, <1>7 DEF NewVal
<1> QED  BY <1>1, <1>2, <1>3, <1>7, <1>8, <1>9 DEF NewKid

LEMMA ValueIs ==
  ASSUME LoadTree, NEW node \in DOMAIN heap, NEW v, heap' = [heap EXCEPT ![node].val = v]
  PROVE  SameKids /\ NewVal(node, v)
<1>1. DOMAIN heap' = DOMAIN heap /\ \A m \in DOMAIN heap : m # node => heap'[m] = heap[m]
  OBVIOUS
<1>2. PICK r : r = heap[node]  OBVIOUS
<1>3. r = [name |-> r.name, val |-> r.val, allow_override |-> r.allow_override,
           is_seq |-> r.is_seq, parent |-> r.parent, kids |-> r.kids]
  BY <1>2 DEF LoadTree, LoadNode, IsNode
<1>4. heap'[node] = [r EXCEPT !.val = v]  BY <1>2
<1>5. heap'[node].val = v /\ heap'[node].kids = heap[node].kids /\ SameNode(node)
  BY <1>2, <1>3, <1>4 DEF SameNode
<1> QED  BY <1>1, <1>5 DEF SameKids, NewVal, SameNode

-----------------------------------------------------------------------------
\* The node of q gets a child x, or the file comes to the one that is there.
LooksOn(h, g, m) ==
    \A y : LookupIn(h, m, y) # NULL => LookupIn(g, m, y) = LookupIn(h, m, y)

Begins(at, q, n, x) ==
    /\ q \in DOMAIN at /\ DOMAIN heap' = DOMAIN heap \cup {n}
    /\ \A r \in DOMAIN at : at[r] # n
    /\ n \in DOMAIN heap => n \in ToSet(heap[at[q]].kids)
    /\ n \notin DOMAIN heap => heap'[n].kids = <<>>
    /\ heap'[n].name = x
    /\ LookupIn(heap', at[q], x) = n
    /\ ToSet(heap'[at[q]].kids) = ToSet(heap[at[q]].kids) \cup {n}
    /\ \A m \in DOMAIN heap :
          /\ SameNode(m) /\ LooksOn(heap, heap', m)
          /\ m # at[q] => heap'[m].kids = heap[m].kids

\* A node that nothing has been read for yet.
Unread(h, at, m) ==
    ~ h[m].is_seq /\ \A p \in DOMAIN at : at[p] # m

LEMMA KidsIn ==
  ASSUME LoadTree, NEW m \in DOMAIN heap
  PROVE  /\ heap[m].kids \in Seq(Nodes) /\ Len(heap[m].kids) \in Nat
         /\ \A i \in 1..Len(heap[m].kids) : heap[m].kids[i] \in DOMAIN heap
         /\ ToSet(heap[m].kids) \subseteq DOMAIN heap
<1>1. heap[m].kids \in Seq(Nodes) /\ ToSet(heap[m].kids) \subseteq DOMAIN heap
  BY DEF LoadTree, LoadNode, NoDangling
<1>2. DOMAIN heap[m].kids = 1..Len(heap[m].kids)  BY <1>1
<1>3. \A i \in 1..Len(heap[m].kids) : heap[m].kids[i] \in ToSet(heap[m].kids)
  BY <1>2 DEF ToSet
<1> QED  BY <1>1, <1>3

LEMMA SameKidsLook ==
  ASSUME LoadTree, SameKids, NEW m \in DOMAIN heap PROVE LooksOn(heap, heap', m)
<1>1. PICK h, g : h = heap /\ g = heap'  OBVIOUS
<1>2. /\ h[m].kids \in Seq(Nodes) /\ Len(h[m].kids) \in Nat
      /\ \A i \in 1..Len(h[m].kids) : h[m].kids[i] \in DOMAIN heap
  BY <1>1, KidsIn
<1>3. g[m].kids = h[m].kids  BY <1>1 DEF SameKids
<1>4. \A i \in 1..Len(h[m].kids) : g[h[m].kids[i]].name = h[h[m].kids[i]].name
  BY <1>1, <1>2 DEF SameKids, SameNode
<1>5. g[m].kids \in Seq(Nodes) /\ Len(h[m].kids) <= Len(g[m].kids)  BY <1>2, <1>3
<1>6. ASSUME NEW y, LookupIn(h, m, y) # NULL PROVE LookupIn(g, m, y) = LookupIn(h, m, y)
  BY ONLY <1>2, <1>3, <1>4, <1>5, <1>6, LookupStays
<1> QED  BY <1>1, <1>6 DEF LooksOn

LEMMA NewKidBegins ==
  ASSUME LoadTree, NEW at, Mapped(at), NEW q \in DOMAIN at, NEW n, NEW x,
         NewKid(at[q], n, x), LookupIn(heap, at[q], x) = NULL
  PROVE  Begins(at, q, n, x)
<1>1. PICK p \in DOMAIN heap : p = at[q]  BY DEF Mapped
<1>2. PICK h, g : h = heap /\ g = heap'  OBVIOUS
<1>3. \A m \in DOMAIN heap :
        /\ h[m].kids \in Seq(Nodes) /\ Len(h[m].kids) \in Nat
        /\ \A i \in 1..Len(h[m].kids) : h[m].kids[i] \in DOMAIN heap
  BY <1>2, KidsIn
<1>4. n \in Nodes /\ n \notin DOMAIN heap /\ DOMAIN heap' = DOMAIN heap \cup {n}
  BY DEF NewKid
<1>5. /\ g[p].kids = Append(h[p].kids, n) /\ g[n].name = x /\ g[n].kids = <<>>
      /\ \A m \in DOMAIN heap : SameNode(m) /\ (m # p => g[m].kids = h[m].kids)
  BY <1>1, <1>2 DEF NewKid
<1>6. /\ g[p].kids \in Seq(Nodes) /\ Len(g[p].kids) = Len(h[p].kids) + 1
      /\ g[p].kids[Len(h[p].kids) + 1] = n
      /\ \A i \in 1..Len(h[p].kids) : g[p].kids[i] = h[p].kids[i]
  BY <1>1, <1>3, <1>4, <1>5, AppendProperties
<1>7. \A m \in DOMAIN heap : \A i \in 1..Len(h[m].kids) :
        g[h[m].kids[i]].name = h[h[m].kids[i]].name
  BY <1>2, <1>3, <1>5 DEF SameNode
<1>8. \A m \in DOMAIN heap : LooksOn(h, g, m)
  <2> SUFFICES ASSUME NEW m \in DOMAIN heap, NEW y, LookupIn(h, m, y) # NULL
               PROVE  LookupIn(g, m, y) = LookupIn(h, m, y)
    BY DEF LooksOn
  <2>1. /\ g[m].kids \in Seq(Nodes) /\ Len(h[m].kids) <= Len(g[m].kids)
        /\ \A i \in 1..Len(h[m].kids) : g[m].kids[i] = h[m].kids[i]
    <3>1. CASE m = p
      <4>1. Len(h[p].kids) <= Len(h[p].kids) + 1  BY <1>1, <1>3
      <4> QED  BY <1>6, <3>1, <4>1
    <3>2. CASE m # p  BY <1>3, <1>5, <3>2
    <3> QED  BY <3>1, <3>2
  <2>2. h[m].kids \in Seq(Nodes)  BY <1>3
  <2>3. \A i \in 1..Len(h[m].kids) : g[h[m].kids[i]].name = h[h[m].kids[i]].name  BY <1>7
  <2>4. \A i \in 1..Len(h[m].kids) :
          /\ g[m].kids[i] = h[m].kids[i]
          /\ g[h[m].kids[i]].name = h[h[m].kids[i]].name
    BY <2>1, <2>3
  <2>5. LookupIn(h, m, y) # NULL  OBVIOUS
  <2> QED  BY ONLY <2>1, <2>2, <2>4, <2>5, LookupStays
<1>9. LookupIn(g, p, x) = n
  <2>1. h[p].kids \in Seq(Nodes) /\ NULL \notin Nodes /\ LookupIn(h, p, x) = NULL
    BY <1>1, <1>2, <1>3, ConfTreeAssumption
  <2>2. \A i \in 1..Len(h[p].kids) :
          /\ g[p].kids[i] = h[p].kids[i]
          /\ g[h[p].kids[i]].name = h[h[p].kids[i]].name
    BY Zenon, <1>1, <1>6, <1>7
  <2>3. g[n].name = x  BY <1>5
  <2> QED  BY ONLY Zenon, <1>6, <2>1, <2>2, <2>3, LookupNew
<1>10. ToSet(g[p].kids) = ToSet(h[p].kids) \cup {n}
  <2>1. PICK L \in Nat : L = Len(h[p].kids)  BY <1>1, <1>3
  <2>2. DOMAIN h[p].kids = 1..L /\ DOMAIN g[p].kids = 1..(L + 1)
    BY <1>1, <1>3, <1>6, <2>1
  <2>3. \A i \in 1..(L + 1) : i = L + 1 \/ i \in 1..L  OBVIOUS
  <2>4. L + 1 \in 1..(L + 1) /\ \A i \in 1..L : i \in 1..(L + 1)  OBVIOUS
  <2> QED  BY Zenon, <1>6, <2>1, <2>2, <2>3, <2>4 DEF ToSet
<1>11. \A r \in DOMAIN at : at[r] # n  BY <1>4 DEF Mapped
<1> QED
  BY <1>1, <1>2, <1>4, <1>5, <1>8, <1>9, <1>10, <1>11 DEF Begins

LEMMA FoundBegins ==
  ASSUME LoadTree, NEW at, Mapped(at), NEW q \in DOMAIN at, SameKids, NEW n, NEW x,
         LookupIn(heap, at[q], x) = n, n # NULL, Unread(heap, at, n)
  PROVE  Begins(at, q, n, x)
<1>1. PICK P \in DOMAIN heap : P = at[q]  BY DEF Mapped
<1>2. heap[P].kids \in Seq(Nodes) /\ ToSet(heap[P].kids) \subseteq DOMAIN heap
  BY <1>1, KidsIn
<1>3. n \in ToSet(heap[P].kids) /\ heap[n].name = x  BY <1>1, <1>2, LookupKid
<1>4. n \in DOMAIN heap  BY <1>2, <1>3
<1>5. \A m \in DOMAIN heap : SameNode(m) /\ heap'[m].kids = heap[m].kids  BY DEF SameKids
<1>6. \A m \in DOMAIN heap : LooksOn(heap, heap', m)  BY SameKidsLook
<1>7. LookupIn(heap', P, x) = n  BY <1>1, <1>6 DEF LooksOn
<1>8. heap'[n].name = x  BY <1>3, <1>4, <1>5 DEF SameNode
<1>9. \A r \in DOMAIN at : at[r] # n  BY DEF Unread
<1>10. ToSet(heap'[P].kids) = ToSet(heap[P].kids) \cup {n}  BY <1>1, <1>3, <1>5
<1>11. DOMAIN heap' = DOMAIN heap \cup {n}  BY <1>4 DEF SameKids
<1> QED
  BY <1>1, <1>3, <1>4, <1>5, <1>6, <1>7, <1>8, <1>9, <1>10, <1>11 DEF Begins

\* The node is in no other list.
LEMMA BeginsAlone ==
  ASSUME LoadTree, NEW at, Mapped(at), NEW q, NEW n, NEW x, Begins(at, q, n, x),
         NEW m \in DOMAIN heap, n \in ToSet(heap[m].kids)
  PROVE  m = at[q]
<1>1. ToSet(heap[m].kids) \subseteq DOMAIN heap  BY KidsIn
<1>2. n \in DOMAIN heap  BY <1>1
<1>3. n \in ToSet(heap[at[q]].kids) /\ at[q] \in DOMAIN heap  BY <1>2 DEF Begins, Mapped
<1> QED  BY <1>3 DEF Mapped, Waits

\* The map goes on with a node for k.
Longer(at, k, n) == [p \in DOMAIN at \cup {k} |-> IF p = k THEN n ELSE at[p]]

LEMMA BeginsNew ==
  ASSUME LoadTree, NEW at, Mapped(at), NEW q, NEW n, NEW x, Begins(at, q, n, x)
  PROVE  Append(q, x) \notin DOMAIN at /\ IsPath(Append(q, x)) /\ Append(q, x) # <<>>
<1>1. IsPath(q) /\ q \in DOMAIN at /\ at[q] \in DOMAIN heap  BY DEF Mapped, Begins
<1>2. IsPath(Append(q, x)) /\ Append(q, x) # <<>>  BY <1>1, AppendPath
<1>3. ASSUME Append(q, x) \in DOMAIN at PROVE FALSE
  <2>1. PICK k \in DOMAIN at : k = Append(q, x)  BY Zenon, <1>3
  <2>2. Hangs(at, k)  BY Zenon, <1>2, <2>1 DEF Mapped
  <2>3. PICK r \in DOMAIN at : \E y : k = Append(r, y) /\ LookupIn(heap, at[r], y) = at[k]
    BY <2>2 DEF Hangs
  <2>4. PICK y : k = Append(r, y) /\ LookupIn(heap, at[r], y) = at[k]  BY <2>3
  <2>5. IsPath(r) /\ at[k] \in DOMAIN heap  BY DEF Mapped
  <2>6. r = q /\ y = x
    <3>1. IsPath(r) /\ IsPath(q) /\ Append(r, y) = Append(q, x)  BY <1>1, <2>1, <2>4, <2>5
    <3> QED  BY ONLY <3>1, SameAppend
  <2>7. LookupIn(heap, at[q], x) = at[k] /\ at[k] # NULL
    BY <2>4, <2>5, <2>6, ConfTreeAssumption DEF LoadTree
  <2>8. LooksOn(heap, heap', at[q])  BY <1>1 DEF Begins
  <2>9. LookupIn(heap', at[q], x) = at[k]  BY <2>7, <2>8 DEF LooksOn
  <2> QED  BY <2>9 DEF Begins
<1> QED  BY <1>2, <1>3

LEMMA BeginsMapped ==
  ASSUME LoadTree, NEW at, Mapped(at), NEW q, NEW n, NEW x, Begins(at, q, n, x),
         root' = root, NEW k, k = Append(q, x), NEW at2, at2 = Longer(at, k, n)
  PROVE  Mapped(at2)'
<1>1. k \notin DOMAIN at /\ IsPath(k) /\ k # <<>>
  <2>1. Append(q, x) \notin DOMAIN at /\ IsPath(Append(q, x)) /\ Append(q, x) # <<>>
    BY ONLY LoadTree, Mapped(at), Begins(at, q, n, x), BeginsNew
  <2> QED  BY <2>1
<1>2. DOMAIN at2 = DOMAIN at \cup {k} /\ at2[k] = n /\ \A p \in DOMAIN at : at2[p] = at[p]
  BY ONLY <1>1, at2 = Longer(at, k, n) DEF Longer
<1>3. /\ q \in DOMAIN at /\ DOMAIN heap' = DOMAIN heap \cup {n}
      /\ \A r \in DOMAIN at : at[r] # n
      /\ n \notin DOMAIN heap => heap'[n].kids = <<>>
      /\ heap'[n].name = x /\ LookupIn(heap', at[q], x) = n
      /\ \A m \in DOMAIN heap : SameNode(m) /\ LooksOn(heap, heap', m)
  BY DEF Begins
<1>4. /\ <<>> \in DOMAIN at /\ at[<<>>] = root
      /\ \A p \in DOMAIN at : IsPath(p) /\ at[p] \in DOMAIN heap
      /\ \A p, r \in DOMAIN at : at[p] = at[r] => p = r
      /\ \A p \in DOMAIN at : p # <<>> => Hangs(at, p)
  BY DEF Mapped
<1>5. \A p \in DOMAIN at2 : p = k \/ p \in DOMAIN at  BY <1>2
<1>6. \A p \in DOMAIN at2 : IsPath(p) /\ at2[p] \in DOMAIN heap'
  BY ZenonT(60), <1>1, <1>2, <1>3, <1>4, <1>5
<1>7. \A p, r \in DOMAIN at2 : at2[p] = at2[r] => p = r
  <2> SUFFICES ASSUME NEW p \in DOMAIN at2, NEW r \in DOMAIN at2, at2[p] = at2[r]
               PROVE  p = r
    OBVIOUS
  <2>1. CASE p = k /\ r = k  BY <2>1
  <2>2. CASE p = k /\ r \in DOMAIN at  BY Zenon, <1>2, <1>3, <2>2
  <2>3. CASE p \in DOMAIN at /\ r = k  BY <1>2, <1>3, <2>3
  <2>4. CASE p \in DOMAIN at /\ r \in DOMAIN at  BY <1>2, <1>4, <2>4
  <2> QED  BY <1>5, <2>1, <2>2, <2>3, <2>4
<1>8. ASSUME NEW p \in DOMAIN at2, p # <<>>
      PROVE  \E r \in DOMAIN at2 : \E y :
                /\ p = Append(r, y) /\ heap'[at2[p]].name = y
                /\ LookupIn(heap', at2[r], y) = at2[p]
  <2>1. CASE p = k  BY <1>2, <1>3, <2>1
  <2>2. CASE p \in DOMAIN at
    <3>1. PICK r \in DOMAIN at : \E y :
            /\ p = Append(r, y) /\ heap[at[p]].name = y
            /\ LookupIn(heap, at[r], y) = at[p]
      BY <1>4, <1>8, <2>2 DEF Hangs
    <3>2. PICK y : /\ p = Append(r, y) /\ heap[at[p]].name = y
                   /\ LookupIn(heap, at[r], y) = at[p]
      BY <3>1
    <3>3. at[p] \in DOMAIN heap /\ at[r] \in DOMAIN heap  BY <1>4, <2>2
    <3>4. at[p] # NULL  BY <3>3, ConfTreeAssumption DEF LoadTree
    <3>5. LookupIn(heap', at[r], y) = at[p]  BY <1>3, <3>2, <3>3, <3>4 DEF LooksOn
    <3>6. heap'[at[p]].name = y  BY <1>3, <3>2, <3>3 DEF SameNode
    <3>7. at2[p] = at[p] /\ at2[r] = at[r] /\ r \in DOMAIN at2  BY <1>2, <2>2
    <3> QED  BY <3>2, <3>5, <3>6, <3>7
  <2> QED  BY <1>5, <2>1, <2>2
<1>9. \A p \in DOMAIN at2 : p # <<>> => Hangs(at2, p)'  BY <1>8 DEF Hangs
<1>10. <<>> \in DOMAIN at2 /\ at2[<<>>] = root'  BY <1>2, <1>4
<1>11. PICK h, g, P : h = heap /\ g = heap' /\ P = at[q] /\ P \in DOMAIN heap
  BY <1>3, <1>4
<1>12. /\ \A m \in DOMAIN h : ToSet(h[m].kids) \subseteq DOMAIN h
       /\ \A m \in DOMAIN h : n \in ToSet(h[m].kids) => m = P
  <2>1. ASSUME NEW m \in DOMAIN heap, n \in ToSet(heap[m].kids) PROVE m = at[q]
    BY ONLY LoadTree, Mapped(at), Begins(at, q, n, x), <2>1, BeginsAlone
  <2> QED  BY <1>11, <2>1, KidsIn
<1>13. /\ \A m \in DOMAIN h : m # P => ToSet(g[m].kids) = ToSet(h[m].kids)
       /\ ToSet(g[P].kids) = ToSet(h[P].kids) \cup {n}
       /\ n \notin DOMAIN h => ToSet(g[n].kids) = {}
       /\ DOMAIN g = DOMAIN h \cup {n}
       /\ \A m \in DOMAIN h : g[m].is_seq = h[m].is_seq
  <2>1. \A m \in DOMAIN heap : m # at[q] => heap'[m].kids = heap[m].kids  BY DEF Begins
  <2>2. ToSet(heap'[at[q]].kids) = ToSet(heap[at[q]].kids) \cup {n}  BY DEF Begins
  <2>3. ToSet(<<>>) = {}  BY DEF ToSet
  <2> QED  BY <1>3, <1>11, <2>1, <2>2, <2>3 DEF SameNode
<1>14. /\ \A m1, m2 \in DOMAIN h :
              (\E m \in ToSet(h[m1].kids) : m \in ToSet(h[m2].kids)) => m1 = m2
       /\ \A m \in DOMAIN h : (\A p \in DOMAIN at : at[p] # m) =>
              /\ ~ h[m].is_seq
              /\ \A m2 \in ToSet(h[m].kids), p \in DOMAIN at : at[p] # m2
  BY <1>11 DEF Mapped, Waits
<1>15. ASSUME NEW m1 \in DOMAIN g, NEW m2 \in DOMAIN g, NEW m \in ToSet(g[m1].kids),
              m \in ToSet(g[m2].kids)
       PROVE  m1 = m2
  <2>1. m1 \in DOMAIN h /\ m2 \in DOMAIN h  BY <1>13, <1>15
  <2>2. CASE m = n
    <3>1. \A l \in DOMAIN h : n \in ToSet(g[l].kids) => l = P  BY <1>12, <1>13
    <3> QED  BY <1>15, <2>1, <2>2, <3>1
  <2>3. CASE m # n
    <3>1. \A l \in DOMAIN h : m \in ToSet(g[l].kids) => m \in ToSet(h[l].kids)
      BY <1>13, <2>3
    <3> QED  BY <1>14, <1>15, <2>1, <3>1
  <2> QED  BY <2>2, <2>3
<1>16. ASSUME NEW m \in DOMAIN g, \A p \in DOMAIN at2 : at2[p] # m
       PROVE  /\ ~ g[m].is_seq
              /\ \A m2 \in ToSet(g[m].kids), p \in DOMAIN at2 : at2[p] # m2
  <2>1. m # n /\ m # P /\ \A p \in DOMAIN at : at[p] # m  BY <1>2, <1>3, <1>11, <1>16
  <2>2. m \in DOMAIN h  BY <1>13, <2>1
  <2>3. n \notin ToSet(h[m].kids)  BY <1>12, <2>1, <2>2
  <2>4. ~ h[m].is_seq /\ \A m2 \in ToSet(h[m].kids), p \in DOMAIN at : at[p] # m2
    BY <1>14, <2>1, <2>2
  <2>5. ToSet(g[m].kids) = ToSet(h[m].kids) /\ g[m].is_seq = h[m].is_seq
    BY <1>13, <2>1, <2>2
  <2> QED  BY <1>2, <1>5, <2>3, <2>4, <2>5
<1>17. Waits(at2)'
  <2>1. \A m1, m2 \in DOMAIN heap' :
          (\E m \in ToSet(heap'[m1].kids) : m \in ToSet(heap'[m2].kids)) => m1 = m2
    BY <1>11, <1>15
  <2>2. \A m \in DOMAIN heap' : (\A p \in DOMAIN at2 : at2[p] # m) =>
          /\ ~ heap'[m].is_seq
          /\ \A m2 \in ToSet(heap'[m].kids), p \in DOMAIN at2 : at2[p] # m2
    BY <1>11, <1>16
  <2> QED  BY <2>1, <2>2 DEF Waits
<1> QED  BY <1>6, <1>7, <1>9, <1>10, <1>17 DEF Mapped

\* What hangs at the node has its turn later.
LEMMA BeginsWaits ==
  ASSUME LoadTree, NEW at, Mapped(at), NEW q, NEW n, NEW x, Begins(at, q, n, x),
         NEW k, k = Append(q, x), NEW at2, at2 = Longer(at, k, n)
  PROVE  \A m \in ToSet(heap'[n].kids) : Unread(heap', at2, m)
<1>1. /\ q \in DOMAIN at /\ at[q] # n /\ (n \notin DOMAIN heap => heap'[n].kids = <<>>)
      /\ \A r \in DOMAIN at : at[r] # n
      /\ \A m \in DOMAIN heap : SameNode(m) /\ (m # at[q] => heap'[m].kids = heap[m].kids)
  BY DEF Begins
<1>2. SUFFICES ASSUME NEW m \in ToSet(heap'[n].kids) PROVE Unread(heap', at2, m)  OBVIOUS
<1>3. n \in DOMAIN heap
  <2>1. ToSet(<<>>) = {}  BY DEF ToSet
  <2> QED  BY <1>1, <1>2, <2>1
<1>4. m \in ToSet(heap[n].kids)  BY <1>1, <1>2, <1>3
<1>5. m \in DOMAIN heap  BY <1>3, <1>4, KidsIn
<1>6. \A p \in DOMAIN at : at[p] # m  BY <1>1, <1>3, <1>4 DEF Mapped, Waits
<1>7. ~ heap'[m].is_seq
  <2>1. ~ heap[m].is_seq  BY <1>5, <1>6 DEF Mapped, Waits
  <2> QED  BY <1>1, <1>5, <2>1 DEF SameNode
<1>8. m # n
  <2>1. m = n => n = at[q]
    BY ONLY LoadTree, Mapped(at), Begins(at, q, n, x), <1>3, <1>4, BeginsAlone
  <2> QED  BY <1>1, <2>1
<1>9. \A p \in DOMAIN at2 : at2[p] # m  BY <1>6, <1>8 DEF Longer
<1> QED  BY <1>7, <1>9 DEF Unread

LEMMA MappedStays ==
  ASSUME LoadTree, NEW at, Mapped(at), SameKids, root' = root PROVE Mapped(at)'
<1>1. /\ <<>> \in DOMAIN at /\ at[<<>>] = root'
      /\ \A p \in DOMAIN at : IsPath(p) /\ at[p] \in DOMAIN heap /\ at[p] \in DOMAIN heap'
      /\ \A p, r \in DOMAIN at : at[p] = at[r] => p = r
      /\ \A p \in DOMAIN at : p # <<>> => Hangs(at, p)
  BY DEF Mapped, SameKids
<1>2. ASSUME NEW p \in DOMAIN at, p # <<>>
      PROVE  \E r \in DOMAIN at : \E y :
                /\ p = Append(r, y) /\ heap'[at[p]].name = y
                /\ LookupIn(heap', at[r], y) = at[p]
  <2>1. PICK r \in DOMAIN at : \E y :
          /\ p = Append(r, y) /\ heap[at[p]].name = y /\ LookupIn(heap, at[r], y) = at[p]
    BY <1>1, <1>2 DEF Hangs
  <2>2. PICK y : p = Append(r, y) /\ heap[at[p]].name = y /\ LookupIn(heap, at[r], y) = at[p]
    BY <2>1
  <2>3. at[p] # NULL  BY <1>1, ConfTreeAssumption DEF LoadTree
  <2>4. LooksOn(heap, heap', at[r])  BY <1>1, SameKidsLook
  <2>5. LookupIn(heap', at[r], y) = at[p]  BY <2>2, <2>3, <2>4 DEF LooksOn
  <2>6. heap'[at[p]].name = y  BY <1>1, <2>2 DEF SameKids, SameNode
  <2> QED  BY <2>2, <2>5, <2>6
<1>3. \A p \in DOMAIN at : p # <<>> => Hangs(at, p)'  BY <1>2 DEF Hangs
<1>4. Waits(at)'
  <2>1. Waits(at)  BY DEF Mapped
  <2> QED  BY <2>1 DEF Waits, SameKids, SameNode
<1> QED  BY <1>1, <1>3, <1>4 DEF Mapped

-----------------------------------------------------------------------------
\* What the file says so far has been understood.
Said(at) ==
    \A p \in DOMAIN meaning :
        /\ p \in DOMAIN at
        /\ heap[at[p]].val = meaning[p] \/ ~ heap[at[p]].allow_override

\* A step in which the file says nothing.
LEMMA SaidStays ==
  ASSUME NEW at, Mapped(at), Said(at), NEW at2,
         \A p \in DOMAIN at : p \in DOMAIN at2 /\ at2[p] = at[p],
         \A m \in DOMAIN heap : SameNode(m) /\ heap'[m].val = heap[m].val,
         meaning' = meaning
  PROVE  Said(at2)'
<1>1. \A p \in DOMAIN at : at[p] \in DOMAIN heap  BY DEF Mapped
<1>2. \A p \in DOMAIN meaning : p \in DOMAIN at  BY DEF Said
<1>3. ASSUME NEW p \in DOMAIN meaning
      PROVE  /\ p \in DOMAIN at2
             /\ heap'[at2[p]].val = meaning[p] \/ ~ heap'[at2[p]].allow_override
  BY <1>1, <1>2 DEF Said, SameNode
<1> QED  BY <1>3 DEF Said

\* A step in which it gives k a value.
LEMMA SaidMore ==
  ASSUME NEW at, Mapped(at), Said(at), NEW at2,
         \A p \in DOMAIN at : p \in DOMAIN at2 /\ at2[p] = at[p],
         \A m \in DOMAIN heap : SameNode(m),
         NEW k \in DOMAIN at2, NEW v, meaning' = Meant(k, v),
         \A p \in DOMAIN at : p # k => heap'[at[p]].val = heap[at[p]].val,
         heap'[at2[k]].val = v \/ ~ heap'[at2[k]].allow_override
  PROVE  Said(at2)'
<1>1. \A p \in DOMAIN at : at[p] \in DOMAIN heap  BY DEF Mapped
<1>2. \A p \in DOMAIN meaning : p \in DOMAIN at  BY DEF Said
<1>3. DOMAIN meaning' = DOMAIN meaning \cup {k} /\ meaning'[k] = v
      /\ \A p \in DOMAIN meaning : p # k => meaning'[p] = meaning[p]
  BY DEF Meant
<1>4. ASSUME NEW p \in DOMAIN meaning'
      PROVE  /\ p \in DOMAIN at2
             /\ heap'[at2[p]].val = meaning'[p] \/ ~ heap'[at2[p]].allow_override
  <2>1. CASE p = k  BY <1>3, <2>1
  <2>2. CASE p # k
    <3>1. p \in DOMAIN meaning /\ meaning'[p] = meaning[p]  BY <1>3, <2>2
    <3>2. heap[at[p]].val = meaning[p] \/ ~ heap[at[p]].allow_override
      BY <3>1 DEF Said
    <3>3. p \in DOMAIN at /\ at2[p] = at[p] /\ p \in DOMAIN at2  BY <1>2, <3>1
    <3>4. SameNode(at[p]) /\ heap'[at[p]].val = heap[at[p]].val  BY <1>1, <2>2, <3>3
    <3> QED  BY <3>1, <3>2, <3>3, <3>4 DEF SameNode
  <2> QED  BY <2>1, <2>2
<1> QED  BY <1>4 DEF Said

-----------------------------------------------------------------------------
(* A frame f and the collection c that it is for, in the heap h after e     *)
(* events; item says whether the collection is an item of a sequence.       *)

\* A key of this node is not spelled in another way than its parameter.
Spelled(h, n, x) == h[n].name \in Unmangled \/ Mangle(x) = x

ItemsRead(h, e, f, c) ==
    /\ f.node = f.parent /\ f.seq_idx = c.items /\ c.items \in 0..e
    /\ \A m \in ToSet(h[f.parent].kids) : \E j \in 0..e : j < c.items /\ h[m].name = Index(j)

\* The parent of the keys of an item gets the first one for its value.
KeysRead(h, at, f, c, item) ==
    /\ \A k \in c.keys : \E x : k = Append(c.path, x) /\ Spelled(h, f.parent, x)
    /\ \A m \in ToSet(h[f.parent].kids) :
          \/ Append(c.path, h[m].name) \in c.keys
          \/ Unread(h, at, m)
    /\ (h[f.parent].is_seq /\ h[f.parent].val = NULL) <=> (item /\ c.keys = {})

FrameReads(h, e, at, f, c, item) ==
    /\ c.path \in DOMAIN at /\ at[c.path] = f.parent
    /\ c.kind = "seq" => ItemsRead(h, e, f, c)
    /\ c.kind = "map" => KeysRead(h, at, f, c, item)

\* A step that works on another node.
OtherWork(h, at, f, c, g, at2, f2, c2) ==
    /\ f2.parent = f.parent
    /\ c2.path = c.path /\ c2.kind = c.kind /\ c2.keys = c.keys
    /\ c.kind = "seq" =>
          f2.node = f.node /\ f2.seq_idx = f.seq_idx /\ c2.items = c.items
    /\ c.path \in DOMAIN at2 /\ at2[c.path] = at[c.path]
    /\ g[f.parent].name = h[f.parent].name /\ g[f.parent].kids = h[f.parent].kids
    /\ g[f.parent].is_seq = h[f.parent].is_seq /\ g[f.parent].val = h[f.parent].val
    /\ \A m \in ToSet(h[f.parent].kids) :
          /\ g[m].name = h[m].name
          /\ Unread(h, at, m) => Unread(g, at2, m)

LEMMA FrameStays ==
  ASSUME NEW h, NEW e \in Nat, NEW at, NEW f, NEW c, NEW item \in BOOLEAN,
         FrameReads(h, e, at, f, c, item),
         NEW g, NEW d \in Nat, e <= d, NEW at2, NEW f2, NEW c2,
         OtherWork(h, at, f, c, g, at2, f2, c2)
  PROVE  FrameReads(g, d, at2, f2, c2, item)
<1>0. /\ f2.parent = f.parent
      /\ c2.path = c.path /\ c2.kind = c.kind /\ c2.keys = c.keys
      /\ c.kind = "seq" =>
            f2.node = f.node /\ f2.seq_idx = f.seq_idx /\ c2.items = c.items
      /\ c.path \in DOMAIN at2 /\ at2[c.path] = at[c.path]
      /\ g[f.parent].name = h[f.parent].name /\ g[f.parent].kids = h[f.parent].kids
      /\ g[f.parent].is_seq = h[f.parent].is_seq /\ g[f.parent].val = h[f.parent].val
      /\ \A m \in ToSet(h[f.parent].kids) :
            /\ g[m].name = h[m].name
            /\ Unread(h, at, m) => Unread(g, at2, m)
  BY DEF OtherWork
<1>1. PICK P : P = f.parent  OBVIOUS
<1>2. c2.path \in DOMAIN at2 /\ at2[c2.path] = f2.parent  BY <1>0 DEF FrameReads
<1>3. PICK K : K = ToSet(h[P].kids) /\ K = ToSet(g[P].kids)  BY <1>0, <1>1
<1>4. \A m \in K : g[m].name = h[m].name /\ (Unread(h, at, m) => Unread(g, at2, m))
  BY <1>0, <1>1, <1>3
<1>5. CASE c.kind = "seq"
  <2>1. ItemsRead(h, e, f, c)  BY <1>5 DEF FrameReads
  <2>2. \A j \in 0..e : j \in 0..d  OBVIOUS
  <2>3. c2.items \in 0..d /\ f2.node = f2.parent /\ f2.seq_idx = c2.items
    BY <1>0, <1>5, <2>1, <2>2 DEF ItemsRead
  <2>4. \A m \in K : \E j \in 0..e : j < c.items /\ h[m].name = Index(j)
    BY <1>1, <1>3, <2>1 DEF ItemsRead
  <2>5. \A m \in K : \E j \in 0..d : j < c2.items /\ g[m].name = Index(j)
    <3> TAKE m \in K
    <3>1. PICK j \in 0..e : j < c.items /\ h[m].name = Index(j)  BY <2>4
    <3> QED  BY <1>0, <1>4, <1>5, <2>2, <3>1
  <2>6. ItemsRead(g, d, f2, c2)  BY <1>0, <1>1, <1>3, <2>3, <2>5 DEF ItemsRead
  <2> QED  BY <1>0, <1>2, <1>5, <2>6 DEF FrameReads
<1>6. CASE c.kind = "map"
  <2>1. KeysRead(h, at, f, c, item)  BY <1>6 DEF FrameReads
  <2>2. /\ \A k \in c.keys : \E x : k = Append(c.path, x) /\ Spelled(h, P, x)
        /\ \A m \in K : \/ Append(c.path, h[m].name) \in c.keys
                        \/ Unread(h, at, m)
        /\ (h[P].is_seq /\ h[P].val = NULL) <=> (item /\ c.keys = {})
    BY <1>1, <1>3, <2>1 DEF KeysRead
  <2>3. g[P].name = h[P].name /\ g[P].is_seq = h[P].is_seq /\ g[P].val = h[P].val  BY <1>0, <1>1
  <2>4. \A x : Spelled(h, P, x) => Spelled(g, P, x)  BY <2>3 DEF Spelled
  <2>5. \A k \in c.keys : \E x : k = Append(c.path, x) /\ Spelled(g, P, x)  BY <2>2, <2>4
  <2>6. \A m \in K : \/ Append(c.path, g[m].name) \in c.keys
                     \/ Unread(g, at2, m)
    BY <1>4, <2>2
  <2>7. (g[P].is_seq /\ g[P].val = NULL) <=> (item /\ c.keys = {})  BY <2>2, <2>3
  <2>8. KeysRead(g, at2, f2, c2, item)  BY <1>0, <1>1, <1>3, <2>5, <2>6, <2>7 DEF KeysRead
  <2> QED  BY <1>0, <1>2, <1>6, <2>8 DEF FrameReads
<1>7. CASE c.kind \notin {"seq", "map"}  BY <1>0, <1>2, <1>7 DEF FrameReads
<1> QED  BY <1>5, <1>6, <1>7

\* The next item.
LEMMA ItemReads ==
  ASSUME LoadTree, NEW at, Mapped(at), NEW f, NEW c, NEW item,
         events \in Nat, FrameReads(heap, events, at, f, c, item), c.kind = "seq",
         NEW n, NEW x, x = Index(c.items), Begins(at, c.path, n, x),
         NEW k, k = Append(c.path, x), NEW at2, at2 = Longer(at, k, n),
         NEW f2, f2.parent = f.parent, f2.node = f.node, f2.seq_idx = f.seq_idx + 1,
         NEW c2, c2.path = c.path, c2.kind = c.kind, c2.items = c.items + 1,
         NEW e, e = events + 1
  PROVE  FrameReads(heap', e, at2, f2, c2, item)
<1>1. ItemsRead(heap, events, f, c) /\ c.path \in DOMAIN at /\ at[c.path] = f.parent
  BY DEF FrameReads
<1>2. PICK P \in DOMAIN heap : P = f.parent /\ P = at[c.path]  BY <1>1 DEF Mapped
<1>3. PICK i \in 0..events : i = c.items  BY <1>1 DEF ItemsRead
<1>4. e \in Nat /\ i \in 0..e /\ i + 1 \in 0..e /\ i < i + 1
      /\ \A j \in 0..events : j \in 0..e /\ (j < i => j < i + 1)
  BY <1>3
<1>5. c2.path \in DOMAIN at2 /\ at2[c2.path] = P
  <2>1. Append(c.path, x) \notin DOMAIN at
    BY ONLY LoadTree, Mapped(at), Begins(at, c.path, n, x), BeginsNew
  <2>2. k # c.path  BY <1>1, <2>1
  <2> QED  BY <1>1, <1>2, <2>2 DEF Longer
<1>6. ToSet(heap'[P].kids) = ToSet(heap[P].kids) \cup {n} /\ heap'[n].name = x
      /\ \A m \in DOMAIN heap : heap'[m].name = heap[m].name
  BY <1>2 DEF Begins, SameNode
<1>7. ToSet(heap[P].kids) \subseteq DOMAIN heap  BY <1>2, KidsIn
<1>8. \A m \in ToSet(heap[P].kids) : \E j \in 0..events : j < i /\ heap[m].name = Index(j)
  BY <1>1, <1>2, <1>3 DEF ItemsRead
<1>9. \A m \in ToSet(heap'[P].kids) : \E j \in 0..e : j < i + 1 /\ heap'[m].name = Index(j)
  <2> TAKE m \in ToSet(heap'[P].kids)
  <2>1. CASE m = n  BY <1>3, <1>4, <1>6, <2>1
  <2>2. CASE m \in ToSet(heap[P].kids)
    <3>1. PICK j \in 0..events : j < i /\ heap[m].name = Index(j)  BY <1>8, <2>2
    <3>2. heap'[m].name = Index(j)  BY <1>6, <1>7, <2>2, <3>1
    <3> QED  BY <1>4, <3>1, <3>2
  <2> QED  BY <1>6, <2>1, <2>2
<1>10. f2.node = f2.parent /\ f2.seq_idx = i + 1 /\ c2.items = i + 1 /\ f2.parent = P
  BY <1>1, <1>2, <1>3 DEF ItemsRead
<1>11. ItemsRead(heap', e, f2, c2)  BY <1>4, <1>9, <1>10 DEF ItemsRead
<1> QED  BY <1>2, <1>5, <1>11 DEF FrameReads

\* The next key.
LEMMA KeyReads ==
  ASSUME LoadTree, NEW at, Mapped(at), NEW f, NEW c, NEW item,
         FrameReads(heap, events, at, f, c, item), c.kind = "map",
         NEW n, NEW x, Begins(at, c.path, n, x), Spelled(heap, f.parent, x),
         heap[f.parent].is_seq => heap'[f.parent].val # NULL,
         NEW k, k = Append(c.path, x), NEW at2, at2 = Longer(at, k, n),
         NEW f2, f2.parent = f.parent,
         NEW c2, c2.path = c.path, c2.kind = c.kind, c2.keys = c.keys \cup {k},
         NEW e
  PROVE  FrameReads(heap', e, at2, f2, c2, item)
<1>1. KeysRead(heap, at, f, c, item) /\ c.path \in DOMAIN at /\ at[c.path] = f.parent
  BY DEF FrameReads
<1>2. PICK P \in DOMAIN heap : P = f.parent /\ P = at[c.path]  BY <1>1 DEF Mapped
<1>3. /\ \A l \in c.keys : \E y : l = Append(c.path, y) /\ Spelled(heap, P, y)
      /\ \A m \in ToSet(heap[P].kids) :
            \/ Append(c.path, heap[m].name) \in c.keys
            \/ Unread(heap, at, m)
  BY <1>1, <1>2 DEF KeysRead
<1>4. /\ ToSet(heap'[P].kids) = ToSet(heap[P].kids) \cup {n} /\ heap'[n].name = x
      /\ \A m \in DOMAIN heap : /\ heap'[m].name = heap[m].name /\ heap'[m].is_seq = heap[m].is_seq
                                /\ m # P => heap'[m].kids = heap[m].kids
  BY <1>2 DEF Begins, SameNode
<1>5. ToSet(heap[P].kids) \subseteq DOMAIN heap  BY <1>2, KidsIn
<1>6. k \notin DOMAIN at
  <2>1. Append(c.path, x) \notin DOMAIN at
    BY ONLY LoadTree, Mapped(at), Begins(at, c.path, n, x), BeginsNew
  <2> QED  BY <2>1
<1>7. c2.path \in DOMAIN at2 /\ at2[c2.path] = P  BY <1>1, <1>2, <1>6 DEF Longer
<1>8. \A l \in c2.keys : \E y : l = Append(c2.path, y) /\ Spelled(heap', P, y)
  <2>1. \A y : Spelled(heap, P, y) => Spelled(heap', P, y)  BY <1>4 DEF Spelled
  <2> QED  BY <1>2, <1>3, <2>1
<1>9. \A m \in ToSet(heap'[P].kids) :
        \/ Append(c2.path, heap'[m].name) \in c2.keys
        \/ Unread(heap', at2, m)
  <2> TAKE m \in ToSet(heap'[P].kids)
  <2>1. CASE m = n  BY <1>4, <2>1
  <2>2. CASE m # n
    <3>1. m \in ToSet(heap[P].kids) /\ m \in DOMAIN heap  BY <1>4, <1>5, <2>2
    <3>2. CASE Append(c.path, heap[m].name) \in c.keys  BY <1>4, <3>1, <3>2
    <3>3. CASE Unread(heap, at, m)
      <4>2. ~ heap'[m].is_seq  BY <1>4, <3>1, <3>3 DEF Unread
      <4>3. \A p \in DOMAIN at2 : at2[p] # m  BY <2>2, <3>3 DEF Unread, Longer
      <4> QED  BY <3>3, <4>2, <4>3 DEF Unread
    <3> QED  BY <1>3, <3>1, <3>2, <3>3
  <2> QED  BY <2>1, <2>2
<1>10. ~ (heap'[P].is_seq /\ heap'[P].val = NULL) /\ c2.keys # {}  BY <1>2, <1>4
<1>11. KeysRead(heap', at2, f2, c2, item)
  <2>1. f2.parent = P  BY <1>2
  <2> QED  BY <1>8, <1>9, <1>10, <2>1 DEF KeysRead
<1> QED  BY <1>2, <1>7, <1>11 DEF FrameReads

-----------------------------------------------------------------------------
\* All frames below the outermost one.
FramesRead(h, e, at, st, op) ==
    /\ \A i \in 2..Len(st) :
          FrameReads(h, e, at, st[i], op[i + 1], op[i].kind = "seq")
    /\ \A i, j \in 2..Len(st) : st[i].parent = st[j].parent => i = j
    /\ \A i \in 2..Len(st) : i # Len(st) => op[i + 1].key = <<>>

\* The outermost one works on the root.
BottomReads(r, st) == st[1].parent = r /\ st[1].node = r /\ ~ st[1].inseq

\* A key waits for its value: nothing has been read for what hangs at its node.
Pending(h, at, st, top, k) ==
    /\ k \in DOMAIN at /\ at[k] = top.node
    /\ ~ h[top.node].is_seq /\ \A m \in ToSet(h[top.node].kids) : Unread(h, at, m)
    /\ \A i \in 2..Len(st) : st[i].parent # top.node

KeyPending(h, at, st, top, here) ==
    here.kind = "map" =>
        /\ top.state = CONF_VAL <=> here.key # <<>>
        /\ here.key # <<>> => Pending(h, at, st, top, here.key)

\* Before the document has begun the tree is as the program has set it.
Untouched(h, r, at, here) ==
    here.kind \in {"stream", "doc"} /\ here.items = 0 =>
        ~ h[r].is_seq /\ \A m \in ToSet(h[r].kids) : Unread(h, at, m)

Begun(op) ==
    /\ op[1].items \in Nat
    /\ Len(op) >= 2 => op[1].items # 0
    /\ Len(op) >= 3 => op[2].items # 0

Reading(at) ==
    /\ BottomReads(root, stack)
    /\ FramesRead(heap, events, at, stack, open)
    /\ KeyPending(heap, at, stack, Top, Here)
    /\ Untouched(heap, root, at, Here)
    /\ Begun(open)

Reads(at) ==
    /\ Mapped(at) /\ Said(at)
    /\ heap[root].name \notin Unmangled
    /\ stack # <<>> => Reading(at)

\* Where the innermost call and the innermost collection are.
At(K, L) ==
    /\ K = Len(stack) /\ L = Len(open) /\ DOMAIN stack = 1..K /\ DOMAIN open = 1..L
    /\ Top = stack[K] /\ Here = open[L] /\ Top \in FrameType /\ IsCollection(Here)
    /\ \/ Here.kind = "stream" /\ K = 1 /\ L = 1
       \/ Here.kind = "doc" /\ K = 1 /\ L = 2
       \/ Here.kind \in {"map", "seq"} /\ K >= 2 /\ L = K + 1
    /\ K >= 2 => Top.inseq = (Here.kind = "seq")

LEMMA Where ==
  ASSUME FramesAlive, OpenInv, stack # <<>> PROVE \E K, L \in Nat : At(K, L)
<1>1. PICK K \in Nat : K = Len(stack) /\ K # 0 /\ DOMAIN stack = 1..K  BY ZenonT(60), TopFacts
<1>2. PICK L \in Nat : L = Len(open) /\ L # 0 /\ DOMAIN open = 1..L /\ L \in 1..L
  BY Zenon, OpenFacts
<1>3. Top = stack[K] /\ Here = open[L] /\ Top \in FrameType /\ IsCollection(Here)
  BY <1>1, <1>2, TopFacts, OpenFacts DEF Top, Here
<1>4. PICK outer \in {1, 2} : FramesFollow(outer)  BY OpenFacts
<1>5. K + outer = L + 1  BY <1>1, <1>2, <1>4 DEF FramesFollow
<1>6. /\ Here.kind = "stream" => outer = 1 /\ L = 1
      /\ Here.kind = "doc" => outer = 2 /\ L = 2
      /\ Here.kind \in {"map", "seq"} => outer = 2 /\ L >= 3
  BY <1>2, <1>4, WhichOuter
<1>7. Here.kind \in {"stream", "doc", "map", "seq"}
  <2>1. outer = 1 => Here.kind = "stream"  BY <1>2, <1>3, <1>4 DEF FramesFollow
  <2>2. outer = 2 /\ L = 2 => Here.kind = "doc"  BY <1>2, <1>3, <1>4 DEF FramesFollow
  <2>3. outer = 2 /\ L > 2 => Here.kind \in {"map", "seq"}
    BY <1>2, <1>3, <1>4 DEF FramesFollow
  <2>4. outer = 2 => L >= 2  BY <1>2, <1>4 DEF FramesFollow
  <2> QED  BY <1>2, <2>1, <2>2, <2>3, <2>4
<1>8. \/ Here.kind = "stream" /\ K = 1 /\ L = 1
      \/ Here.kind = "doc" /\ K = 1 /\ L = 2
      \/ Here.kind \in {"map", "seq"} /\ K >= 2 /\ L = K + 1
  BY <1>1, <1>2, <1>5, <1>6, <1>7
<1>9. K >= 2 => Top.inseq = (Here.kind = "seq")
  <2> SUFFICES ASSUME K >= 2 PROVE Top.inseq = (Here.kind = "seq")  OBVIOUS
  <2>1. outer = 2 /\ L = K + 1  BY <1>1, <1>2, <1>5, <1>6, <1>8
  <2>2. \A i \in 2..Len(stack) : stack[i].inseq = (open[i + outer - 1].kind = "seq")
    BY Zenon, <1>4 DEF FramesFollow
  <2>3. K \in 2..Len(stack) /\ K + outer - 1 = L  BY <1>1, <2>1
  <2>4. stack[K].inseq = (open[K + outer - 1].kind = "seq")  BY <2>2, <2>3
  <2> QED  BY <1>3, <2>3, <2>4
<1> QED  BY SMTT(60), <1>1, <1>2, <1>3, <1>8, <1>9 DEF At

\* What NodeSeen does to libyaml's collections.
Marked(op, op2, L) ==
    /\ op2 \in Seq(ToSet(op2)) /\ Len(op2) = L
    /\ \A i \in 1..(L - 1) : op2[i] = op[i]
    /\ op2[L].kind = op[L].kind /\ op2[L].path = op[L].path

LEMMA SeenFacts ==
  ASSUME FramesAlive, OpenInv, stack # <<>>, ~ AtKey, NEW K \in Nat, NEW L \in Nat, At(K, L)
  PROVE  /\ Marked(open, NodeSeen, L)
         /\ NodeSeen[L].keys = Here.keys /\ NodeSeen[L].key = <<>>
         /\ NodeSeen[L].items = Here.items + 1
<1>1. L = Len(open) /\ DOMAIN open = 1..L /\ Here = open[L] /\ L # 0 /\ IsCollection(Here)
  BY DEF At
<1>2. PICK new : new = NodeSeen  OBVIOUS
<1>3. SameKinds(new)  BY <1>2, NodeSeenMarks
<1>4. new \in Seq(ToSet(new)) /\ Len(new) = L  BY <1>1, <1>3 DEF SameKinds
<1>5. \A i \in 1..(L - 1) : new[i] = open[i]  BY <1>1, <1>2 DEF NodeSeen
<1>6. new[L] = [open[L] EXCEPT !.key = <<>>, !.items = open[L].items + 1]
  <2>1. L \in 1..L /\ IsCollection(open[L])  BY <1>1
  <2> QED  BY Zenon, <1>1, <1>2, <2>1 DEF NodeSeen, IsCollection
<1>7. PICK c : c = open[L]  OBVIOUS
<1>8. c = [kind |-> c.kind, path |-> c.path, key |-> c.key, keys |-> c.keys,
           items |-> c.items]
  BY <1>1, <1>7 DEF IsCollection
<1>9. /\ new[L].kind = c.kind /\ new[L].path = c.path /\ new[L].keys = c.keys
      /\ new[L].key = <<>> /\ new[L].items = c.items + 1
  BY <1>6, <1>7, <1>8
<1> QED  BY <1>1, <1>2, <1>4, <1>5, <1>7, <1>9 DEF Marked

-----------------------------------------------------------------------------
\* A frame that another node's list grows beside.
LEMMA FrameApart ==
  ASSUME LoadTree, NEW at, Mapped(at), NEW f, NEW c, NEW item \in BOOLEAN,
         events \in Nat, FrameReads(heap, events, at, f, c, item),
         NEW q, NEW n, NEW x, Begins(at, q, n, x), f.parent # at[q],
         \A m \in DOMAIN heap : m # at[q] => heap'[m].val = heap[m].val,
         NEW k, k = Append(q, x), NEW at2, at2 = Longer(at, k, n),
         NEW e \in Nat, events <= e
  PROVE  FrameReads(heap', e, at2, f, c, item)
<1>1. c.path \in DOMAIN at /\ at[c.path] = f.parent  BY DEF FrameReads
<1>2. f.parent \in DOMAIN heap /\ at[<<>>] = root  BY <1>1 DEF Mapped
<1>3. k \notin DOMAIN at
  <2>1. Append(q, x) \notin DOMAIN at
    BY ONLY LoadTree, Mapped(at), Begins(at, q, n, x), BeginsNew
  <2> QED  BY <2>1
<1>4. c.path \in DOMAIN at2 /\ at2[c.path] = at[c.path]  BY Zenon, <1>1, <1>3 DEF Longer
<1>5. \A m \in DOMAIN heap :
        /\ heap'[m].name = heap[m].name /\ heap'[m].is_seq = heap[m].is_seq
        /\ m # at[q] => heap'[m].kids = heap[m].kids
  BY DEF Begins, SameNode
<1>6. PICK h, g : h = heap /\ g = heap'  OBVIOUS
<1>7. /\ g[f.parent].name = h[f.parent].name /\ g[f.parent].kids = h[f.parent].kids
      /\ g[f.parent].is_seq = h[f.parent].is_seq /\ g[f.parent].val = h[f.parent].val
  BY <1>2, <1>5, <1>6
<1>8. ASSUME NEW m \in ToSet(h[f.parent].kids)
      PROVE  /\ g[m].name = h[m].name
             /\ Unread(h, at, m) => Unread(g, at2, m)
  <2>1. m \in DOMAIN heap  BY <1>2, <1>6, KidsIn
  <2>2. ASSUME Unread(h, at, m) PROVE Unread(g, at2, m)
    <3>1. ASSUME n \in ToSet(heap[f.parent].kids) PROVE f.parent = at[q]
      BY ONLY LoadTree, Mapped(at), Begins(at, q, n, x), <1>2, <3>1, BeginsAlone
    <3>2. m # n  BY <1>6, <3>1
    <3>4. ~ g[m].is_seq  BY <1>5, <1>6, <2>1, <2>2 DEF Unread
    <3>5. \A p \in DOMAIN at2 : at2[p] # m  BY <2>2, <3>2 DEF Unread, Longer
    <3> QED  BY <3>4, <3>5 DEF Unread
  <2> QED  BY <1>5, <1>6, <2>1, <2>2
<1>9. \A m \in ToSet(h[f.parent].kids) :
        /\ g[m].name = h[m].name
        /\ Unread(h, at, m) => Unread(g, at2, m)
  BY <1>8
<1>10. FrameReads(h, events, at, f, c, item)  BY <1>6
<1>11. PICK d \in Nat : d = events /\ d <= e  OBVIOUS
<1>12. FrameReads(h, d, at, f, c, item)  BY <1>10, <1>11
<1>13. OtherWork(h, at, f, c, g, at2, f, c)  BY ONLY <1>4, <1>7, <1>9 DEF OtherWork
<1>14. FrameReads(g, e, at2, f, c, item)  BY <1>11, <1>12, <1>13, FrameStays
<1> QED  BY <1>6, <1>14

\* A frame beside which no list grows.
LEMMA FrameSame ==
  ASSUME LoadTree, NEW at, Mapped(at), NEW f, NEW c, NEW item \in BOOLEAN,
         events \in Nat, FrameReads(heap, events, at, f, c, item),
         SameKids, heap'[f.parent].val = heap[f.parent].val,
         NEW f2, NEW c2, f2.parent = f.parent, c2.path = c.path, c2.kind = c.kind,
         c2.keys = c.keys,
         c.kind = "seq" =>
            f2.node = f.node /\ f2.seq_idx = f.seq_idx /\ c2.items = c.items,
         NEW e \in Nat, events <= e
  PROVE  FrameReads(heap', e, at, f2, c2, item)
<1>1. c.path \in DOMAIN at /\ at[c.path] = f.parent  BY DEF FrameReads
<1>2. f.parent \in DOMAIN heap  BY <1>1 DEF Mapped
<1>3. \A m \in DOMAIN heap :
        /\ heap'[m].name = heap[m].name /\ heap'[m].is_seq = heap[m].is_seq
        /\ heap'[m].kids = heap[m].kids
  BY DEF SameKids, SameNode
<1>4. PICK h, g : h = heap /\ g = heap'  OBVIOUS
<1>5. /\ g[f.parent].name = h[f.parent].name /\ g[f.parent].kids = h[f.parent].kids
      /\ g[f.parent].is_seq = h[f.parent].is_seq /\ g[f.parent].val = h[f.parent].val
  BY <1>2, <1>3, <1>4
<1>6. \A m \in ToSet(h[f.parent].kids) :
        /\ g[m].name = h[m].name
        /\ Unread(h, at, m) => Unread(g, at, m)
  <2> TAKE m \in ToSet(h[f.parent].kids)
  <2>1. m \in DOMAIN heap  BY <1>2, <1>4, KidsIn
  <2>2. g[m].name = h[m].name /\ g[m].is_seq = h[m].is_seq /\ g[m].kids = h[m].kids
    BY <1>3, <1>4, <2>1
  <2> QED  BY <2>2 DEF Unread
<1>7. PICK d \in Nat : d = events /\ d <= e  OBVIOUS
<1>8. FrameReads(h, d, at, f, c, item)  BY <1>4, <1>7
<1>9. /\ f2.parent = f.parent /\ c2.path = c.path /\ c2.kind = c.kind /\ c2.keys = c.keys
      /\ c.kind = "seq" =>
            f2.node = f.node /\ f2.seq_idx = f.seq_idx /\ c2.items = c.items
  OBVIOUS
<1>10. OtherWork(h, at, f, c, g, at, f2, c2)  BY ONLY <1>1, <1>5, <1>6, <1>9 DEF OtherWork
<1>11. FrameReads(g, e, at, f2, c2, item)  BY <1>7, <1>8, <1>10, FrameStays
<1> QED  BY <1>4, <1>11

-----------------------------------------------------------------------------
\* What a step has to show besides the frames.
StillMapped(at2) ==
    /\ Mapped(at2)' /\ Said(at2)' /\ root' = root
    /\ heap'[root].name \notin Unmangled

\* The frame on top goes on, as st, with its collection, as here.
LEMMA TopGoesOn ==
  ASSUME NEW at, Reading(at), NEW K \in Nat, NEW L \in Nat, At(K, L), K >= 2,
         NEW at2, StillMapped(at2),
         Len(stack') = K, \A i \in 1..(K - 1) : stack'[i] = stack[i],
         Len(open') = L, \A i \in 1..K : open'[i] = open[i],
         open'[L].kind = Here.kind, stack'[K].parent = Top.parent,
         \A i \in 2..(K - 1) :
            FrameReads(heap', events', at2, stack[i], open[i + 1], open[i].kind = "seq"),
         FrameReads(heap', events', at2, stack'[K], open'[L], open[K].kind = "seq"),
         KeyPending(heap', at2, stack', stack'[K], open'[L])
  PROVE  Reads(at2)'
<1>1. /\ Here.kind \in {"map", "seq"} /\ L = K + 1 /\ K = Len(stack) /\ L = Len(open)
      /\ Top = stack[K] /\ Here = open[L]
  BY DEF At
<1>2. PICK st, op : st = stack' /\ op = open'  OBVIOUS
<1>3. \A i \in 2..(K - 1) : i \in 1..(K - 1) /\ i \in 1..K /\ i + 1 \in 1..K /\ i \in 2..K
  OBVIOUS
<1>4. \A i \in 2..K : i = K \/ i \in 2..(K - 1)  OBVIOUS
<1>5. Len(st) = K /\ Len(op) = K + 1  BY <1>1, <1>2
<1>6. /\ \A i \in 1..(K - 1) : st[i] = stack[i]
      /\ \A i \in 1..K : op[i] = open[i]
      /\ st[K].parent = stack[K].parent
  BY <1>1, <1>2
<1>7. /\ \A i, j \in 2..K : stack[i].parent = stack[j].parent => i = j
      /\ \A i \in 2..K : i # K => open[i + 1].key = <<>>
  BY <1>1 DEF Reading, FramesRead
<1>8. \A i \in 2..K : FrameReads(heap', events', at2, st[i], op[i + 1], op[i].kind = "seq")
  <2> TAKE i \in 2..K
  <2>1. CASE i = K
    <3>1. FrameReads(heap', events', at2, st[K], op[K + 1], open[K].kind = "seq")
      BY <1>1, <1>2
    <3>2. op[K] = open[K]  BY <1>6
    <3> QED  BY <2>1, <3>1, <3>2
  <2>2. CASE i \in 2..(K - 1)
    <3>1. st[i] = stack[i] /\ op[i] = open[i] /\ op[i + 1] = open[i + 1]
      BY <1>3, <1>6, <2>2
    <3>2. FrameReads(heap', events', at2, stack[i], open[i + 1], open[i].kind = "seq")
      BY <2>2
    <3> QED  BY <3>1, <3>2
  <2> QED  BY <1>4, <2>1, <2>2
<1>9. \A i, j \in 2..K : st[i].parent = st[j].parent => i = j
  <2>1. \A i \in 2..K : st[i].parent = stack[i].parent  BY <1>3, <1>4, <1>6
  <2> QED  BY <1>7, <2>1
<1>10. \A i \in 2..K : i # K => op[i + 1].key = <<>>
  BY <1>3, <1>4, <1>6, <1>7
<1>11. FramesRead(heap', events', at2, st, op)  BY <1>5, <1>8, <1>9, <1>10 DEF FramesRead
<1>12. BottomReads(root, st)
  <2>1. 1 \in 1..(K - 1)  OBVIOUS
  <2>2. st[1] = stack[1]  BY <1>6, <2>1
  <2> QED  BY <2>2 DEF BottomReads, Reading
<1>13. Untouched(heap', root, at2, op[L])  BY <1>1, <1>2 DEF Untouched
<1>14. Begun(op)
  <2>1. open[1].items # 0 /\ open[1].items \in Nat /\ open[2].items # 0
    BY <1>1 DEF Reading, Begun
  <2>2. op[1] = open[1] /\ op[2] = open[2]  BY <1>6
  <2> QED  BY <2>1, <2>2 DEF Begun
<1>15. KeyPending(heap', at2, st, st[K], op[L])  BY <1>2
<1>16. Reading(at2)'
  <2>1. Top' = st[K] /\ Here' = op[L] /\ root' = root
    BY <1>1, <1>2, <1>5 DEF Top, Here, StillMapped
  <2> QED  BY <1>2, <1>11, <1>12, <1>13, <1>14, <1>15, <2>1 DEF Reading
<1> QED  BY <1>16 DEF Reads, StillMapped

\* A frame n for a collection c begins above the one on top.
Pushes(at, K, L, at2, n, b, kind, path) ==
    /\ Reading(at) /\ K \in Nat /\ L \in Nat /\ At(K, L) /\ K # 0 /\ L = K + 1
    /\ StillMapped(at2)
    /\ Len(stack') = K + 1 /\ Len(open') = L + 1
    /\ \A i \in 1..K : /\ stack'[i].parent = stack[i].parent
                       /\ stack'[i].node = stack[i].node
                       /\ stack'[i].inseq = stack[i].inseq
    /\ \A i \in 1..K : open'[i] = open[i]
    /\ open'[L].key = <<>> /\ (K = 1 => open'[L].items # 0)
    /\ \A i \in 2..K :
          FrameReads(heap', events', at2, stack'[i], open'[i + 1], open[i].kind = "seq")
    /\ stack'[K + 1] = Frame(n, b) /\ \A i \in 2..K : stack[i].parent # n
    /\ kind \in {"map", "seq"} /\ open'[L + 1] = Collection(kind, path)
    /\ FrameReads(heap', events', at2, stack'[K + 1], open'[L + 1], open'[L].kind = "seq")

LEMMA PushGoesOn ==
  ASSUME NEW at, NEW K, NEW L, NEW at2, NEW n, NEW b, NEW kind, NEW path,
         Pushes(at, K, L, at2, n, b, kind, path)
  PROVE  Reads(at2)'
<1> USE DEF Pushes
<1>1. K = Len(stack) /\ L = Len(open) /\ Top = stack[K] /\ Here = open[L]  BY DEF At
<1>2. PICK st, op : st = stack' /\ op = open'  OBVIOUS
<1>3. Len(st) = K + 1 /\ Len(op) = K + 2  BY <1>2
<1>4. \A i \in 2..(K + 1) : i = K + 1 \/ i \in 2..K  OBVIOUS
<1>5. /\ \A i \in 1..K : /\ st[i].parent = stack[i].parent /\ st[i].node = stack[i].node
                         /\ st[i].inseq = stack[i].inseq
      /\ \A i \in 1..K : op[i] = open[i]
      /\ st[K + 1].parent = n /\ st[K + 1].state = CONF_KEY
      /\ op[K + 2].kind \in {"map", "seq"} /\ op[K + 2].key = <<>>
  BY <1>2 DEF Frame, Collection
<1>6. /\ \A i, j \in 2..K : stack[i].parent = stack[j].parent => i = j
      /\ \A i \in 2..K : i # K => open[i + 1].key = <<>>
  BY Zenon, <1>1 DEF Reading, FramesRead
<1>7. \A i \in 2..(K + 1) : FrameReads(heap', events', at2, st[i], op[i + 1], op[i].kind = "seq")
  <2> TAKE i \in 2..(K + 1)
  <2>1. CASE i = K + 1
    <3>1. FrameReads(heap', events', at2, st[K + 1], op[K + 2], op[K + 1].kind = "seq")
      BY <1>2
    <3> QED  BY <2>1, <3>1
  <2>2. CASE i \in 2..K
    <3>1. op[i] = open[i]  BY <1>5, <2>2
    <3>2. FrameReads(heap', events', at2, st[i], op[i + 1], open[i].kind = "seq")
      BY <1>2, <2>2
    <3> QED  BY <3>1, <3>2
  <2> QED  BY <1>4, <2>1, <2>2
<1>8. \A i, j \in 2..(K + 1) : st[i].parent = st[j].parent => i = j
  <2>1. \A i \in 2..K : i \in 1..K  OBVIOUS
  <2>2. \A i \in 2..K : st[i].parent = stack[i].parent /\ st[i].parent # st[K + 1].parent
    BY <1>5, <2>1
  <2> QED  BY <1>4, <1>6, <2>2
<1>9. \A i \in 2..(K + 1) : i # K + 1 => op[i + 1].key = <<>>
  <2> SUFFICES ASSUME NEW i \in 2..K PROVE op[i + 1].key = <<>>  BY <1>4
  <2>1. CASE i = K  BY <1>2, <2>1
  <2>2. CASE i # K
    <3>1. i + 1 \in 1..K  BY <2>2
    <3> QED  BY <1>5, <1>6, <2>2, <3>1
  <2> QED  BY <2>1, <2>2
<1>10. FramesRead(heap', events', at2, st, op)  BY <1>3, <1>7, <1>8, <1>9 DEF FramesRead
<1>11. BottomReads(root, st)
  <2>1. 1 \in 1..K  OBVIOUS
  <2> QED  BY <1>5, <2>1 DEF BottomReads, Reading
<1>12. Untouched(heap', root, at2, op[K + 2])  BY <1>5 DEF Untouched
<1>13. Begun(op)
  <2>1. open[1].items # 0 /\ open[1].items \in Nat /\ op[1] = open[1]
    BY <1>1, <1>5 DEF Reading, Begun
  <2>2. op[2].items # 0
    <3>1. CASE K = 1  BY <1>2, <3>1
    <3>2. CASE K # 1  BY <1>1, <1>5, <3>2 DEF Reading, Begun
    <3> QED  BY <3>1, <3>2
  <2> QED  BY <2>1, <2>2 DEF Begun
<1>14. KeyPending(heap', at2, st, st[K + 1], op[K + 2])
  BY <1>5 DEF KeyPending, CONF_KEY, CONF_VAL
<1>15. Reading(at2)'
  <2>1. Top' = st[K + 1] /\ Here' = op[K + 2] /\ root' = root
    BY <1>2, <1>3 DEF Top, Here, StillMapped
  <2> QED  BY <1>2, <1>10, <1>11, <1>12, <1>13, <1>14, <2>1 DEF Reading
<1> QED  BY <1>15 DEF Reads, StillMapped

-----------------------------------------------------------------------------
\* The next item of a sequence is not there yet.
LEMMA ItemBegins ==
  ASSUME LoaderInv, events \in Nat, events < MaxEvents, NEW at, Reads(at), stack # <<>>,
         NEW K \in Nat, NEW L \in Nat, At(K, L), Here.kind = "seq",
         NEW n, NEW x, x = Index(Here.items), NewKid(Top.parent, n, x)
  PROVE  /\ FrameReads(heap, events, at, Top, Here, open[K].kind = "seq")
         /\ Top.node = Top.parent /\ Top.seq_idx = Here.items /\ at[Here.path] = Top.parent
         /\ Here.items \in Nat /\ Begins(at, Here.path, n, x)
<1>1. K >= 2 /\ L = K + 1 /\ K = Len(stack) /\ Top = stack[K] /\ Here = open[L]
  BY DEF At
<1>2. FrameReads(heap, events, at, Top, Here, open[K].kind = "seq")
  BY <1>1 DEF Reads, Reading, FramesRead
<1>3. PICK f, c : f = Top /\ c = Here  OBVIOUS
<1>4. ItemsRead(heap, events, f, c) /\ c.path \in DOMAIN at /\ at[c.path] = f.parent
  BY <1>2, <1>3 DEF FrameReads
<1>5. PICK i \in 0..events : i = c.items  BY <1>4 DEF ItemsRead
<1>6. Mapped(at) /\ LoadTree  BY DEF Reads, LoaderInv
<1>7. PICK P \in DOMAIN heap : P = f.parent  BY <1>4, <1>6 DEF Mapped
<1>8. \A m \in ToSet(heap[P].kids) : \E j \in 0..events : j < i /\ heap[m].name = Index(j)
  BY <1>4, <1>5, <1>7 DEF ItemsRead
<1>9. LookupIn(heap, P, x) = NULL
  <2> SUFFICES ASSUME LookupIn(heap, P, x) # NULL PROVE FALSE  OBVIOUS
  <2>1. heap[P].kids \in Seq(Nodes)  BY <1>6, <1>7, KidsIn
  <2>2. PICK m \in ToSet(heap[P].kids) : heap[m].name = x  BY <2>1, LookupKid
  <2>3. PICK j \in 0..events : j < i /\ Index(j) = Index(i)  BY <1>3, <1>5, <1>8, <2>2
  <2>4. i \in 0..MaxEvents /\ j \in 0..MaxEvents  BY TextAssumption
  <2>5. i = j  BY <2>3, <2>4, TextAssumption
  <2> QED  BY <2>3, <2>5
<1>10. NewKid(at[c.path], n, x)  BY <1>3, <1>4
<1>11. LookupIn(heap, at[c.path], x) = NULL  BY <1>4, <1>7, <1>9
<1>12. c.path \in DOMAIN at  BY <1>4
<1>13. Begins(at, c.path, n, x)
  BY ONLY <1>6, <1>10, <1>11, <1>12, NewKidBegins
<1>14. f.node = f.parent /\ f.seq_idx = i  BY <1>4, <1>5 DEF ItemsRead
<1> QED  BY <1>2, <1>3, <1>4, <1>5, <1>13, <1>14

\* The frames below the one on top, when a list grows at its node.
LEMMA LowerFrames ==
  ASSUME LoaderInv, events \in Nat, NEW at, Reads(at), stack # <<>>,
         NEW K \in Nat, NEW L \in Nat, At(K, L), K >= 2, at[Here.path] = Top.parent,
         NEW n, NEW x, Begins(at, Here.path, n, x),
         \A m \in DOMAIN heap : m # Top.parent => heap'[m].val = heap[m].val,
         NEW k, k = Append(Here.path, x), NEW at2, at2 = Longer(at, k, n),
         events' = events + 1
  PROVE  \A i \in 2..(K - 1) :
            FrameReads(heap', events', at2, stack[i], open[i + 1], open[i].kind = "seq")
<1>1. K = Len(stack) /\ Top = stack[K] /\ K \in 2..K  BY DEF At
<1>2. Mapped(at) /\ LoadTree /\ FramesRead(heap, events, at, stack, open)
  BY DEF Reads, Reading, LoaderInv
<1>3. PICK q : q = Here.path  OBVIOUS
<1>4. PICK e \in Nat : e = events + 1  OBVIOUS
<1>5. ASSUME NEW i \in 2..(K - 1)
      PROVE  FrameReads(heap', events', at2, stack[i], open[i + 1], open[i].kind = "seq")
  <2>1. i \in 2..K /\ i # K  OBVIOUS
  <2>2. PICK f, c : f = stack[i] /\ c = open[i + 1]  OBVIOUS
  <2>7. PICK item \in BOOLEAN : item = (open[i].kind = "seq")  BY Zenon
  <2>3. FrameReads(heap, events, at, f, c, item)  BY <1>1, <1>2, <2>1, <2>2, <2>7 DEF FramesRead
  <2>4. f.parent # at[q]  BY <1>1, <1>2, <1>3, <2>1, <2>2 DEF FramesRead
  <2>5. /\ Begins(at, q, n, x) /\ k = Append(q, x) /\ events <= e
        /\ \A m \in DOMAIN heap : m # at[q] => heap'[m].val = heap[m].val
    BY <1>3, <1>4
  <2>6. FrameReads(heap', e, at2, f, c, item)
    BY ONLY Zenon, item \in BOOLEAN, e \in Nat, events \in Nat, at2 = Longer(at, k, n),
       <1>2, <2>3, <2>4, <2>5, FrameApart
  <2> QED  BY <1>4, <2>2, <2>6, <2>7
<1> QED  BY <1>5

\* Where a scalar is a value.
LEMMA ValueUnderstood ==
  ASSUME LoaderInv, events \in Nat, NEW at, Reads(at), NEW s, NodeScalar(s), Here.kind = "map"
  PROVE  Reads(at)'
<1>1. /\ stack # <<>> /\ events' = events + 1 /\ root' = root
      /\ Scalar(s) /\ open' = NodeSeen /\ meaning' = Meant(PathHere, s)
      /\ LoadTree /\ FramesAlive /\ OpenInv /\ Mapped(at) /\ Said(at) /\ Reading(at)
  BY DEF NodeScalar, Delivers, LoaderInv, Reads
<1>2. PICK K \in Nat, L \in Nat : At(K, L)  BY <1>1, Where
<1>3. /\ K >= 2 /\ L = K + 1 /\ K = Len(stack) /\ L = Len(open) /\ DOMAIN stack = 1..K
      /\ Top = stack[K] /\ Here = open[L] /\ Top \in FrameType /\ ~ Top.inseq
  BY Zenon, <1>2 DEF At
<1>4. Here.key # <<>> /\ ~ AtKey  BY DEF NodeScalar, AtValue, AtKey
<1>5. Top.state = CONF_VAL /\ Pending(heap, at, stack, Top, Here.key)
  BY <1>1, <1>4 DEF Reading, KeyPending
<1>6. ScalarValue(s)
  BY <1>1, <1>3, <1>5 DEF Scalar, ScalarItem, ScalarKey, CONF_KEY, CONF_VAL
<1>7. PICK n \in DOMAIN heap : n = Top.node  BY <1>1, TopFacts
<1>8. PICK k \in DOMAIN at : k = Here.key /\ at[k] = n  BY <1>5, <1>7 DEF Pending
<1>9. PICK v : v = IF heap[n].allow_override THEN s ELSE heap[n].val  OBVIOUS
<1>10. SameKids /\ NewVal(n, v)
  <2>1. CASE heap[n].allow_override
    <3>1. heap' = [heap EXCEPT ![n].val = v]  BY <1>6, <1>7, <1>9, <2>1 DEF ScalarValue
    <3> QED  BY Zenon, <1>1, <3>1, ValueIs
  <2>2. CASE ~ heap[n].allow_override
    <3>1. heap' = heap /\ v = heap[n].val  BY <1>6, <1>7, <1>9, <2>2 DEF ScalarValue
    <3> QED  BY <3>1 DEF SameKids, SameNode, NewVal
  <2> QED  BY <2>1, <2>2
<1>11. StillMapped(at)
  <2>1. Mapped(at)'  BY <1>1, <1>10, MappedStays
  <2>2. \A m \in DOMAIN heap : SameNode(m)  BY <1>10 DEF SameKids
  <2>3. \A p \in DOMAIN at : p # k => heap'[at[p]].val = heap[at[p]].val
    BY <1>1, <1>8, <1>10 DEF Mapped, NewVal
  <2>4. heap'[at[k]].val = s \/ ~ heap'[at[k]].allow_override
    BY <1>8, <1>9, <1>10, <2>2 DEF NewVal, SameNode
  <2>5. meaning' = Meant(k, s)  BY <1>1, <1>4, <1>8 DEF PathHere
  <2>6. \A p \in DOMAIN at : p \in DOMAIN at /\ at[p] = at[p]  OBVIOUS
  <2>7. Said(at)'
    BY ONLY <1>1, k \in DOMAIN at, <2>2, <2>3, <2>4, <2>5, <2>6, SaidMore
  <2>8. heap'[root].name \notin Unmangled  BY <1>1, <2>2 DEF Reads, Mapped, SameNode
  <2> QED  BY <1>1, <2>1, <2>7, <2>8 DEF StillMapped
<1>12. /\ Marked(open, NodeSeen, L) /\ NodeSeen[L].keys = Here.keys
       /\ NodeSeen[L].key = <<>>
  BY Zenon, <1>1, <1>2, <1>4, SeenFacts
<1>13. PICK st, op : st = stack' /\ op = open'  OBVIOUS
<1>14. /\ Len(op) = L /\ \A i \in 1..K : op[i] = open[i]
       /\ op[L].kind = Here.kind /\ op[L].path = Here.path /\ op[L].keys = Here.keys
       /\ op[L].key = <<>>
  BY <1>1, <1>3, <1>12, <1>13 DEF Marked
<1>15. st = [stack EXCEPT ![K] = [Top EXCEPT !.state = CONF_KEY]]
  BY <1>3, <1>6, <1>13 DEF ScalarValue, Advance
<1>16. /\ Len(st) = K /\ \A i \in 1..(K - 1) : st[i] = stack[i]
       /\ st[K].parent = Top.parent /\ st[K].state = CONF_KEY
  BY <1>1, <1>3, <1>15 DEF FrameType, FramesAlive
<1>17. /\ \A i \in 2..K : stack[i].parent # n
       /\ \A i \in 2..K : FrameReads(heap, events, at, stack[i], open[i + 1], open[i].kind = "seq")
  BY <1>1, <1>3, <1>5, <1>7 DEF Reading, FramesRead, Pending
<1>18. PICK e \in Nat : e = events + 1 /\ events <= e  OBVIOUS
<1>19. ASSUME NEW i \in 2..K, NEW f2, NEW c2, f2.parent = stack[i].parent,
              c2.path = open[i + 1].path, c2.kind = open[i + 1].kind,
              c2.keys = open[i + 1].keys,
              open[i + 1].kind = "seq" => f2 = stack[i] /\ c2 = open[i + 1]
       PROVE  FrameReads(heap', events', at, f2, c2, open[i].kind = "seq")
  <2>1. PICK f, c : f = stack[i] /\ c = open[i + 1]  OBVIOUS
  <2>7. PICK item \in BOOLEAN : item = (open[i].kind = "seq")  BY Zenon
  <2>2. FrameReads(heap, events, at, f, c, item)  BY <1>17, <2>1, <2>7
  <2>3. f.parent \in DOMAIN heap  BY <1>1, <2>2 DEF FrameReads, Mapped
  <2>4. heap'[f.parent].val = heap[f.parent].val  BY <1>10, <1>17, <2>1, <2>3 DEF NewVal
  <2>5. /\ f2.parent = f.parent /\ c2.path = c.path /\ c2.kind = c.kind /\ c2.keys = c.keys
        /\ c.kind = "seq" =>
              f2.node = f.node /\ f2.seq_idx = f.seq_idx /\ c2.items = c.items
    BY <1>19, <2>1
  <2>6. FrameReads(heap', e, at, f2, c2, item)
    BY ONLY item \in BOOLEAN, e \in Nat, events \in Nat,
       <1>1, <1>10, <1>18, <2>2, <2>4, <2>5, FrameSame
  <2> QED  BY <1>1, <1>18, <2>1, <2>6, <2>7
<1>20. \A i \in 2..(K - 1) :
         FrameReads(heap', events', at, stack[i], open[i + 1], open[i].kind = "seq")
  <2>1. \A i \in 2..(K - 1) : i \in 2..K  OBVIOUS
  <2> QED  BY <1>19, <2>1
<1>21. FrameReads(heap', events', at, st[K], op[L], open[K].kind = "seq")
  <2>1. K \in 2..K /\ open[K + 1] = Here  BY <1>3
  <2>2. /\ st[K].parent = stack[K].parent /\ op[L].path = open[K + 1].path
        /\ op[L].kind = open[K + 1].kind /\ op[L].keys = open[K + 1].keys
        /\ open[K + 1].kind # "seq"
    BY <1>3, <1>14, <1>16, <2>1
  <2> QED  BY <1>19, <2>1, <2>2
<1>22. KeyPending(heap', at, st, st[K], op[L])
  BY <1>14, <1>16 DEF KeyPending, CONF_KEY, CONF_VAL
<1> QED
  BY Zenon, <1>1, <1>2, <1>3, <1>11, <1>13, <1>14, <1>16, <1>20, <1>21, <1>22, TopGoesOn

-----------------------------------------------------------------------------
\* A sequence gets its next item: the node n, for the path k.
NextItem(at, K, L, x, n, rec, k, at2, f2, c2) ==
    /\ LoaderInv /\ events \in Nat /\ events < MaxEvents /\ Reads(at) /\ stack # <<>>
    /\ K \in Nat /\ L \in Nat /\ At(K, L) /\ Here.kind = "seq"
    /\ x = Index(Here.items) /\ n \in Nodes \ DOMAIN heap
    /\ rec.kids = <<>> /\ rec.name = x /\ heap' = Added(Top.parent, n, rec)
    /\ root' = root /\ events' = events + 1
    /\ k = Append(Here.path, x) /\ at2 = Longer(at, k, n)
    /\ meaning' = meaning \/ meaning' = Meant(k, rec.val)
    /\ f2.parent = Top.parent /\ f2.node = Top.node /\ f2.seq_idx = Top.seq_idx + 1
    /\ c2.path = Here.path /\ c2.kind = Here.kind /\ c2.items = Here.items + 1

LEMMA NextItemReads ==
  ASSUME NEW at, NEW K, NEW L, NEW x, NEW n, NEW rec, NEW k, NEW at2, NEW f2, NEW c2,
         NextItem(at, K, L, x, n, rec, k, at2, f2, c2)
  PROVE  /\ StillMapped(at2) /\ k \in DOMAIN at2 /\ at2[k] = n /\ heap'[n] = rec
         /\ \A r \in DOMAIN at : at[r] # n
         /\ \A i \in 2..(K - 1) :
               FrameReads(heap', events', at2, stack[i], open[i + 1], open[i].kind = "seq")
         /\ FrameReads(heap', events', at2, f2, c2, open[K].kind = "seq")
<1> USE DEF NextItem
<1>1. /\ K >= 2 /\ L = K + 1 /\ K = Len(stack) /\ Top = stack[K] /\ Here = open[L]
      /\ LoadTree /\ FramesAlive /\ Mapped(at) /\ Said(at)
  BY DEF At, LoaderInv, Reads
<1>2. Top.parent \in DOMAIN heap  BY <1>1, TopFacts
<1>3. /\ NewKid(Top.parent, n, x) /\ NewVal(Top.parent, heap[Top.parent].val)
      /\ heap'[n] = rec
  <2>1. PICK p \in DOMAIN heap : p = Top.parent  BY <1>2
  <2>2. PICK v : v = heap[p].val  OBVIOUS
  <2>3. heap' = Added(p, n, rec) /\ v = heap[p].val  BY <2>1, <2>2
  <2>4. NewKid(p, n, rec.name) /\ NewVal(p, v) /\ heap'[n] = rec
    BY ONLY <1>1, <2>3, p \in DOMAIN heap, n \in Nodes \ DOMAIN heap, rec.kids = <<>>, AddedIs
  <2> QED  BY <2>1, <2>2, <2>4
<1>4. /\ FrameReads(heap, events, at, Top, Here, open[K].kind = "seq")
      /\ at[Here.path] = Top.parent /\ Begins(at, Here.path, n, x)
  BY <1>3, ItemBegins
<1>5. \A m \in DOMAIN heap : SameNode(m) /\ heap'[m].val = heap[m].val
  BY <1>3 DEF NewKid, NewVal
<1>6. PICK q : q = Here.path  OBVIOUS
<1>7. k \notin DOMAIN at
  <2>1. Append(q, x) \notin DOMAIN at
    BY ONLY <1>1, <1>4, <1>6, BeginsNew
  <2> QED  BY <1>6, <2>1
<1>8. k \in DOMAIN at2 /\ at2[k] = n /\ \A p \in DOMAIN at : p \in DOMAIN at2 /\ at2[p] = at[p]
  BY Zenon, <1>7 DEF Longer
<1>9. StillMapped(at2)
  <2>1. Mapped(at2)'
    <3>1. Begins(at, q, n, x) /\ k = Append(q, x)  BY <1>4, <1>6
    <3> QED  BY ONLY Zenon, <1>1, <3>1, root' = root, at2 = Longer(at, k, n), BeginsMapped
  <2>2. Said(at2)'
    <3>1. CASE meaning' = meaning
      BY ONLY <1>1, <1>5, <1>8, <3>1, SaidStays
    <3>2. CASE meaning' = Meant(k, rec.val)
      <4>1. PICK v : v = rec.val  OBVIOUS
      <4>2. meaning' = Meant(k, v) /\ heap'[at2[k]].val = v  BY <1>3, <1>8, <3>2, <4>1
      <4>3. \A p \in DOMAIN at : heap'[at[p]].val = heap[at[p]].val
        BY <1>1, <1>5 DEF Mapped
      <4>4. \A m \in DOMAIN heap : SameNode(m)  BY <1>5
      <4> QED  BY ONLY <1>1, <1>8, <4>2, <4>3, <4>4, SaidMore
    <3> QED  BY <3>1, <3>2
  <2>3. heap'[root].name \notin Unmangled  BY <1>1, <1>5 DEF Reads, Mapped, SameNode
  <2> QED  BY <2>1, <2>2, <2>3 DEF StillMapped
<1>10. \A r \in DOMAIN at : at[r] # n  BY <1>4 DEF Begins
<1>11. \A i \in 2..(K - 1) :
         FrameReads(heap', events', at2, stack[i], open[i + 1], open[i].kind = "seq")
  <2>1. \A m \in DOMAIN heap : m # Top.parent => heap'[m].val = heap[m].val  BY <1>5
  <2> QED  BY Zenon, <1>1, <1>4, <2>1, LowerFrames
<1>12. FrameReads(heap', events', at2, f2, c2, open[K].kind = "seq")
  <2>1. PICK f, c, item : f = Top /\ c = Here /\ item = (open[K].kind = "seq")  OBVIOUS
  <2>2. PICK e : e = events + 1  OBVIOUS
  <2>3. /\ FrameReads(heap, events, at, f, c, item) /\ Begins(at, c.path, n, x)
        /\ c.kind = "seq" /\ x = Index(c.items) /\ k = Append(c.path, x)
        /\ f2.parent = f.parent /\ f2.node = f.node /\ f2.seq_idx = f.seq_idx + 1
        /\ c2.path = c.path /\ c2.kind = c.kind /\ c2.items = c.items + 1
    BY <1>4, <2>1
  <2>4. FrameReads(heap', e, at2, f2, c2, item)
    BY ONLY Zenon, <1>1, <2>2, <2>3, events \in Nat, at2 = Longer(at, k, n), ItemReads
  <2> QED  BY <2>1, <2>2, <2>4
<1> QED  BY <1>3, <1>8, <1>9, <1>10, <1>11, <1>12

\* Where a scalar is an item.
LEMMA ItemUnderstood ==
  ASSUME LoaderInv, events \in Nat, NEW at, Reads(at), NEW s, NodeScalar(s), Here.kind = "seq"
  PROVE  \E at2 : Reads(at2)'
<1>1. /\ stack # <<>> /\ events' = events + 1 /\ root' = root /\ events < MaxEvents
      /\ Scalar(s) /\ open' = NodeSeen /\ meaning' = Meant(PathHere, s)
      /\ LoadTree /\ FramesAlive /\ OpenInv /\ Mapped(at) /\ Said(at) /\ Reading(at)
  BY DEF NodeScalar, Delivers, LoaderInv, Reads
<1>2. PICK K \in Nat, L \in Nat : At(K, L)  BY <1>1, Where
<1>3. /\ K >= 2 /\ L = K + 1 /\ K = Len(stack) /\ L = Len(open) /\ DOMAIN stack = 1..K
      /\ Top = stack[K] /\ Here = open[L] /\ Top \in FrameType /\ Top.inseq
  BY Zenon, <1>2 DEF At
<1>4. ScalarItem(s)  BY <1>1, <1>3 DEF Scalar, ScalarKey, ScalarValue
<1>5. Top.seq_idx = Here.items
  <2>1. FrameReads(heap, events, at, Top, Here, open[K].kind = "seq")
    BY <1>1, <1>3 DEF Reading, FramesRead
  <2> QED  BY <2>1 DEF FrameReads, ItemsRead
<1>6. PICK x : x = Index(Here.items)  OBVIOUS
<1>7. PICK rec : rec = Loaded(x, s)  OBVIOUS
<1>8. PICK n \in Nodes \ DOMAIN heap : heap' = Added(Top.parent, n, rec)
  BY <1>4, <1>5, <1>6, <1>7 DEF ScalarItem
<1>9. rec.kids = <<>> /\ rec.name = x /\ rec.val = s  BY <1>7 DEF Loaded, NewNode
<1>10. PICK k : k = Append(Here.path, x)  BY Zenon
<1>11. PICK at2 : at2 = Longer(at, k, n)  OBVIOUS
<1>12. meaning' = Meant(k, rec.val)  BY <1>1, <1>6, <1>9, <1>10 DEF PathHere
<1>13. /\ Marked(open, NodeSeen, L) /\ NodeSeen[L].items = Here.items + 1
  <2>1. ~ AtKey  BY DEF AtKey
  <2> QED  BY <1>1, <1>2, <2>1, SeenFacts
<1>14. PICK st, op : st = stack' /\ op = open'  OBVIOUS
<1>15. /\ Len(op) = L /\ \A i \in 1..K : op[i] = open[i]
       /\ op[L].kind = Here.kind /\ op[L].path = Here.path /\ op[L].items = Here.items + 1
  BY <1>1, <1>3, <1>13, <1>14 DEF Marked
<1>16. st = [stack EXCEPT ![K] = [Top EXCEPT !.seq_idx = @ + 1]]
  BY <1>3, <1>4, <1>14 DEF ScalarItem, Advance
<1>17. /\ Len(st) = K /\ \A i \in 1..(K - 1) : st[i] = stack[i]
       /\ st[K].parent = Top.parent /\ st[K].node = Top.node
       /\ st[K].seq_idx = Top.seq_idx + 1
  BY <1>1, <1>3, <1>16 DEF FrameType, FramesAlive
<1>18. PICK f2, c2 : f2 = st[K] /\ c2 = op[L]  OBVIOUS
<1>19. /\ f2.parent = Top.parent /\ f2.node = Top.node /\ f2.seq_idx = Top.seq_idx + 1
       /\ c2.path = Here.path /\ c2.kind = Here.kind /\ c2.items = Here.items + 1
  BY <1>15, <1>17, <1>18
<1>20. /\ StillMapped(at2)
       /\ \A i \in 2..(K - 1) :
             FrameReads(heap', events', at2, stack[i], open[i + 1], open[i].kind = "seq")
       /\ FrameReads(heap', events', at2, f2, c2, open[K].kind = "seq")
  <2>1. NextItem(at, K, L, x, n, rec, k, at2, f2, c2)
    BY <1>1, <1>2, <1>6, <1>8, <1>9, <1>10, <1>11, <1>12, <1>19 DEF NextItem
  <2> QED  BY ONLY <2>1, NextItemReads
<1>21. KeyPending(heap', at2, st, st[K], op[L])  BY <1>15 DEF KeyPending
<1> QED
  BY <1>1, <1>2, <1>3, <1>14, <1>15, <1>17, <1>18, <1>20, <1>21, TopGoesOn

\* A mapping that is an item.
LEMMA MappingItemUnderstood ==
  ASSUME LoaderInv, events \in Nat, NEW at, Reads(at), MappingStart, Here.kind = "seq"
  PROVE  \E at2 : Reads(at2)'
<1>1. /\ stack # <<>> /\ events' = events + 1 /\ root' = root /\ events < MaxEvents
      /\ MappingItem \/ MappingValue
      /\ open' = Append(NodeSeen, Collection("map", PathHere)) /\ meaning' = meaning
      /\ LoadTree /\ FramesAlive /\ OpenInv /\ Mapped(at) /\ Said(at) /\ Reading(at)
  BY DEF MappingStart, Delivers, LoaderInv, Reads
<1>2. PICK K \in Nat, L \in Nat : At(K, L)  BY <1>1, Where
<1>3. /\ K >= 2 /\ L = K + 1 /\ K = Len(stack) /\ L = Len(open) /\ DOMAIN stack = 1..K
      /\ Top = stack[K] /\ Here = open[L] /\ Top \in FrameType /\ Top.inseq
  BY Zenon, <1>2 DEF At
<1>4. MappingItem  BY <1>1, <1>3 DEF MappingValue
<1>5. Top.seq_idx = Here.items /\ Top.node = Top.parent
  <2>1. FrameReads(heap, events, at, Top, Here, open[K].kind = "seq")
    BY <1>1, <1>3 DEF Reading, FramesRead
  <2> QED  BY <2>1 DEF FrameReads, ItemsRead
<1>6. PICK x : x = Index(Here.items)  OBVIOUS
<1>7. PICK rec : rec = [Loaded(x, NULL) EXCEPT !.is_seq = TRUE]  BY Zenon
<1>8. PICK n \in Nodes \ DOMAIN heap :
        /\ heap' = Added(Top.parent, n, rec)
        /\ stack' = Append([stack EXCEPT ![K].seq_idx = @ + 1], Frame(n, FALSE))
  BY Zenon, <1>3, <1>4, <1>5, <1>6, <1>7 DEF MappingItem
<1>9. rec.kids = <<>> /\ rec.name = x /\ rec.val = NULL /\ rec.is_seq
  BY <1>7 DEF Loaded, NewNode
<1>10. PICK k : k = Append(Here.path, x)  BY Zenon
<1>11. PICK at2 : at2 = Longer(at, k, n)  OBVIOUS
<1>12. PathHere = k  BY <1>6, <1>10 DEF PathHere
<1>13. /\ Marked(open, NodeSeen, L) /\ NodeSeen[L].items = Here.items + 1
       /\ NodeSeen[L].key = <<>>
  <2>1. ~ AtKey  BY DEF AtKey
  <2> QED  BY <1>1, <1>2, <2>1, SeenFacts
<1>14. PICK st, op, old, seen, coll :
         /\ st = stack' /\ op = open' /\ old = [stack EXCEPT ![K].seq_idx = @ + 1]
         /\ seen = NodeSeen /\ coll = Collection("map", k)
  BY Zenon
<1>15. /\ Len(op) = L + 1 /\ op[L + 1] = coll /\ \A i \in 1..K : op[i] = open[i]
       /\ op[L].kind = Here.kind /\ op[L].path = Here.path /\ op[L].items = Here.items + 1
       /\ op[L].key = <<>>
  <2>1. /\ seen \in Seq(ToSet(seen)) /\ Len(seen) = L /\ op = Append(seen, coll)
        /\ \A i \in 1..(L - 1) : seen[i] = open[i]
        /\ seen[L].kind = Here.kind /\ seen[L].path = Here.path
        /\ seen[L].items = Here.items + 1 /\ seen[L].key = <<>>
    BY <1>1, <1>3, <1>12, <1>13, <1>14 DEF Marked
  <2>2. Len(op) = Len(seen) + 1 /\ op[Len(seen) + 1] = coll
        /\ \A i \in 1..Len(seen) : op[i] = seen[i]
    BY ONLY <2>1, AnyAppend
  <2>3. L \in 1..L /\ \A i \in 1..K : i \in 1..L /\ i \in 1..(L - 1)  BY <1>3
  <2> QED  BY <2>1, <2>2, <2>3
<1>16. /\ old \in Seq(FrameType) /\ Len(old) = K /\ \A i \in 1..(K - 1) : old[i] = stack[i]
       /\ old[K].parent = Top.parent /\ old[K].node = Top.node
       /\ old[K].inseq = Top.inseq /\ old[K].seq_idx = Top.seq_idx + 1
  <2>1. PICK t \in FrameType : t = Top  BY <1>3
  <2>2. PICK new : new = [t EXCEPT !.seq_idx = t.seq_idx + 1]  BY Zenon
  <2>3. /\ new \in FrameType /\ new.parent = t.parent /\ new.node = t.node
        /\ new.inseq = t.inseq /\ new.seq_idx = t.seq_idx + 1
    BY ONLY <2>2, t \in FrameType DEF FrameType
  <2>4. old = [stack EXCEPT ![K] = new]  BY <1>3, <1>14, <2>1, <2>2
  <2>5. stack \in Seq(FrameType) /\ K \in 1..Len(stack)  BY <1>1, <1>3 DEF FramesAlive
  <2>6. /\ old \in Seq(FrameType) /\ Len(old) = Len(stack) /\ old[K] = new
        /\ \A i \in 1..Len(stack) : i # K => old[i] = stack[i]
    BY ONLY <2>3, <2>4, <2>5
  <2>7. \A i \in 1..(K - 1) : i \in 1..K /\ i # K  OBVIOUS
  <2> QED  BY Zenon, <1>3, <2>1, <2>3, <2>6, <2>7
<1>17. /\ Len(st) = K + 1 /\ st[K + 1] = Frame(n, FALSE)
       /\ \A i \in 1..(K - 1) : st[i] = stack[i]
       /\ st[K].parent = Top.parent /\ st[K].node = Top.node /\ st[K].inseq = Top.inseq
       /\ st[K].seq_idx = Top.seq_idx + 1
  <2>1. PICK new : new = Frame(n, FALSE)  BY Zenon
  <2>5. st = Append(old, new)  BY <1>8, <1>14, <2>1
  <2>6. new \in FrameType  BY <2>1 DEF Frame, FrameType, CONF_KEY
  <2>4. old \in Seq(FrameType) /\ Len(old) = K  BY <1>16
  <2>7. /\ Len(st) = Len(old) + 1 /\ st[Len(old) + 1] = new
        /\ \A i \in 1..Len(old) : st[i] = old[i]
    BY ONLY <2>4, <2>5, <2>6
  <2>2. Len(st) = K + 1 /\ st[K + 1] = Frame(n, FALSE) /\ \A i \in 1..K : st[i] = old[i]
    BY <2>1, <2>4, <2>7
  <2>3. K \in 1..K /\ \A i \in 1..(K - 1) : i \in 1..K  BY <1>3
  <2> QED  BY Zenon, <1>3, <1>16, <2>2, <2>3 DEF FrameType
<1>18. PICK f2, c2 : f2 = st[K] /\ c2 = op[L]  OBVIOUS
<1>19. /\ f2.parent = Top.parent /\ f2.node = Top.node /\ f2.seq_idx = Top.seq_idx + 1
       /\ c2.path = Here.path /\ c2.kind = Here.kind /\ c2.items = Here.items + 1
  BY <1>15, <1>17, <1>18
<1>20. /\ StillMapped(at2) /\ k \in DOMAIN at2 /\ at2[k] = n /\ heap'[n] = rec
       /\ \A r \in DOMAIN at : at[r] # n
       /\ \A i \in 2..(K - 1) :
             FrameReads(heap', events', at2, stack[i], open[i + 1], open[i].kind = "seq")
       /\ FrameReads(heap', events', at2, f2, c2, open[K].kind = "seq")
  <2>1. NextItem(at, K, L, x, n, rec, k, at2, f2, c2)
    BY <1>1, <1>2, <1>6, <1>8, <1>9, <1>10, <1>11, <1>19 DEF NextItem
  <2> QED  BY ONLY <2>1, NextItemReads
<1>21. \A i \in 2..K : stack[i].parent # n
  <2>1. \A i \in 2..K : FrameReads(heap, events, at, stack[i], open[i + 1], open[i].kind = "seq")
    BY <1>1, <1>3 DEF Reading, FramesRead
  <2> QED  BY <1>20, <2>1 DEF FrameReads
<1>22. \A i \in 2..K :
         FrameReads(heap', events', at2, st[i], op[i + 1], open[i].kind = "seq")
  <2> TAKE i \in 2..K
  <2>1. CASE i = K  BY <1>3, <1>18, <1>20, <2>1
  <2>2. CASE i # K
    <3>1. i \in 2..(K - 1) /\ i \in 1..(K - 1) /\ i + 1 \in 1..K  BY <2>2
    <3> QED  BY <1>15, <1>17, <1>20, <3>1
  <2> QED  BY <2>1, <2>2
<1>23. FrameReads(heap', events', at2, Frame(n, FALSE), coll, TRUE)
  <2>1. PICK g, f : g = heap' /\ f = Frame(n, FALSE)  BY Zenon
  <2>2. /\ f.parent = n /\ coll.path = k /\ coll.kind = "map" /\ coll.keys = {}
    BY <1>14, <2>1 DEF Frame, Collection
  <2>3. g[n].kids = <<>> /\ g[n].is_seq /\ g[n].val = NULL  BY <1>9, <1>20, <2>1
  <2>4. ToSet(g[n].kids) = {}  BY <2>3 DEF ToSet
  <2>5. KeysRead(g, at2, f, coll, TRUE)  BY <2>2, <2>3, <2>4 DEF KeysRead
  <2>6. FrameReads(g, events', at2, f, coll, TRUE)  BY Zenon, <1>20, <2>2, <2>5 DEF FrameReads
  <2> QED  BY Zenon, <2>1, <2>6
<1>24. FrameReads(heap', events', at2, st[K + 1], op[L + 1], op[L].kind = "seq")
  <2>1. (op[L].kind = "seq") = TRUE  BY <1>15
  <2> QED  BY Zenon, <1>15, <1>17, <1>23, <2>1
<1>25. \A i \in 1..K : /\ st[i].parent = stack[i].parent /\ st[i].node = stack[i].node
                       /\ st[i].inseq = stack[i].inseq
  <2> TAKE i \in 1..K
  <2>1. CASE i = K  BY Zenon, <1>3, <1>17, <2>1
  <2>2. CASE i # K
    <3>1. i \in 1..(K - 1)  BY <2>2
    <3> QED  BY <1>17, <3>1
  <2> QED  BY <2>1, <2>2
<1>26. K # 0 /\ (K = 1 => op[L].items # 0)  BY <1>3
<1>27. Pushes(at, K, L, at2, n, FALSE, "map", k)
  <2>1. K # 0 /\ L = K + 1  BY <1>3
  <2>2. /\ Len(stack') = K + 1 /\ Len(open') = L + 1
        /\ stack'[K + 1] = Frame(n, FALSE) /\ open'[L + 1] = Collection("map", k)
        /\ open'[L].key = <<>> /\ (K = 1 => open'[L].items # 0)
    BY <1>14, <1>15, <1>17, <1>26
  <2>3. /\ \A i \in 1..K : /\ stack'[i].parent = stack[i].parent
                           /\ stack'[i].node = stack[i].node
                           /\ stack'[i].inseq = stack[i].inseq
        /\ \A i \in 1..K : open'[i] = open[i]
    BY <1>14, <1>15, <1>25
  <2>4. /\ \A i \in 2..K :
              FrameReads(heap', events', at2, stack'[i], open'[i + 1], open[i].kind = "seq")
        /\ FrameReads(heap', events', at2, stack'[K + 1], open'[L + 1], open'[L].kind = "seq")
    BY <1>14, <1>22, <1>24
  <2> QED  BY Zenon, <1>1, <1>2, <1>20, <1>21, <2>1, <2>2, <2>3, <2>4 DEF Pushes
<1> QED  BY Zenon, <1>27, PushGoesOn

-----------------------------------------------------------------------------
(* A scalar that is a key *)

\* The innermost call waits for a key.
KeyComes(at, s, K, L) ==
    /\ LoaderInv /\ events \in Nat /\ Reads(at) /\ s \in Scalars /\ stack # <<>>
    /\ K \in Nat /\ L \in Nat /\ At(K, L) /\ AtKey /\ Scalar(s)
    /\ root' = root /\ events' = events + 1

LEMMA KeyFrame ==
  ASSUME NEW at, NEW s, NEW K, NEW L, KeyComes(at, s, K, L)
  PROVE  /\ K >= 2 /\ L = K + 1 /\ K = Len(stack) /\ L = Len(open) /\ DOMAIN stack = 1..K
         /\ Top = stack[K] /\ Here = open[L] /\ Top \in FrameType /\ ~ Top.inseq
         /\ LoadTree /\ FramesAlive /\ OpenInv /\ Mapped(at) /\ Said(at) /\ Reading(at)
         /\ Here.kind = "map" /\ ScalarKey(s)
         /\ FrameReads(heap, events, at, Top, Here, open[K].kind = "seq")
         /\ KeysRead(heap, at, Top, Here, open[K].kind = "seq")
         /\ Here.path \in DOMAIN at /\ at[Here.path] = Top.parent
<1> USE DEF KeyComes
<1>1. /\ LoadTree /\ FramesAlive /\ OpenInv /\ Mapped(at) /\ Said(at) /\ Reading(at)
  BY DEF LoaderInv, Reads
<1>2. Here.kind = "map" /\ Here.key = <<>>  BY DEF AtKey
<1>3. /\ K >= 2 /\ L = K + 1 /\ K = Len(stack) /\ L = Len(open) /\ DOMAIN stack = 1..K
      /\ Top = stack[K] /\ Here = open[L] /\ Top \in FrameType /\ ~ Top.inseq
  BY Zenon, <1>2 DEF At
<1>4. Top.state # CONF_VAL  BY <1>1, <1>2 DEF Reading, KeyPending
<1>5. ScalarKey(s)  BY <1>3, <1>4 DEF Scalar, ScalarItem, ScalarValue
<1>6. FrameReads(heap, events, at, Top, Here, open[K].kind = "seq")
  BY <1>1, <1>3 DEF Reading, FramesRead
<1>7. /\ KeysRead(heap, at, Top, Here, open[K].kind = "seq")
      /\ Here.path \in DOMAIN at /\ at[Here.path] = Top.parent
  BY <1>2, <1>6 DEF FrameReads
<1> QED  BY <1>1, <1>2, <1>3, <1>5, <1>6, <1>7

\* The path of a key ends in the name of its node.
LEMMA KeyNames ==
  ASSUME NEW at, NEW s, NEW K, NEW L, KeyComes(at, s, K, L), NEW x, x = KeyName(s)
  PROVE  /\ KeyPath(s) = Append(Here.path, x) /\ Last(KeyPath(s)) = x
         /\ Spelled(heap, Top.parent, x) /\ Mangle(s) # NULL
         /\ \A y : ConfGetNode(Append(Here.path, y)) = LookupIn(heap, Top.parent, y)
<1>1. /\ Mapped(at) /\ LoadTree /\ Here.path \in DOMAIN at /\ at[Here.path] = Top.parent
  BY KeyFrame
<1>2. PICK q, P : q = Here.path /\ P = Top.parent  OBVIOUS
<1>3. IsPath(q) /\ q \in DOMAIN at /\ at[q] = P /\ P \in DOMAIN heap
  BY <1>1, <1>2 DEF Mapped
<1>4. x = IF heap[P].name \in Unmangled THEN s ELSE Mangle(s)  BY <1>2 DEF KeyName
<1>6. ASSUME q # <<>> PROVE KeyPath(s) = Append(q, x)
  <2>1. PICK r \in DOMAIN at : \E y : q = Append(r, y) /\ heap[P].name = y
    BY <1>1, <1>3, <1>6 DEF Mapped, Hangs
  <2>2. PICK y : q = Append(r, y) /\ heap[P].name = y  BY <2>1
  <2>3. IsPath(r)  BY <1>1 DEF Mapped
  <2>4. Len(q) = Len(r) + 1 /\ q[Len(r) + 1] = y  BY <2>2, <2>3, AppendPath
  <2>5. Last(q) = heap[P].name  BY <2>2, <2>4 DEF Last
  <2> QED  BY <1>2, <1>4, <1>6, <2>5 DEF KeyPath
<1>7. KeyPath(s) = Append(q, x)
  <2>1. CASE q = <<>>
    <3>1. P = root  BY <1>1, <1>3, <2>1 DEF Mapped
    <3>2. heap[P].name \notin Unmangled  BY <3>1 DEF KeyComes, Reads
    <3> QED  BY <1>2, <1>4, <2>1, <3>2 DEF KeyPath
  <2> QED  BY <1>6, <2>1
<1>8. Last(KeyPath(s)) = x
  <2>1. PICK t : t = Append(q, x)  BY Zenon
  <2>2. Len(t) = Len(q) + 1 /\ t[Len(q) + 1] = x  BY <1>3, <2>1, AppendPath
  <2> QED  BY <1>7, <2>1, <2>2 DEF Last
<1>9. Spelled(heap, P, x) /\ Mangle(s) # NULL
  BY <1>4, TextAssumption DEF Spelled, KeyComes
<1>10. ASSUME NEW y PROVE ConfGetNode(Append(q, y)) = LookupIn(heap, P, y)
  <2>1. DOMAIN heap \subseteq Nodes  BY <1>1 DEF LoadTree
  <2>2. ConfGetNode(q) = P /\ P # NULL  BY <1>1, <1>3, <2>1, MapFinds, ConfTreeAssumption
  <2>3. Find(root, Append(q, y)) = Step(Find(root, q), y)  BY <1>3, FindAppend
  <2> QED  BY <2>2, <2>3, LookupIs DEF ConfGetNode, Step
<1> QED  BY <1>2, <1>7, <1>8, <1>9, <1>10

\* The node of the key, and the value that the key gives to its parent.
NodeOfKey(at, n, x, v) ==
    /\ Begins(at, Here.path, n, x) /\ NewVal(Top.parent, v) /\ ~ heap'[n].is_seq
    /\ stack' = [stack EXCEPT ![Len(stack)] = [Top EXCEPT !.node = n, !.state = CONF_VAL]]

LEMMA KeyBegins ==
  ASSUME NEW at, NEW s, NEW K, NEW L, KeyComes(at, s, K, L), NEW x, x = KeyName(s),
         KeyPath(s) \notin Here.keys,
         \/ x = s
         \/ ConfGetNode(KeyPath(s)) = NULL /\ ConfGetNode(Append(Here.path, s)) = NULL,
         NEW v, v = IF heap[Top.parent].is_seq /\ heap[Top.parent].val = NULL
                    THEN Mangle(s) ELSE heap[Top.parent].val
  PROVE  \E n : NodeOfKey(at, n, x, v)
<1>1. /\ K = Len(stack) /\ LoadTree /\ FramesAlive /\ Mapped(at) /\ ScalarKey(s)
      /\ KeysRead(heap, at, Top, Here, open[K].kind = "seq")
      /\ Here.path \in DOMAIN at /\ at[Here.path] = Top.parent
  BY KeyFrame
<1>2. /\ KeyPath(s) = Append(Here.path, x)
      /\ \A y : ConfGetNode(Append(Here.path, y)) = LookupIn(heap, Top.parent, y)
  BY KeyNames
<1>3. PICK P \in DOMAIN heap : P = Top.parent  BY <1>1 DEF Mapped
<1>4. PICK q : q = Here.path /\ q \in DOMAIN at /\ at[q] = P  BY <1>1, <1>3
<1>5. \/ x = s
      \/ LookupIn(heap, P, x) = NULL /\ LookupIn(heap, P, s) = NULL
  BY <1>2, <1>3
<1>6. PICK n0 : n0 = LookupIn(heap, P, s)  OBVIOUS
<1>7. heap[P].kids \in Seq(Nodes) /\ ToSet(heap[P].kids) \subseteq DOMAIN heap
  BY <1>1, KidsIn
<1>8. Called(s) = [heap EXCEPT ![P].val = v]  BY <1>3 DEF Called
<1>9. Called(s)[P].val = v
  <2>1. [heap EXCEPT ![P].val = v][P] = [heap[P] EXCEPT !.val = v]  OBVIOUS
  <2>2. PICK r : r = heap[P]  OBVIOUS
  <2>3. r = [name |-> r.name, val |-> r.val, allow_override |-> r.allow_override,
             is_seq |-> r.is_seq, parent |-> r.parent, kids |-> r.kids]
    BY <1>1, <2>2 DEF LoadTree, LoadNode, IsNode
  <2> QED  BY <1>8, <2>1, <2>2, <2>3
<1>10. CASE n0 # NULL
  <2>1. /\ heap' = Called(s)
        /\ stack' = [stack EXCEPT ![Len(stack)] = [Top EXCEPT !.node = n0, !.state = CONF_VAL]]
    BY Zenon, <1>1, <1>3, <1>6, <1>10, LookupIs DEF ScalarKey, Advance
  <2>2. x = s  BY <1>5, <1>6, <1>10
  <2>3. SameKids /\ NewVal(P, v)
    <3>1. heap' = [heap EXCEPT ![P].val = v]  BY <1>8, <2>1
    <3> QED  BY ONLY Zenon, <1>1, <3>1, P \in DOMAIN heap, ValueIs
  <2>4. n0 \in ToSet(heap[P].kids) /\ heap[n0].name = s  BY <1>6, <1>7, <1>10, LookupKid
  <2>5. Unread(heap, at, n0)
    <3>1. Append(q, heap[n0].name) \notin Here.keys  BY <1>2, <1>4, <2>2, <2>4
    <3> QED  BY <1>1, <1>3, <1>4, <2>4, <3>1 DEF KeysRead
  <2>6. Begins(at, q, n0, x)
    <3>1. LookupIn(heap, at[q], x) = n0 /\ q \in DOMAIN at  BY <1>4, <1>6, <2>2
    <3> QED  BY ONLY <1>1, <1>10, <2>3, <2>5, <3>1, FoundBegins
  <2>7. ~ heap'[n0].is_seq  BY <1>7, <2>3, <2>4, <2>5 DEF SameKids, SameNode, Unread
  <2> QED  BY ZenonT(60), <1>3, <1>4, <2>1, <2>3, <2>5, <2>6, <2>7 DEF NodeOfKey
<1>11. CASE n0 = NULL
  <2>1. PICK rec : rec = Loaded(x, NULL)  BY SMTT(60)
  <2>2. PICK n \in Nodes \ DOMAIN heap :
          /\ heap' = [Added(P, n, rec) EXCEPT ![P].val = v]
          /\ stack' = [stack EXCEPT ![Len(stack)] = [Top EXCEPT !.node = n, !.state = CONF_VAL]]
    BY Zenon, <1>1, <1>3, <1>6, <1>9, <1>11, <2>1, LookupIs DEF ScalarKey, Advance
  <2>3. rec.kids = <<>> /\ rec.name = x /\ ~ rec.is_seq  BY <2>1 DEF Loaded, NewNode
  <2>4. NewKid(P, n, x) /\ NewVal(P, v) /\ heap'[n] = rec
    <3>1. NewKid(P, n, rec.name) /\ NewVal(P, v) /\ heap'[n] = rec
      BY ONLY ZenonT(60), <1>1, <2>2, <2>3, P \in DOMAIN heap, n \in Nodes \ DOMAIN heap, AddedIs
    <3> QED  BY <2>3, <3>1
  <2>5. LookupIn(heap, at[q], x) = NULL  BY Zenon, <1>4, <1>5, <1>6, <1>11
  <2>6. Begins(at, q, n, x)
    <3>1. NewKid(at[q], n, x) /\ q \in DOMAIN at  BY <1>4, <2>4
    <3> QED  BY ONLY <1>1, <2>5, <3>1, NewKidBegins
  <2> QED  BY Zenon, <1>3, <1>4, <2>2, <2>3, <2>4, <2>6 DEF NodeOfKey
<1> QED  BY <1>10, <1>11

LEMMA KeyUnderstood ==
  ASSUME LoaderInv, events \in Nat, NEW at, Reads(at), NEW s \in Scalars, KeyScalar(s),
         style = "plain", style' = "plain"
  PROVE  \E at2 : Reads(at2)'
<1>1. /\ stack # <<>> /\ events' = events + 1 /\ root' = root /\ AtKey /\ Scalar(s)
      /\ LoadTree /\ FramesAlive /\ OpenInv /\ Mapped(at) /\ Said(at) /\ Reading(at)
  BY DEF KeyScalar, Delivers, LoaderInv, Reads
<1>2. PICK K \in Nat, L \in Nat : At(K, L)  BY <1>1, Where
<1>3. KeyComes(at, s, K, L)  BY <1>1, <1>2 DEF KeyComes
<1>4. /\ K >= 2 /\ L = K + 1 /\ K = Len(stack) /\ L = Len(open) /\ DOMAIN stack = 1..K
      /\ Top = stack[K] /\ Here = open[L] /\ Top \in FrameType /\ Here.kind = "map"
      /\ FrameReads(heap, events, at, Top, Here, open[K].kind = "seq")
      /\ KeysRead(heap, at, Top, Here, open[K].kind = "seq")
      /\ Here.path \in DOMAIN at /\ at[Here.path] = Top.parent
  BY <1>3, KeyFrame
<1>5. PICK x : x = KeyName(s)  OBVIOUS
<1>6. /\ KeyPath(s) = Append(Here.path, x) /\ Last(KeyPath(s)) = x
      /\ Spelled(heap, Top.parent, x) /\ Mangle(s) # NULL
  BY <1>3, <1>5, KeyNames
<1>7. PICK k : k = KeyPath(s) /\ k = Append(Here.path, x)  BY <1>6
<1>8. /\ KeyPath(s) \notin Here.keys
      /\ \/ x = s
         \/ ConfGetNode(KeyPath(s)) = NULL /\ ConfGetNode(Append(Here.path, s)) = NULL
  BY <1>6 DEF KeyScalar
<1>9. PICK v : v = IF heap[Top.parent].is_seq /\ heap[Top.parent].val = NULL
                   THEN Mangle(s) ELSE heap[Top.parent].val
  OBVIOUS
<1>10. PICK n : NodeOfKey(at, n, x, v)  BY <1>3, <1>5, <1>8, <1>9, KeyBegins
<1>11. PICK q : q = Here.path /\ q \in DOMAIN at /\ at[q] = Top.parent /\ k = Append(q, x)
  BY <1>4, <1>7
<1>12. PICK P \in DOMAIN heap : P = Top.parent  BY <1>1, <1>4 DEF Mapped
<1>13. /\ Begins(at, q, n, x) /\ NewVal(P, v) /\ ~ heap'[n].is_seq
       /\ stack' = [stack EXCEPT ![K] = [Top EXCEPT !.node = n, !.state = CONF_VAL]]
  BY <1>4, <1>10, <1>11, <1>12 DEF NodeOfKey
<1>14. PICK at2 : at2 = Longer(at, k, n)  OBVIOUS
<1>15. k \notin DOMAIN at /\ k # <<>>
  <2>1. Append(q, x) \notin DOMAIN at /\ Append(q, x) # <<>>
    BY ONLY <1>1, <1>13, BeginsNew
  <2> QED  BY <1>11, <2>1
<1>16. k \in DOMAIN at2 /\ at2[k] = n /\ \A p \in DOMAIN at : p \in DOMAIN at2 /\ at2[p] = at[p]
  BY <1>14, <1>15 DEF Longer
<1>17. /\ \A m \in DOMAIN heap : SameNode(m)
       /\ \A r \in DOMAIN at : at[r] # n
  BY <1>13 DEF Begins
<1>18. /\ heap'[P].val = v
       /\ \A m \in DOMAIN heap : m # P => heap'[m].val = heap[m].val
  BY <1>13 DEF NewVal
<1>19. StillMapped(at2)
  <2>1. Mapped(at2)'
    BY ONLY Zenon, <1>1, <1>11, <1>13, <1>14, BeginsMapped
  <2>2. Said(at2)'
    <3>1. CASE IsItem /\ Here.keys = {}
      <4>1. open[K].kind = "seq"  BY <1>4, <3>1 DEF IsItem
      <4>2. heap[P].is_seq /\ heap[P].val = NULL  BY <1>4, <1>12, <3>1, <4>1 DEF KeysRead
      <4>3. v = Mangle(s)  BY <1>9, <1>12, <4>2
      <4>4. meaning' = Meant(q, v)  BY <1>11, <3>1, <4>3 DEF KeyScalar
      <4>5. q \in DOMAIN at2 /\ at2[q] = P  BY <1>11, <1>12, <1>16
      <4>6. heap'[at2[q]].val = v  BY <1>18, <4>5
      <4>7. \A p \in DOMAIN at : p # q => heap'[at[p]].val = heap[at[p]].val
        BY <1>1, <1>11, <1>12, <1>18 DEF Mapped
      <4> QED  BY ONLY <1>1, <1>16, <1>17, <4>4, <4>5, <4>6, <4>7, SaidMore
    <3>2. CASE ~ (IsItem /\ Here.keys = {})
      <4>1. ~ (open[K].kind = "seq" /\ Here.keys = {})  BY <1>4, <3>2 DEF IsItem
      <4>2. ~ (heap[P].is_seq /\ heap[P].val = NULL)  BY <1>4, <1>12, <4>1 DEF KeysRead
      <4>3. v = heap[P].val  BY <1>9, <1>12, <4>2
      <4>4. meaning' = meaning  BY <3>2 DEF KeyScalar
      <4>5. \A m \in DOMAIN heap : SameNode(m) /\ heap'[m].val = heap[m].val
        BY <1>17, <1>18, <4>3
      <4> QED  BY ONLY <1>1, <1>16, <4>4, <4>5, SaidStays
    <3> QED  BY <3>1, <3>2
  <2>3. heap'[root].name \notin Unmangled  BY <1>1, <1>17 DEF Reads, Mapped, SameNode
  <2> QED  BY <1>1, <2>1, <2>2, <2>3 DEF StillMapped
<1>20. PICK st, op : st = stack' /\ op = open'  OBVIOUS
<1>21. /\ Len(op) = L /\ \A i \in 1..K : op[i] = open[i]
       /\ op[L].kind = Here.kind /\ op[L].path = Here.path /\ op[L].key = k
       /\ op[L].keys = Here.keys \cup {k}
  <2>1. PICK c : c = open[L]  OBVIOUS
  <2>2. c = [kind |-> c.kind, path |-> c.path, key |-> c.key, keys |-> c.keys,
             items |-> c.items]
    BY SMTT(60), <1>2, <1>4, <2>1 DEF At, IsCollection
  <2>3. op = [open EXCEPT ![L].key = k, ![L].keys = @ \cup {k}]
    BY Zenon, <1>4, <1>7, <1>20 DEF KeyScalar
  <2>4. DOMAIN open = 1..L /\ L \in 1..L  BY <1>2, <1>4 DEF At
  <2>5. DOMAIN op = DOMAIN open /\ \A i \in DOMAIN open : i # L => op[i] = open[i]
    BY ONLY <2>3
  <2>7. op[L] = [c EXCEPT !.key = k, !.keys = c.keys \cup {k}]
    <3>1. IsCollection(c)  BY <1>2, <1>4, <2>1 DEF At
    <3>2. PICK M : M = L /\ M \in DOMAIN open /\ c = open[M]  BY <2>1, <2>4
    <3>3. op = [open EXCEPT ![M].key = k, ![M].keys = @ \cup {k}]  BY <2>3, <3>2
    <3>4. op[M] = [open[M] EXCEPT !.key = k, !.keys = open[M].keys \cup {k}]
      BY ONLY <3>1, <3>2, <3>3 DEF IsCollection
    <3> QED  BY <3>2, <3>4
  <2>8. \A i \in 1..K : i \in 1..L /\ i # L  BY <1>4
  <2>9. /\ op[L].kind = c.kind /\ op[L].path = c.path /\ op[L].key = k
        /\ op[L].keys = c.keys \cup {k}
    BY ONLY <2>2, <2>7
  <2>6. Len(op) = L
    <3>1. open \in Seq(ToSet(open))  BY <1>1 DEF OpenInv
    <3> QED  BY ONLY <2>3, <2>4, <3>1, <1>4, L \in Nat
  <2> QED  BY Zenon, <1>4, <2>1, <2>4, <2>5, <2>6, <2>8, <2>9
<1>22. /\ Len(st) = K /\ \A i \in 1..(K - 1) : st[i] = stack[i]
       /\ st[K].parent = Top.parent /\ st[K].node = n /\ st[K].state = CONF_VAL
  <2>1. PICK t \in FrameType : t = Top  BY <1>4
  <2>2. PICK new : new = [t EXCEPT !.node = n, !.state = CONF_VAL]  OBVIOUS
  <2>3. new.parent = t.parent /\ new.node = n /\ new.state = CONF_VAL
    BY ONLY <2>2, t \in FrameType DEF FrameType
  <2>4. st = [stack EXCEPT ![K] = new]  BY <1>13, <1>20, <2>1, <2>2
  <2>5. stack \in Seq(FrameType) /\ K \in 1..Len(stack)  BY <1>1, <1>4 DEF FramesAlive
  <2>6. Len(st) = Len(stack) /\ st[K] = new /\ \A i \in 1..Len(stack) : i # K => st[i] = stack[i]
    BY ONLY <2>4, <2>5
  <2>7. \A i \in 1..(K - 1) : i \in 1..K /\ i # K  OBVIOUS
  <2> QED  BY <1>4, <2>1, <2>3, <2>6, <2>7
<1>23. FrameReads(heap', events', at2, st[K], op[L], open[K].kind = "seq")
  <2>1. PICK f, c, item : f = Top /\ c = Here /\ item = (open[K].kind = "seq")  OBVIOUS
  <2>2. PICK f2, c2, e : f2 = st[K] /\ c2 = op[L] /\ e = events'  OBVIOUS
  <2>3. /\ FrameReads(heap, events, at, f, c, item) /\ c.kind = "map"
        /\ Begins(at, c.path, n, x) /\ Spelled(heap, f.parent, x)
        /\ k = Append(c.path, x) /\ f2.parent = f.parent
        /\ c2.path = c.path /\ c2.kind = c.kind /\ c2.keys = c.keys \cup {k}
    BY <1>4, <1>6, <1>11, <1>13, <1>21, <1>22, <2>1, <2>2
  <2>4. heap[f.parent].is_seq => heap'[f.parent].val # NULL
    BY <1>6, <1>9, <1>12, <1>18, <2>1
  <2>5. FrameReads(heap', e, at2, f2, c2, item)
    BY ONLY ZenonT(60), <1>1, <1>14, <2>3, <2>4, KeyReads
  <2> QED  BY <2>1, <2>2, <2>5
<1>24. \A i \in 2..(K - 1) :
         FrameReads(heap', events', at2, stack[i], open[i + 1], open[i].kind = "seq")
  <2>1. /\ Begins(at, Here.path, n, x) /\ k = Append(Here.path, x)
        /\ \A m \in DOMAIN heap : m # Top.parent => heap'[m].val = heap[m].val
    BY <1>11, <1>12, <1>13, <1>18
  <2> QED
    BY ONLY Zenon, LoaderInv, events \in Nat, Reads(at), K \in Nat, L \in Nat, <1>1, <1>2, <1>4,
       <1>14, <2>1, LowerFrames
<1>25. KeyPending(heap', at2, st, st[K], op[L])
  <2>1. \A i \in 2..K : st[i].parent # n
    <3>1. \A i \in 2..K : FrameReads(heap, events, at, stack[i], open[i + 1], open[i].kind = "seq")
      BY Zenon, <1>1, <1>4 DEF Reading, FramesRead
    <3>2. \A i \in 2..K : stack[i].parent # n  BY <1>17, <3>1 DEF FrameReads
    <3>3. \A i \in 2..K : i = K \/ i \in 1..(K - 1)  OBVIOUS
    <3> QED  BY <1>4, <1>22, <3>2, <3>3
  <2>2. PICK h, f, c : h = heap' /\ f = st[K] /\ c = op[L]  OBVIOUS
  <2>6. \A m \in ToSet(heap'[n].kids) : Unread(heap', at2, m)
    BY ONLY <1>1, <1>11, <1>13, <1>14, BeginsWaits
  <2>3. /\ c.key = k /\ f.state = CONF_VAL /\ f.node = n /\ Len(st) = K
        /\ ~ h[n].is_seq /\ \A m \in ToSet(h[n].kids) : Unread(h, at2, m)
    BY <1>13, <1>21, <1>22, <2>2, <2>6
  <2>4. Pending(h, at2, st, f, k)  BY <1>16, <2>1, <2>3 DEF Pending
  <2>5. KeyPending(h, at2, st, f, c)  BY <1>15, <2>3, <2>4 DEF KeyPending
  <2> QED  BY <2>2, <2>5
<1> QED
  <2>1. /\ Len(stack') = K /\ \A i \in 1..(K - 1) : stack'[i] = stack[i]
        /\ Len(open') = L /\ \A i \in 1..K : open'[i] = open[i]
        /\ open'[L].kind = Here.kind /\ stack'[K].parent = Top.parent
        /\ FrameReads(heap', events', at2, stack'[K], open'[L], open[K].kind = "seq")
        /\ KeyPending(heap', at2, stack', stack'[K], open'[L])
    BY <1>20, <1>21, <1>22, <1>23, <1>25
  <2>2. Reads(at2)'
    BY ONLY Zenon, K \in Nat, L \in Nat, <1>1, <1>2, <1>4, <1>19, <1>24, <2>1, TopGoesOn
  <2> QED  BY <2>2

-----------------------------------------------------------------------------
\* The call for a collection that is a value.
LEMMA Pushed ==
  ASSUME FramesAlive, OpenInv, stack # <<>>, ~ AtKey, NEW K \in Nat, NEW L \in Nat, At(K, L),
         NEW n \in Nodes, NEW b \in BOOLEAN, stack' = Append(stack, Frame(n, b)),
         NEW c, open' = Append(NodeSeen, c)
  PROVE  /\ Len(stack') = K + 1 /\ Len(open') = L + 1
         /\ stack'[K + 1] = Frame(n, b) /\ open'[L + 1] = c
         /\ \A i \in 1..K : stack'[i] = stack[i]
         /\ \A i \in 1..(L - 1) : open'[i] = open[i]
         /\ open'[L].kind = Here.kind /\ open'[L].path = Here.path
         /\ open'[L].keys = Here.keys /\ open'[L].key = <<>>
         /\ open'[L].items = Here.items + 1
<1>1. /\ K = Len(stack) /\ L = Len(open) /\ Here = open[L] /\ stack \in Seq(FrameType) /\ L # 0
  BY OpenFacts DEF At, FramesAlive
<1>2. /\ Marked(open, NodeSeen, L)
      /\ NodeSeen[L].keys = Here.keys /\ NodeSeen[L].key = <<>>
      /\ NodeSeen[L].items = Here.items + 1
  BY SeenFacts
<1>3. PICK st, op, seen, new :
        st = stack' /\ op = open' /\ seen = NodeSeen /\ new = Frame(n, b)
  OBVIOUS
<1>4. new \in FrameType  BY <1>3 DEF Frame, FrameType, CONF_KEY
<1>5. Len(st) = K + 1 /\ st[K + 1] = new /\ \A i \in 1..K : st[i] = stack[i]
  <2>1. st = Append(stack, new)  BY <1>3
  <2>2. /\ Len(st) = Len(stack) + 1 /\ st[Len(stack) + 1] = new
        /\ \A i \in 1..Len(stack) : st[i] = stack[i]
    BY ONLY <1>1, <1>4, <2>1
  <2> QED  BY <1>1, <2>2
<1>6. /\ seen \in Seq(ToSet(seen)) /\ Len(seen) = L
      /\ \A i \in 1..(L - 1) : seen[i] = open[i]
      /\ seen[L].kind = Here.kind /\ seen[L].path = Here.path
      /\ seen[L].keys = Here.keys /\ seen[L].key = <<>> /\ seen[L].items = Here.items + 1
  BY <1>1, <1>2, <1>3 DEF Marked
<1>7. Len(op) = L + 1 /\ op[L + 1] = c /\ \A i \in 1..L : op[i] = seen[i]
  <2>1. op = Append(seen, c)  BY <1>3
  <2>2. /\ Len(op) = Len(seen) + 1 /\ op[Len(seen) + 1] = c
        /\ \A i \in 1..Len(seen) : op[i] = seen[i]
    BY ONLY <1>6, <2>1, AnyAppend
  <2> QED  BY <1>6, <2>2
<1>8. L \in 1..L /\ \A i \in 1..(L - 1) : i \in 1..L  BY <1>1
<1> QED  BY <1>3, <1>5, <1>6, <1>7, <1>8

\* A step that leaves the tree alone.
LEMMA HeapStays ==
  ASSUME NEW at, Reads(at), LoadTree, heap' = heap, root' = root, meaning' = meaning
  PROVE  StillMapped(at) /\ SameKids
<1>1. Mapped(at) /\ Said(at) /\ heap[root].name \notin Unmangled  BY DEF Reads
<1>2. SameKids  BY DEF SameKids, SameNode
<1>3. Mapped(at)'  BY <1>1, <1>2, MappedStays
<1>4. Said(at)'
  <2>1. \A m \in DOMAIN heap : SameNode(m) /\ heap'[m].val = heap[m].val  BY DEF SameNode
  <2>2. \A p \in DOMAIN at : p \in DOMAIN at /\ at[p] = at[p]  OBVIOUS
  <2> QED  BY ONLY <1>1, <2>1, <2>2, meaning' = meaning, SaidStays
<1> QED  BY <1>1, <1>2, <1>3, <1>4 DEF StillMapped

\* A collection that is the value of a key.
LEMMA ValueStarts ==
  ASSUME LoaderInv, events \in Nat, NEW at, Reads(at), Delivers, AtValue, Here.kind = "map",
         heap' = heap, meaning' = meaning,
         NEW kind \in {"map", "seq"}, NEW b \in BOOLEAN,
         kind = "seq" => heap[Top.node].kids = <<>>,
         stack' = Append(stack, Frame(Top.node, b)),
         open' = Append(NodeSeen, Collection(kind, PathHere))
  PROVE  \E at2 : Reads(at2)'
<1>1. /\ stack # <<>> /\ events' = events + 1 /\ root' = root
      /\ LoadTree /\ FramesAlive /\ OpenInv /\ Mapped(at) /\ Reading(at)
  BY DEF Delivers, LoaderInv, Reads
<1>2. PICK K \in Nat, L \in Nat : At(K, L)  BY <1>1, Where
<1>3. /\ K >= 2 /\ L = K + 1 /\ K = Len(stack) /\ L = Len(open)
      /\ Top = stack[K] /\ Here = open[L]
  BY <1>2 DEF At
<1>4. Here.key # <<>> /\ PathHere = Here.key /\ ~ AtKey  BY DEF AtValue, AtKey, PathHere
<1>5. PICK n \in Nodes : n = Top.node /\ n \in DOMAIN heap  BY <1>1, TopFacts DEF LoadTree
<1>6. PICK k : k = Here.key  OBVIOUS
<1>7. Pending(heap, at, stack, Top, k)  BY <1>1, <1>4, <1>6 DEF Reading, KeyPending
<1>8. /\ k \in DOMAIN at /\ at[k] = n /\ ~ heap[n].is_seq
      /\ \A m \in ToSet(heap[n].kids) : Unread(heap, at, m)
      /\ \A i \in 2..K : stack[i].parent # n
  BY <1>3, <1>5, <1>7 DEF Pending
<1>9. PICK st, op, c : st = stack' /\ op = open' /\ c = Collection(kind, k)  OBVIOUS
<1>10. /\ Len(st) = K + 1 /\ Len(op) = L + 1
       /\ st[K + 1] = Frame(n, b) /\ op[L + 1] = c
       /\ \A i \in 1..K : st[i] = stack[i]
       /\ \A i \in 1..K : op[i] = open[i]
       /\ op[L].kind = Here.kind /\ op[L].path = Here.path
       /\ op[L].keys = Here.keys /\ op[L].key = <<>>
  <2>1. stack' = Append(stack, Frame(n, b)) /\ open' = Append(NodeSeen, c)
    BY <1>4, <1>5, <1>6, <1>9
  <2>2. L - 1 = K  BY <1>3
  <2>3. n \in Nodes  OBVIOUS
  <2> QED
    BY ONLY K \in Nat, L \in Nat, b \in BOOLEAN, <1>1, <1>2, <1>4, <1>9, <2>1, <2>2, <2>3, Pushed
<1>11. StillMapped(at) /\ SameKids  BY <1>1, HeapStays
<1>12. PICK e \in Nat : e = events + 1 /\ events <= e  OBVIOUS
<1>13. \A i \in 2..K : FrameReads(heap', e, at, st[i], op[i + 1], open[i].kind = "seq")
  <2> TAKE i \in 2..K
  <2>1. PICK f, c1, f2, c2 : f = stack[i] /\ c1 = open[i + 1] /\ f2 = st[i] /\ c2 = op[i + 1]
    OBVIOUS
  <2>2. PICK item \in BOOLEAN : item = (open[i].kind = "seq")  BY Zenon
  <2>3. FrameReads(heap, events, at, f, c1, item)
    BY <1>1, <1>3, <2>1, <2>2 DEF Reading, FramesRead
  <2>4. f2 = f  BY <1>10, <2>1
  <2>5. /\ c2.path = c1.path /\ c2.kind = c1.kind /\ c2.keys = c1.keys
        /\ (c1.kind = "seq" => c2.items = c1.items)
    <3>1. CASE i = K  BY <1>3, <1>10, <2>1, <3>1
    <3>2. CASE i # K
      <4>1. i + 1 \in 1..K  BY <3>2
      <4> QED  BY <1>10, <2>1, <4>1
    <3> QED  BY <3>1, <3>2
  <2>6. /\ heap'[f.parent].val = heap[f.parent].val /\ f2.parent = f.parent
        /\ c1.kind = "seq" =>
              f2.node = f.node /\ f2.seq_idx = f.seq_idx /\ c2.items = c1.items
    BY <2>4, <2>5
  <2>7. FrameReads(heap', e, at, f2, c2, item)
    BY ONLY item \in BOOLEAN, e \in Nat, events \in Nat, <1>1, <1>11, <1>12, <2>3, <2>5,
       <2>6, FrameSame
  <2> QED  BY <2>1, <2>2, <2>7
<1>14. FrameReads(heap', e, at, st[K + 1], op[L + 1], op[L].kind = "seq")
  <2>1. PICK g, f, item : g = heap' /\ f = st[K + 1] /\ item = (op[L].kind = "seq")  OBVIOUS
  <2>2. /\ f.parent = n /\ f.node = n /\ f.seq_idx = 0 /\ c.path = k /\ c.kind = kind
        /\ c.keys = {} /\ c.items = 0
    BY <1>9, <1>10, <2>1 DEF Frame, Collection
  <2>3. item = FALSE  BY Zenon, <1>10, <2>1
  <2>4. ~ g[n].is_seq /\ \A m \in ToSet(g[n].kids) : Unread(g, at, m)  BY <1>8, <2>1
  <2>5. ASSUME kind = "seq" PROVE ItemsRead(g, e, f, c)
    <3>1. 0 \in 0..e  OBVIOUS
    <3>2. ToSet(g[n].kids) = {}  BY <1>5, <2>1, <2>5 DEF ToSet
    <3> QED  BY <2>2, <3>1, <3>2 DEF ItemsRead
  <2>6. KeysRead(g, at, f, c, item)  BY <2>2, <2>3, <2>4 DEF KeysRead
  <2>7. FrameReads(g, e, at, f, c, item)  BY <1>8, <2>2, <2>5, <2>6 DEF FrameReads
  <2> QED  BY <1>10, <2>1, <2>7
<1>15. Pushes(at, K, L, at, n, b, kind, k)
  <2>1. K # 0 /\ L = K + 1 /\ K # 1  BY <1>3
  <2>2. \A i \in 1..K : /\ st[i].parent = stack[i].parent /\ st[i].node = stack[i].node
                        /\ st[i].inseq = stack[i].inseq
    BY <1>10
  <2>3. /\ \A i \in 2..K :
           FrameReads(heap', events', at, stack'[i], open'[i + 1],
                      open[i].kind = "seq")
        /\ FrameReads(heap', events', at, stack'[K + 1], open'[L + 1], open'[L].kind = "seq")
    BY Zenon, <1>1, <1>9, <1>12, <1>13, <1>14
  <2> QED  BY <1>1, <1>2, <1>8, <1>9, <1>10, <1>11, <2>1, <2>2, <2>3 DEF Pushes
<1> QED  BY <1>15, PushGoesOn

\* The mapping at the top of the document.
LEMMA DocumentStarts ==
  ASSUME LoaderInv, events \in Nat, NEW at, Reads(at), MappingStart, Here.kind = "doc"
  PROVE  \E at2 : Reads(at2)'
<1>1. /\ stack # <<>> /\ events' = events + 1 /\ root' = root
      /\ LoadTree /\ FramesAlive /\ OpenInv /\ Mapped(at) /\ Reading(at)
      /\ MappingItem \/ MappingValue
      /\ open' = Append(NodeSeen, Collection("map", PathHere)) /\ meaning' = meaning
  BY DEF MappingStart, Delivers, LoaderInv, Reads
<1>2. PICK K \in Nat, L \in Nat : At(K, L)  BY <1>1, Where
<1>3. /\ K = 1 /\ L = 2 /\ K = Len(stack) /\ L = Len(open)
      /\ Top = stack[K] /\ Here = open[L]
  BY <1>2 DEF At
<1>4. ~ Top.inseq /\ Top.node = root /\ Top.parent = root
  BY Zenon, <1>1, <1>3 DEF Reading, BottomReads
<1>5. heap' = heap /\ stack' = Append(stack, Frame(root, FALSE))
  BY Zenon, <1>1, <1>4 DEF MappingItem, MappingValue
<1>6. Here.items = 0 /\ PathHere = <<>> /\ ~ AtKey
  BY DEF MappingStart, AtNode, AtValue, AtKey, PathHere
<1>7. /\ ~ heap[root].is_seq /\ \A m \in ToSet(heap[root].kids) : Unread(heap, at, m)
  BY <1>1, <1>6 DEF Reading, Untouched
<1>8. PICK n \in Nodes : n = root  BY <1>1 DEF Mapped, LoadTree
<1>9. PICK st, op, c : st = stack' /\ op = open' /\ c = Collection("map", <<>>)  OBVIOUS
<1>10. /\ Len(st) = K + 1 /\ Len(op) = L + 1
       /\ st[K + 1] = Frame(n, FALSE) /\ op[L + 1] = c
       /\ \A i \in 1..K : st[i] = stack[i]
       /\ \A i \in 1..K : op[i] = open[i]
       /\ op[L].kind = Here.kind /\ op[L].key = <<>> /\ op[L].items = Here.items + 1
  <2>3. PICK b \in BOOLEAN : b = FALSE  BY Zenon
  <2>1. stack' = Append(stack, Frame(n, b)) /\ open' = Append(NodeSeen, c) /\ n \in Nodes
    BY Zenon, <1>1, <1>5, <1>6, <1>8, <1>9, <2>3
  <2>2. L - 1 = K  BY <1>3
  <2>4. /\ Len(st) = K + 1 /\ Len(op) = L + 1 /\ st[K + 1] = Frame(n, b) /\ op[L + 1] = c
        /\ \A i \in 1..K : st[i] = stack[i]
        /\ \A i \in 1..K : op[i] = open[i]
        /\ op[L].kind = Here.kind /\ op[L].key = <<>> /\ op[L].items = Here.items + 1
    BY ONLY SMTT(60), K \in Nat, L \in Nat, b \in BOOLEAN, <1>1, <1>2, <1>6, <1>9, <2>1, <2>2,
       Pushed
  <2> QED  BY Zenon, <2>3, <2>4
<1>11. StillMapped(at) /\ SameKids  BY <1>1, <1>5, HeapStays
<1>12. FrameReads(heap', events', at, st[K + 1], op[L + 1], op[L].kind = "seq")
  <2>1. PICK f, item : f = st[K + 1] /\ item = (op[L].kind = "seq")  OBVIOUS
  <2>2. f.parent = root /\ c.path = <<>> /\ c.kind = "map" /\ c.keys = {}
    BY <1>8, <1>9, <1>10, <2>1 DEF Frame, Collection
  <2>3. item = FALSE  BY Zenon, <1>10, <2>1
  <2>4. KeysRead(heap, at, f, c, item)  BY <1>7, <2>2, <2>3 DEF KeysRead
  <2>5. FrameReads(heap, events', at, f, c, item)
    BY <1>1, <2>2, <2>4 DEF FrameReads, Mapped
  <2> QED  BY Zenon, <1>5, <1>10, <2>1, <2>5
<1>13. Pushes(at, K, L, at, n, FALSE, "map", <<>>)
  <2>1. K # 0 /\ L = K + 1 /\ (\A i \in 2..K : FALSE) /\ op[L].items # 0  BY <1>3, <1>6, <1>10
  <2>2. \A i \in 1..K : /\ st[i].parent = stack[i].parent /\ st[i].node = stack[i].node
                        /\ st[i].inseq = stack[i].inseq
    BY <1>10
  <2>3. FrameReads(heap', events', at, stack'[K + 1], open'[L + 1], open'[L].kind = "seq")
    BY <1>9, <1>12
  <2> QED  BY Zenon, <1>1, <1>2, <1>9, <1>10, <1>11, <2>1, <2>2, <2>3 DEF Pushes
<1> QED  BY Zenon, <1>13, PushGoesOn

-----------------------------------------------------------------------------
\* The document begins or ends within the outermost call.
LEMMA DocumentGoesOn ==
  ASSUME LoaderInv, events \in Nat, NEW at, Reads(at), DocumentStart \/ DocumentEnd,
         style = "plain", style' = "plain"
  PROVE  Reads(at)'
<1>1. /\ Delivers /\ heap' = heap /\ stack' = stack /\ meaning' = meaning
      /\ Here.kind \in {"stream", "doc"} /\ ~ AtKey
  BY DEF DocumentStart, DocumentEnd, AtKey, history
<1>2. /\ stack # <<>> /\ root' = root
      /\ LoadTree /\ FramesAlive /\ OpenInv /\ Reading(at)
  BY <1>1 DEF Delivers, LoaderInv, Reads
<1>3. PICK K \in Nat, L \in Nat : At(K, L)  BY <1>2, Where
<1>4. /\ K = 1 /\ K = Len(stack) /\ L = Len(open) /\ Here = open[L] /\ L \in {1, 2}
      /\ Here.kind = "doc" => L = 2
      /\ DocumentStart => L = 1
  BY <1>1, <1>3 DEF At, DocumentStart
<1>5. StillMapped(at)  BY <1>1, <1>2, HeapStays
<1>6. PICK op : op = open'  OBVIOUS
<1>7. /\ Len(op) \in {1, 2} /\ op[Len(op)].kind \in {"stream", "doc"}
      /\ op[Len(op)].items = 0 => Here.items = 0
      /\ Begun(op)
  <2>1. CASE DocumentStart
    <3>14. Here.items \in Nat /\ L = 1  BY <1>2, <1>4, <2>1 DEF Reading, Begun
    <3>15. ~ (Here.items > 0)  BY <2>1 DEF DocumentStart, Odd
    <3>1. Here.items = 0 /\ op = Append(NodeSeen, Collection("doc", <<>>)) /\ L = 1
      BY <1>6, <2>1, <3>14, <3>15 DEF DocumentStart
    <3>2. PICK seen, c : seen = NodeSeen /\ c = Collection("doc", <<>>)  OBVIOUS
    <3>3. /\ Marked(open, NodeSeen, L) /\ NodeSeen[L].items = Here.items + 1
      BY <1>1, <1>2, <1>3, SeenFacts
    <3>4. seen \in Seq(ToSet(seen)) /\ Len(seen) = 1 /\ seen[1].items = 1
      BY <3>1, <3>2, <3>3 DEF Marked
    <3>13. seen \in Seq(ToSet(seen))  BY <3>4
    <3>5. op = Append(seen, c)  BY <3>1, <3>2
    <3>6. /\ Len(op) = Len(seen) + 1 /\ op[Len(seen) + 1] = c
          /\ \A i \in 1..Len(seen) : op[i] = seen[i]
      BY ONLY <3>13, <3>5, AnyAppend
    <3>12. Len(seen) = 1  BY <3>4
    <3>11. 1 \in 1..Len(seen) /\ Len(seen) + 1 = 2  BY ONLY <3>12
    <3>7. Len(op) = 2 /\ op[2] = c /\ op[1].items = 1  BY ONLY <3>4, <3>6, <3>11
    <3>8. c.kind = "doc"  BY <3>2 DEF Collection
    <3>9. op[Len(op)].kind = "doc" /\ Len(op) \in {1, 2}  BY <3>7, <3>8
    <3>10. Begun(op)  BY ONLY <3>7 DEF Begun
    <3> QED  BY <3>1, <3>9, <3>10
  <2>2. CASE DocumentEnd
    <3>1. Here.kind = "doc" /\ op = Front(open) /\ L = 2
      BY <1>4, <1>6, <2>2 DEF DocumentEnd
    <3>2. open \in Seq(ToSet(open)) /\ Len(open) # 0  BY <1>2, OpenFacts
    <3>3. /\ Len(op) = Len(open) - 1
          /\ \A i \in 1..(Len(open) - 1) : op[i] = open[i]
      BY ONLY <3>1, <3>2, AnyFront
    <3>9. 1 \in 1..(Len(open) - 1) /\ Len(open) - 1 = 1  BY <1>4, <3>1
    <3>4. Len(op) = 1 /\ op[1] = open[1]  BY ONLY Zenon, <3>3, <3>9
    <3>5. open[1].items # 0 /\ open[1].items \in Nat
      BY <1>2, <1>4, <3>1 DEF Reading, Begun
    <3>6. open[1].kind = "stream"
      <4>1. PICK outer \in {1, 2} : FramesFollow(outer)  BY <1>2, OpenFacts
      <4> QED  BY <4>1 DEF FramesFollow
    <3>7. op[Len(op)].kind = "stream" /\ Len(op) \in {1, 2} /\ op[Len(op)].items # 0
      BY <3>4, <3>5, <3>6
    <3>8. Begun(op)  BY ONLY <3>4, <3>5 DEF Begun
    <3> QED  BY <3>7, <3>8
  <2> QED  BY <2>1, <2>2
<1>8. Top' = Top /\ Here' = op[Len(op)]  BY <1>1, <1>6 DEF Top, Here
<1>9. Reading(at)'
  <2>1. BottomReads(root, stack)  BY <1>2 DEF Reading
  <2>2. FramesRead(heap, events', at, stack, op)
    <3>1. Len(stack) = 1  BY <1>4
    <3>2. \A i \in 2..Len(stack) : FALSE  BY ONLY <3>1
    <3> QED  BY <3>2 DEF FramesRead
  <2>3. KeyPending(heap, at, stack, Top, op[Len(op)])  BY <1>7 DEF KeyPending
  <2>4. Untouched(heap, root, at, op[Len(op)])
    BY <1>1, <1>2, <1>7 DEF Reading, Untouched
  <2> QED  BY <1>1, <1>2, <1>6, <1>7, <1>8, <2>1, <2>2, <2>3, <2>4 DEF Reading
<1> QED  BY <1>5, <1>9 DEF Reads, StillMapped

\* A collection ends, and the one around it goes on.
LEMMA PopGoesOn ==
  ASSUME LoaderInv, events \in Nat, NEW at, Reads(at), SequenceEnd \/ MappingEnd
  PROVE  Reads(at)'
<1>1. /\ Delivers /\ heap' = heap /\ meaning' = meaning
      /\ Here.kind \in {"map", "seq"}
      /\ stack' = Returned(Front(stack)) /\ open' = Front(open)
  BY DEF SequenceEnd, MappingEnd, AtKey, history
<1>2. /\ stack # <<>> /\ root' = root /\ events' = events + 1
      /\ LoadTree /\ FramesAlive /\ OpenInv /\ Mapped(at) /\ Reading(at)
  BY <1>1 DEF Delivers, LoaderInv, Reads
<1>3. PICK L \in Nat, M \in Nat : At(L, M)  BY <1>2, Where
<1>4. /\ L >= 2 /\ M = L + 1 /\ L = Len(stack) /\ M = Len(open)
      /\ Top = stack[L] /\ Here = open[M]
  BY <1>1, <1>3 DEF At
<1>5. PICK K \in Nat : K = L - 1 /\ K >= 1 /\ L = K + 1  BY <1>4
<1>6. StillMapped(at) /\ SameKids  BY <1>1, <1>2, HeapStays
<1>7. PICK st, op, fr : st = stack' /\ op = open' /\ fr = Front(stack)  OBVIOUS
<1>8. Len(op) = L /\ \A i \in 1..L : op[i] = open[i]
  <2>1. open \in Seq(ToSet(open)) /\ Len(open) # 0  BY <1>2, OpenFacts
  <2>2. op = Front(open)  BY <1>1, <1>7
  <2>3. /\ Len(op) = Len(open) - 1
        /\ \A i \in 1..(Len(open) - 1) : op[i] = open[i]
    BY ONLY <2>1, <2>2, AnyFront
  <2>4. Len(open) - 1 = L  BY <1>4
  <2> QED  BY <2>3, <2>4
<1>9. /\ fr \in Seq(FrameType) /\ Len(fr) = K /\ \A i \in 1..K : fr[i] = stack[i]
  <2>1. stack \in Seq(FrameType)  BY <1>2 DEF FramesAlive
  <2> QED  BY <1>4, <1>5, <1>7, <2>1 DEF Front
<1>10. st = [fr EXCEPT ![K].state = CONF_KEY]  BY <1>1, <1>7, <1>9 DEF Returned
<1>11. /\ Len(st) = K /\ st[K].state = CONF_KEY
       /\ \A i \in 1..K : /\ st[i].parent = stack[i].parent /\ st[i].node = stack[i].node
                          /\ st[i].inseq = stack[i].inseq /\ st[i].seq_idx = stack[i].seq_idx
  <2>1. K \in 1..K /\ DOMAIN fr = 1..K /\ \A i \in 1..K : fr[i] \in FrameType
    BY <1>5, <1>9
  <2>2. PICK t \in FrameType : t = fr[K]  BY <2>1
  <2>3. PICK new : new = [t EXCEPT !.state = CONF_KEY]  BY Zenon
  <2>4. /\ new.parent = t.parent /\ new.node = t.node /\ new.inseq = t.inseq
        /\ new.seq_idx = t.seq_idx /\ new.state = CONF_KEY
    BY ONLY <2>3, t \in FrameType DEF FrameType
  <2>5. st[K] = new /\ \A i \in 1..K : i # K => st[i] = fr[i]
    BY <1>10, <2>1, <2>2, <2>3
  <2>6. Len(st) = K  BY <1>9, <1>10
  <2> QED  BY <1>9, <2>2, <2>4, <2>5, <2>6
<1>12. PICK e \in Nat : e = events + 1 /\ events <= e  OBVIOUS
<1>13. \A i \in 2..K : i \in 2..L /\ i \in 1..K /\ i \in 1..L /\ i + 1 \in 1..L /\ i # L
  BY <1>5
<1>14. \A i \in 2..K : FrameReads(heap', e, at, st[i], op[i + 1], op[i].kind = "seq")
  <2> TAKE i \in 2..K
  <2>1. PICK f, c, f2 : f = stack[i] /\ c = open[i + 1] /\ f2 = st[i]  OBVIOUS
  <2>2. PICK item \in BOOLEAN : item = (open[i].kind = "seq")  BY Zenon
  <2>3. FrameReads(heap, events, at, f, c, item)
    BY <1>2, <1>4, <1>13, <2>1, <2>2 DEF Reading, FramesRead
  <2>4. /\ f2.parent = f.parent /\ f2.node = f.node /\ f2.seq_idx = f.seq_idx
    BY <1>11, <1>13, <2>1
  <2>5. /\ heap'[f.parent].val = heap[f.parent].val
        /\ c.kind = "seq" =>
              f2.node = f.node /\ f2.seq_idx = f.seq_idx /\ c.items = c.items
    BY <1>1, <2>4
  <2>6. FrameReads(heap', e, at, f2, c, item)
    BY ONLY item \in BOOLEAN, e \in Nat, events \in Nat, <1>2, <1>6, <1>12, <2>3, <2>4,
       <2>5, FrameSame
  <2>7. op[i] = open[i] /\ op[i + 1] = open[i + 1]  BY Zenon, <1>8, <1>13
  <2> QED  BY <2>1, <2>2, <2>6, <2>7
<1>15. FramesRead(heap', e, at, st, op)
  <2>1. /\ \A i, j \in 2..L : stack[i].parent = stack[j].parent => i = j
        /\ \A i \in 2..L : i # L => open[i + 1].key = <<>>
    BY <1>2, <1>4 DEF Reading, FramesRead
  <2>2. \A i \in 2..K : op[i + 1].key = <<>>  BY <1>8, <1>13, <2>1
  <2>3. \A i, j \in 2..K : st[i].parent = st[j].parent => i = j
    BY <1>11, <1>13, <2>1
  <2> QED  BY <1>11, <1>14, <2>2, <2>3 DEF FramesRead
<1>16. BottomReads(root, st)
  <2>1. 1 \in 1..K  BY <1>5
  <2> QED  BY <1>2, <1>11, <2>1 DEF Reading, BottomReads
<1>17. open[1].items # 0 /\ open[1].items \in Nat /\ open[2].items # 0
  BY <1>2, <1>4 DEF Reading, Begun
<1>18. 1 \in 1..L /\ 2 \in 1..L /\ L \in 1..L  BY <1>4
<1>19. PICK outer \in {1, 2} : FramesFollow(outer)  BY <1>2, OpenFacts
<1>20. outer = 2
  <2>1. L + outer = M + 1  BY <1>4, <1>19 DEF FramesFollow
  <2> QED  BY <1>4, <2>1
<1>21. open[2].kind = "doc" /\ (L > 2 => open[L].kind \in {"map", "seq"})
  <2>1. L \in DOMAIN open  BY <1>3, <1>4 DEF At
  <2> QED  BY <1>19, <1>20, <2>1 DEF FramesFollow
<1>22. KeyPending(heap', at, st, st[K], op[L])
  <2>1. CASE L = 2
    <3>1. op[L].kind = "doc"  BY <1>8, <1>18, <1>21, <2>1
    <3> QED  BY <3>1 DEF KeyPending
  <2>2. CASE L # 2
    <3>1. K \in 2..L /\ K # L  BY <1>4, <1>5, <2>2
    <3>2. open[K + 1].key = <<>>  BY <1>2, <1>4, <3>1 DEF Reading, FramesRead
    <3>3. op[L].key = <<>>  BY <1>5, <1>8, <1>18, <3>2
    <3>4. st[K].state = CONF_KEY  BY <1>11
    <3> QED  BY <3>3, <3>4 DEF KeyPending, CONF_KEY, CONF_VAL
  <2> QED  BY <2>1, <2>2
<1>23. Untouched(heap', root, at, op[L])
  <2>1. CASE L = 2  BY <1>8, <1>17, <1>18, <2>1 DEF Untouched
  <2>2. CASE L # 2
    <3>1. op[L].kind \in {"map", "seq"}  BY <1>4, <1>8, <1>18, <1>21, <2>2
    <3> QED  BY <3>1 DEF Untouched
  <2> QED  BY <2>1, <2>2
<1>24. Begun(op)  BY <1>8, <1>17, <1>18 DEF Begun
<1>25. Top' = st[K] /\ Here' = op[L]  BY <1>7, <1>8, <1>11 DEF Top, Here
<1>26. Reading(at)'
  BY <1>2, <1>7, <1>12, <1>15, <1>16, <1>22, <1>23, <1>24, <1>25 DEF Reading
<1> QED  BY <1>6, <1>26 DEF Reads, StillMapped

-----------------------------------------------------------------------------
\* The root has no name, whatever a program has set.
Prepared == heap[root].name = NULL

ReadInv ==
    /\ events \in Nat
    /\ Preparing => DOMAIN meaning = {}
    /\ root # NULL /\ style = "plain" /\ leaked = {} =>
          IF Preparing THEN Prepared ELSE \E at : Reads(at)

\* The map when nothing has been read.
LEMMA NothingRead ==
  ASSUME LoadTree, ConfInv, \A m \in DOMAIN heap : ~ heap[m].is_seq,
         root # NULL, Prepared, DOMAIN meaning = {},
         NEW at, at = [p \in {<<>>} |-> root]
  PROVE  /\ Mapped(at) /\ Said(at) /\ heap[root].name \notin Unmangled
         /\ \A m \in ToSet(heap[root].kids) : Unread(heap, at, m)
<1>1. root \in DOMAIN heap /\ heap[root].parent = NULL /\ NULL \notin DOMAIN heap
  BY ConfTreeAssumption DEF LoadTree, NoDangling, ConfInv, TreeInv, RootsInv
<1>2. DOMAIN at = {<<>>} /\ at[<<>>] = root  OBVIOUS
<1>3. IsPath(<<>>)  BY DEF IsPath
<1>4. \A m \in DOMAIN heap : \A k \in ToSet(heap[m].kids) : heap[k].parent = m /\ k # root
  <2>1. \A m \in DOMAIN heap : \A k \in ToSet(heap[m].kids) : heap[k].parent = m
    BY DEF ConfInv, TreeInv, ParentsAgree
  <2> QED  BY <1>1, <2>1
<1>5. Waits(at)
  <2>1. \A m1, m2 \in DOMAIN heap :
            (\E m \in ToSet(heap[m1].kids) : m \in ToSet(heap[m2].kids)) => m1 = m2
    BY <1>4
  <2>2. \A m \in DOMAIN heap : ~ heap[m].is_seq  OBVIOUS
  <2>3. \A m2 \in DOMAIN heap : \A k \in ToSet(heap[m2].kids) : \A p \in DOMAIN at : at[p] # k
    BY <1>2, <1>4
  <2> QED  BY Zenon, <2>1, <2>2, <2>3 DEF Waits
<1>6. Mapped(at)  BY <1>1, <1>2, <1>3, <1>5 DEF Mapped
<1>7. heap[root].name \notin Unmangled  BY TextAssumption DEF Prepared
<1>8. Said(at)  BY DEF Said
<1>9. \A m \in ToSet(heap[root].kids) : Unread(heap, at, m)
  <2>1. ToSet(heap[root].kids) \subseteq DOMAIN heap  BY <1>1, KidsIn
  <2> QED  BY <1>1, <1>2, <1>4, <2>1 DEF Unread
<1> QED  BY <1>6, <1>7, <1>8, <1>9

LEMMA LoadFileReads ==
  ASSUME LoaderInv, ReadInv, style = "plain", leaked = {}, ConfYamlLoadFile PROVE \E at : Reads(at)'
<1>1. /\ stack = <<>> /\ result = NULL /\ root # NULL
      /\ stack' = <<Frame(root, FALSE)>> /\ open' = <<Collection("stream", <<>>)>>
      /\ heap' = heap /\ root' = root /\ meaning' = meaning
  BY DEF ConfYamlLoadFile, vars, history
<1>2. Preparing /\ Prepared /\ DOMAIN meaning = {} /\ LoadTree /\ ConfInv
      /\ \A m \in DOMAIN heap : ~ heap[m].is_seq
  BY <1>1 DEF Preparing, ReadInv, LoaderInv
<1>3. PICK at : at = [p \in {<<>>} |-> root]  BY Zenon
<1>4. /\ Mapped(at) /\ Said(at) /\ heap[root].name \notin Unmangled
      /\ \A m \in ToSet(heap[root].kids) : Unread(heap, at, m)
  BY <1>1, <1>2, <1>3, NothingRead
<1>5. root \in DOMAIN heap  BY <1>1, <1>2 DEF LoadTree, NoDangling
<1>6. PICK f, c : f = Frame(root, FALSE) /\ c = Collection("stream", <<>>)  BY Zenon
<1>7. /\ f.parent = root /\ f.node = root /\ ~ f.inseq /\ c.kind = "stream"
  BY <1>6 DEF Frame, Collection
<1>8. PICK st, op : st = stack' /\ op = open'  OBVIOUS
<1>9. Len(st) = 1 /\ st[1] = f /\ Len(op) = 1 /\ op[1] = c  BY <1>1, <1>6, <1>8
<1>10. BottomReads(root, st)  BY <1>7, <1>9 DEF BottomReads
<1>11. FramesRead(heap, events', at, st, op)
  <2>1. Len(st) = 1  BY <1>9
  <2>2. \A i \in 2..Len(st) : FALSE  BY ONLY <2>1
  <2> QED  BY <2>2 DEF FramesRead
<1>12. KeyPending(heap, at, st, f, c)  BY <1>7 DEF KeyPending
<1>13. Untouched(heap, root, at, c)  BY <1>2, <1>4, <1>5 DEF Untouched
<1>14. Begun(op)
  <2>1. Len(op) = 1  BY <1>9
  <2>2. ~ (Len(op) >= 2) /\ ~ (Len(op) >= 3)  BY ONLY <2>1
  <2>3. op[1].items = 0  BY <1>6, <1>9 DEF Collection
  <2> QED  BY <2>2, <2>3 DEF Begun
<1>15. Top' = f /\ Here' = c  BY <1>8, <1>9 DEF Top, Here
<1>16. Reading(at)'  BY <1>1, <1>8, <1>10, <1>11, <1>12, <1>13, <1>14, <1>15 DEF Reading
<1>17. Mapped(at)' /\ Said(at)'
  <2>1. SameKids /\ \A m \in DOMAIN heap : SameNode(m) /\ heap'[m].val = heap[m].val
    BY <1>1 DEF SameKids, SameNode
  <2>2. Mapped(at)'  BY <1>1, <1>2, <1>4, <2>1, MappedStays
  <2>3. \A p \in DOMAIN at : p \in DOMAIN at /\ at[p] = at[p]  OBVIOUS
  <2>4. Said(at)'  BY ONLY <1>1, <1>4, <2>1, <2>3, SaidStays
  <2> QED  BY <2>2, <2>4
<1> QED  BY <1>1, <1>4, <1>16, <1>17 DEF Reads

\* The loader has returned.
LEMMA ReturnedReads ==
  ASSUME NEW at, Reads(at), LoadTree, heap' = heap, root' = root, meaning' = meaning,
         stack' = <<>>
  PROVE  Reads(at)'
BY HeapStays DEF Reads, StillMapped

LEMMA LoadFailsReads ==
  ASSUME LoaderInv, ReadInv, style = "plain", leaked = {}, LoadFails PROVE \E at : Reads(at)'
<1>1. /\ stack = <<>> /\ result = NULL /\ root # NULL /\ stack' = <<>>
      /\ heap' = heap /\ root' = root /\ meaning' = meaning
  BY DEF LoadFails, vars, history
<1>2. Prepared /\ DOMAIN meaning = {} /\ LoadTree /\ ConfInv
      /\ \A m \in DOMAIN heap : ~ heap[m].is_seq
  BY <1>1 DEF Preparing, ReadInv, LoaderInv
<1>3. PICK at : at = [p \in {<<>>} |-> root]  BY Zenon
<1>4. Mapped(at) /\ Said(at) /\ heap[root].name \notin Unmangled
  BY <1>1, <1>2, <1>3, NothingRead
<1>5. Reads(at)  BY <1>1, <1>4 DEF Reads
<1> QED  BY <1>1, <1>2, <1>5, ReturnedReads

LEMMA PrepareReads ==
  ASSUME LoaderInv, ReadInv, style = "plain", leaked = {}, Prepare
  PROVE  root' # NULL => Prepared'
<1>1. stack = <<>> /\ result = NULL  BY DEF Prepare
<1>2. root # NULL => Prepared  BY <1>1 DEF Preparing, ReadInv
<1>3. TreeInv /\ ConfInv  BY <1>1 DEF Preparing, LoaderInv, ConfInv
<1>4. CASE ConfInit
  <2>1. PICK n \in Nodes \ DOMAIN heap : root' = n /\ heap'[n] = NewNode(NULL, NULL)
    BY <1>4 DEF ConfInit
  <2> QED  BY <2>1 DEF NewNode, Prepared
<1>5. ASSUME NEW p \in Paths, NEW v \in Values, NEW a \in BOOLEAN, ConfSet(p, v, a)
      PROVE  Prepared'
  <2>1. root # NULL /\ root' = root /\ Prepared
    BY <1>2, <1>5 DEF ConfSet, SetExisting, SetNew
  <2>2. root \in DOMAIN heap  BY <1>3, <2>1 DEF TreeInv, NoDangling
  <2>3. heap[root] \in NodeType  BY <1>3, <2>2, KidsFacts
  <2>4. CASE SetExisting(p, v, a)
    <3>1. PICK node : \/ heap' = heap
                      \/ heap' = [heap EXCEPT ![node].val = v, ![node].allow_override = a]
      BY <2>4 DEF SetExisting
    <3>2. heap'[root].name = heap[root].name
      <4>1. CASE heap' = heap  BY <4>1
      <4>2. CASE heap' = [heap EXCEPT ![node].val = v, ![node].allow_override = a]
        <5>1. \A m \in DOMAIN heap : m # node => heap'[m] = heap[m]  BY <4>2
        <5>2. ASSUME node = root
              PROVE  heap'[root] = [heap[root] EXCEPT !.val = v, !.allow_override = a]
          <6>1. heap' = [heap EXCEPT ![root].val = v, ![root].allow_override = a]
            BY <4>2, <5>2
          <6> QED  BY <2>2, <6>1
        <5> QED  BY <2>2, <2>3, <5>1, <5>2 DEF NodeType
      <4> QED  BY <3>1, <4>1, <4>2
    <3> QED  BY <2>1, <3>2 DEF Prepared
  <2>5. CASE SetNew(p, v, a)
    <3>1. PICK k, base : k = Known(p) /\ base = ConfGetNode(SubSeq(p, 1, k))  OBVIOUS
    <3>2. /\ ConfGetNode(p) = NULL
          /\ \E new \in FreshChains(Len(p) - k) : heap' = Chained(p, k, base, new, v, a)
      BY <2>5, <3>1 DEF SetNew
    <3>3. k \in 0..(Len(p) - 1) /\ base \in DOMAIN heap /\ Len(p) \in Nat
      BY <1>3, <2>1, <3>1, <3>2, KnownFacts
    <3>4. PICK N \in Nat : N = Len(p) - k  BY <3>3
    <3>5. PICK new \in FreshChains(N) : heap' = Chained(p, k, base, new, v, a)
      BY <3>2, <3>4
    <3>6. new \in [1..N -> Nodes \ DOMAIN heap] /\ IsInjective(new)
      BY <3>5 DEF FreshChains
    <3>7. ChainMade(p, k, base, N, new, v, a)
      BY <1>3, <3>3, <3>4, <3>5, <3>6, ChainFacts
    <3> QED  BY <2>1, <2>2, <3>7 DEF ChainMade, Prepared
  <2> QED  BY <1>5, <2>4, <2>5 DEF ConfSet
<1> QED  BY <1>4, <1>5 DEF Prepare

\* An event leaves the file understood, unless the file is no plain one.
LEMMA EventReads ==
  ASSUME LoaderInv, events \in Nat, NEW at, Reads(at), style = "plain", style' = "plain",
         ConfYamlParse, ~ NoName
  PROVE  \E at2 : Reads(at2)'
<1>1. LoadTree  BY DEF LoaderInv
<1>2. CASE \E s \in Scalars : KeyScalar(s) \/ NodeScalar(s)
  <2>1. PICK s \in Scalars : KeyScalar(s) \/ NodeScalar(s)  BY <1>2
  <2>2. CASE KeyScalar(s)  BY <2>2, KeyUnderstood
  <2>3. CASE NodeScalar(s)
    <3>1. Here.kind # "doc"  BY <2>3 DEF NodeScalar, Odd
    <3>2. Here.kind \in {"map", "seq"}  BY <2>3, <3>1 DEF NodeScalar, AtValue
    <3> QED  BY <2>3, <3>2, ValueUnderstood, ItemUnderstood
  <2> QED  BY <2>1, <2>2, <2>3
<1>3. CASE Alias  BY <1>3 DEF Alias, Odd
<1>4. CASE SequenceStart
  <2>1. /\ Delivers /\ AtValue /\ Here.kind = "map" /\ heap' = heap /\ meaning' = meaning
        /\ heap[Top.node].kids = <<>>
        /\ stack' = Append(stack, Frame(Top.node, TRUE))
        /\ open' = Append(NodeSeen, Collection("seq", PathHere))
    BY <1>4 DEF SequenceStart, AtNode, Odd
  <2>2. PICK b \in BOOLEAN, kind \in {"map", "seq"} : b = TRUE /\ kind = "seq"  BY Zenon
  <2> QED  BY Zenon, <2>1, <2>2, ValueStarts
<1>5. CASE MappingStart
  <2>1. Here.kind \in {"map", "seq", "doc"}
    BY <1>5 DEF MappingStart, AtNode, AtKey, AtValue
  <2>2. CASE Here.kind = "map"
    <3>1. /\ Delivers /\ AtValue /\ meaning' = meaning
          /\ open' = Append(NodeSeen, Collection("map", PathHere))
      BY <1>5 DEF MappingStart, AtNode, Odd
    <3>6. MappingItem \/ MappingValue  BY <1>5 DEF MappingStart
    <3>2. ~ Top.inseq
      <4>3. FramesAlive /\ OpenInv  BY DEF LoaderInv
      <4>1. stack # <<>>  BY <3>1 DEF Delivers
      <4>2. PICK K \in Nat, L \in Nat : At(K, L)  BY <4>1, <4>3, Where
      <4> QED  BY Zenon, <2>2, <4>2 DEF At
    <3>3. heap' = heap /\ stack' = Append(stack, Frame(Top.node, FALSE))
      BY Zenon, <3>2, <3>6 DEF MappingItem, MappingValue
    <3>4. PICK b \in BOOLEAN, kind \in {"map", "seq"} : b = FALSE /\ kind = "map" /\ kind # "seq"
      BY Zenon
    <3>5. /\ stack' = Append(stack, Frame(Top.node, b))
          /\ open' = Append(NodeSeen, Collection(kind, PathHere))
      BY Zenon, <3>1, <3>3, <3>4
    <3> QED
      BY ONLY Zenon, LoaderInv, events \in Nat, Reads(at), b \in BOOLEAN, kind \in {"map", "seq"},
         <2>2, <3>1, <3>3, <3>4, <3>5, ValueStarts
  <2> QED  BY <1>5, <2>1, <2>2, MappingItemUnderstood, DocumentStarts
<1>6. CASE SequenceEnd \/ MappingEnd  BY <1>6, PopGoesOn
<1>7. CASE DocumentStart \/ DocumentEnd  BY <1>7, DocumentGoesOn
<1>8. CASE Fails \/ StreamEnd
  <2>1. heap' = heap /\ root' = root /\ meaning' = meaning
    BY <1>8 DEF Fails, StreamEnd, vars, history
  <2>2. stack' = <<>>
    <3>1. CASE Fails  BY <3>1 DEF Fails
    <3>2. CASE StreamEnd
      <4>1. /\ stack # <<>> /\ FramesAlive /\ OpenInv /\ Here.kind = "stream"
            /\ stack' = Front(stack)
        BY <3>2 DEF StreamEnd, LoaderInv
      <4>2. PICK K \in Nat, L \in Nat : At(K, L)  BY <4>1, Where
      <4>3. K = 1 /\ K = Len(stack)  BY <4>1, <4>2 DEF At
      <4>4. stack \in Seq(FrameType)  BY <4>1 DEF FramesAlive
      <4>5. SubSeq(stack, 1, 0) = <<>>  BY <4>4
      <4>6. Len(stack) - 1 = 0  BY <4>3
      <4> QED  BY Zenon, <4>1, <4>5, <4>6 DEF Front
    <3> QED  BY <1>8, <3>1, <3>2
  <2> QED  BY <1>1, <2>1, <2>2, ReturnedReads
<1> QED
  BY <1>2, <1>3, <1>4, <1>5, <1>6, <1>7, <1>8
     DEF ConfYamlParse, DocumentOfWrongVersion, ParseError

\* A file that is not plain does not become so again.
LEMMA PlainBefore ==
  ASSUME [LoaderNext]_allvars, style' = "plain" PROVE style = "plain"
<1>1. ASSUME NEW s, KeyScalar(s) PROVE style = "plain"  BY <1>1 DEF KeyScalar
<1>2. ASSUME NEW s, NodeScalar(s) PROVE style = "plain"  BY <1>2 DEF NodeScalar, Odd
<1>3. ASSUME Alias \/ SequenceStart \/ MappingStart \/ DocumentStart PROVE style = "plain"
  BY <1>3 DEF Alias, SequenceStart, MappingStart, DocumentStart, Odd
<1>4. ASSUME \/ DocumentEnd \/ SequenceEnd \/ MappingEnd \/ NoName \/ StreamEnd \/ Fails
      PROVE  style = "plain"
  BY <1>4 DEF DocumentEnd, SequenceEnd, MappingEnd, NoName, StreamEnd, Fails, history
<1>5. CASE ConfYamlParse
  BY <1>1, <1>2, <1>3, <1>4, <1>5 DEF ConfYamlParse, DocumentOfWrongVersion, ParseError
<1>6. CASE Prepare \/ ConfYamlLoadFile \/ LoadFails \/ TearDown
  BY Zenon, <1>6 DEF Prepare, ConfYamlLoadFile, LoadFails, TearDown, history
<1>7. CASE UNCHANGED allvars  BY <1>7 DEF allvars
<1> QED  BY <1>5, <1>6, <1>7 DEF LoaderNext

LEMMA EventsCount == events \in Nat /\ [LoaderNext]_allvars => events' \in Nat
<1> SUFFICES ASSUME events \in Nat, [LoaderNext]_allvars PROVE events' \in Nat  OBVIOUS
<1>1. Delivers => events' \in Nat  BY DEF Delivers
<1>2. \/ Delivers \/ events' = events
  <2>1. ASSUME NEW s, KeyScalar(s) \/ NodeScalar(s) PROVE Delivers
    BY <2>1 DEF KeyScalar, NodeScalar
  <2>2. CASE ConfYamlParse
    BY Zenon, <2>1, <2>2 DEF ConfYamlParse, DocumentStart, DocumentOfWrongVersion, DocumentEnd,
       Alias, SequenceStart, SequenceEnd, MappingStart, MappingEnd, NoName, StreamEnd,
       ParseError, Fails, libyaml
  <2>3. CASE Prepare \/ ConfYamlLoadFile \/ LoadFails \/ TearDown
    BY Zenon, <2>3 DEF Prepare, ConfYamlLoadFile, LoadFails, TearDown, libyaml
  <2>4. CASE UNCHANGED allvars  BY <2>4 DEF allvars
  <2> QED  BY <2>2, <2>3, <2>4 DEF LoaderNext
<1> QED  BY <1>1, <1>2

\* An event never ends the outermost call.
LEMMA CallStays ==
  ASSUME LoaderInv, stack # <<>>,
         \/ DocumentStart \/ DocumentEnd \/ Alias
         \/ \E s \in Scalars : KeyScalar(s) \/ NodeScalar(s)
         \/ SequenceStart \/ MappingStart \/ SequenceEnd \/ MappingEnd
  PROVE  stack' # <<>>
<1>1. FramesAlive /\ OpenInv  BY DEF LoaderInv
<1>2. PICK K \in Nat, L \in Nat : At(K, L)  BY <1>1, Where
<1>3. K = Len(stack) /\ K >= 1 /\ DOMAIN stack = 1..K /\ stack \in Seq(FrameType)
  BY <1>1, <1>2 DEF At, FramesAlive
<1>4. PICK st : st = stack'  OBVIOUS
<1>5. ASSUME NEW f, Advance(f) PROVE st # <<>>
  <2>1. DOMAIN st = DOMAIN stack  BY <1>4, <1>5 DEF Advance
  <2>2. 1 \in DOMAIN st  BY <1>3, <2>1
  <2> QED  BY <2>2
<1>6. ASSUME NEW old \in Seq(FrameType), NEW f, st = Append(old, f)
      PROVE  st # <<>>
  <2>1. st # <<>>  BY <1>6
  <2> QED  BY <2>1
<1>7. CASE DocumentStart \/ DocumentEnd \/ Alias
  BY Zenon, <1>3, <1>7 DEF DocumentStart, DocumentEnd, Alias
<1>8. CASE \E s \in Scalars : KeyScalar(s) \/ NodeScalar(s)
  <2>1. PICK s : Scalar(s)  BY SMTT(60), <1>8 DEF KeyScalar, NodeScalar
  <2>2. \E f : Advance(f)  BY Zenon, <2>1 DEF Scalar, ScalarItem, ScalarKey, ScalarValue
  <2> QED  BY <1>4, <1>5, <2>2
<1>9. CASE SequenceStart \/ MappingStart
  <2>1. PICK n, b : \/ st = Append(stack, Frame(n, b))
                     \/ st = Append([stack EXCEPT ![Len(stack)].seq_idx = @ + 1], Frame(n, b))
    BY Zenon, <1>4, <1>9 DEF SequenceStart, MappingStart, MappingItem, MappingValue
  <2>2. PICK f : f = Frame(n, b)  OBVIOUS
  <2>3. CASE st = Append(stack, f)  BY <1>3, <1>4, <1>6, <2>3
  <2>4. CASE st = Append([stack EXCEPT ![Len(stack)].seq_idx = @ + 1], f)
    <3>1. PICK old : old = [stack EXCEPT ![Len(stack)].seq_idx = @ + 1]  BY Zenon
    <3>2. PICK t : t = [stack[K] EXCEPT !.seq_idx = @ + 1]  BY Zenon
    <3>3. old = [stack EXCEPT ![K] = t]  BY <1>3, <3>1, <3>2
    <3>4. t \in FrameType
      <4>1. PICK u \in FrameType : u = stack[K]  BY <1>3
      <4> QED  BY ONLY u \in FrameType, <3>2, <4>1 DEF FrameType
    <3>5. old \in Seq(FrameType)  BY ONLY <1>3, <3>3, <3>4
    <3> QED  BY <1>4, <1>6, <2>4, <3>1, <3>5
  <2> QED  BY <2>1, <2>2, <2>3, <2>4
<1>10. CASE SequenceEnd \/ MappingEnd
  <2>1. st = Returned(Front(stack)) /\ Here.kind \in {"map", "seq"}
    BY <1>4, <1>10 DEF SequenceEnd, MappingEnd, AtKey
  <2>2. K >= 2  BY <1>2, <2>1 DEF At
  <2>3. PICK fr : fr = Front(stack)  OBVIOUS
  <2>4. Len(fr) = K - 1 /\ fr \in Seq(FrameType)  BY <1>3, <2>2, <2>3 DEF Front
  <2>5. 1 \in DOMAIN fr  BY <2>2, <2>4
  <2>6. DOMAIN st = DOMAIN fr  BY <2>1, <2>3 DEF Returned
  <2>7. 1 \in DOMAIN st  BY <2>5, <2>6
  <2> QED  BY <1>4, <2>7
<1> QED  BY <1>7, <1>8, <1>9, <1>10

\* The loader is called once.
LEMMA NotPreparingAgain ==
  ASSUME LoaderInv, [LoaderNext]_allvars, ~ Preparing PROVE ~ Preparing'
<1>1. CASE stack = <<>>
  <2>1. result # NULL  BY <1>1 DEF Preparing
  <2>2. result' = result
    <3>1. ~ ConfYamlParse /\ ~ Prepare /\ ~ ConfYamlLoadFile /\ ~ LoadFails
      BY Zenon, <1>1, <2>1 DEF ConfYamlParse, DocumentStart, DocumentOfWrongVersion, DocumentEnd,
         KeyScalar, NodeScalar, Alias, SequenceStart, SequenceEnd, MappingStart, MappingEnd,
         NoName, StreamEnd, ParseError, Fails, Delivers, Prepare, ConfYamlLoadFile, LoadFails
    <3>2. CASE TearDown  BY <3>2 DEF TearDown
    <3>3. CASE UNCHANGED allvars  BY <3>3 DEF allvars
    <3> QED  BY <3>1, <3>2, <3>3 DEF LoaderNext
  <2> QED  BY <2>1, <2>2 DEF Preparing
<1>2. CASE stack # <<>>
  <2>1. ~ Prepare /\ ~ ConfYamlLoadFile /\ ~ LoadFails /\ ~ TearDown
    BY Zenon, <1>2 DEF Prepare, ConfYamlLoadFile, LoadFails, TearDown, LoaderInv
  <2>2. CASE UNCHANGED allvars  BY <1>2, <2>2 DEF allvars, Preparing
  <2>3. CASE Fails \/ StreamEnd \/ NoName
    BY <2>3, LoaderAssumption DEF Fails, StreamEnd, NoName, Preparing
  <2>4. CASE ConfYamlParse /\ ~ Fails /\ ~ StreamEnd /\ ~ NoName
    <3>1. stack' # <<>>  BY <1>2, <2>4, CallStays DEF ConfYamlParse, DocumentOfWrongVersion, ParseError
    <3> QED  BY <3>1 DEF Preparing
  <2> QED  BY <2>1, <2>2, <2>3, <2>4 DEF LoaderNext
<1> QED  BY <1>1, <1>2

LEMMA ReadStart == LoaderInit => ReadInv
BY DEF LoaderInit, Init, ReadInv

LEMMA ReadsOn == LoaderInv /\ ReadInv /\ [LoaderNext]_allvars => ReadInv'
<1> SUFFICES ASSUME LoaderInv, ReadInv, [LoaderNext]_allvars PROVE ReadInv'  OBVIOUS
<1>1. events \in Nat /\ events' \in Nat  BY EventsCount DEF ReadInv
<1>2. Preparing' => DOMAIN meaning' = {}
  <2>1. CASE Preparing
    <3>1. DOMAIN meaning = {} /\ stack = <<>>  BY <2>1 DEF ReadInv, Preparing
    <3>2. ~ ConfYamlParse
      BY <3>1 DEF ConfYamlParse, DocumentStart, DocumentOfWrongVersion, DocumentEnd,
         KeyScalar, NodeScalar, Alias, SequenceStart, SequenceEnd, MappingStart, MappingEnd,
         NoName, StreamEnd, ParseError, Fails, Delivers
    <3>3. meaning' = meaning
      <4>1. CASE Prepare \/ ConfYamlLoadFile \/ LoadFails \/ TearDown
        BY Zenon, <4>1 DEF Prepare, ConfYamlLoadFile, LoadFails, TearDown, history
      <4>2. CASE UNCHANGED allvars  BY <4>2 DEF allvars
      <4> QED  BY <3>2, <4>1, <4>2 DEF LoaderNext
    <3> QED  BY <3>1, <3>3
  <2>2. CASE ~ Preparing
    <3>1. ~ Preparing'  BY <2>2, NotPreparingAgain
    <3> QED  BY <3>1
  <2> QED  BY <2>1, <2>2
<1>3. ASSUME root' # NULL, style' = "plain", leaked' = {}
      PROVE  IF Preparing' THEN Prepared' ELSE \E at : Reads(at)'
  <2>8. ~ NoName  BY <1>3 DEF NoName
  <2>1. style = "plain" /\ leaked = {}  BY <1>3, <2>8, PlainBefore, LeakedStays
  <2>2. CASE Prepare
    <3>1. Preparing'  BY <2>2 DEF Prepare, Preparing
    <3> QED  BY <1>3, <2>1, <2>2, <3>1, PrepareReads
  <2>3. CASE ConfYamlLoadFile
    <3>1. ~ Preparing'
      <4>1. stack' = <<Frame(root, FALSE)>>  BY <2>3 DEF ConfYamlLoadFile
      <4>2. PICK st, f : st = stack' /\ f = Frame(root, FALSE)  BY Zenon
      <4>3. st = <<f>>  BY <4>1, <4>2
      <4>4. st # <<>>  BY ONLY <4>3
      <4> QED  BY <4>2, <4>4 DEF Preparing
    <3> QED  BY <2>1, <2>3, <3>1, LoadFileReads
  <2>4. CASE LoadFails
    <3>1. ~ Preparing'  BY <2>4, LoaderAssumption DEF LoadFails, Preparing
    <3> QED  BY <2>1, <2>4, <3>1, LoadFailsReads
  <2>5. CASE ConfYamlParse
    <3>1. stack # <<>> /\ root' = root
      BY Zenon, <2>5 DEF ConfYamlParse, DocumentStart, DocumentOfWrongVersion, DocumentEnd,
         KeyScalar, NodeScalar, Alias, SequenceStart, SequenceEnd, MappingStart, MappingEnd,
         NoName, StreamEnd, ParseError, Fails, Delivers, vars
    <3>2. ~ Preparing  BY <3>1 DEF Preparing
    <3>3. PICK at : Reads(at)  BY <1>3, <2>1, <3>1, <3>2 DEF ReadInv
    <3>4. \E at2 : Reads(at2)'  BY <1>1, <1>3, <2>1, <2>5, <2>8, <3>3, EventReads
    <3>5. ~ Preparing'  BY <3>2, NotPreparingAgain
    <3> QED  BY <3>4, <3>5
  <2>6. CASE TearDown  BY <1>3, <2>6 DEF TearDown, ConfDeInit
  <2>7. CASE UNCHANGED allvars
    <3>1. /\ root' = root /\ heap' = heap /\ stack' = stack /\ result' = result
          /\ open' = open /\ events' = events /\ meaning' = meaning
      BY <2>7 DEF allvars
    <3>2. Preparing' = Preparing  BY <3>1 DEF Preparing
    <3>3. IF Preparing THEN Prepared ELSE \E at : Reads(at)
      BY <1>3, <2>1, <3>1 DEF ReadInv
    <3>4. CASE Preparing
      <4>1. Prepared  BY <3>3, <3>4
      <4>2. Prepared'  BY <3>1, <4>1 DEF Prepared
      <4> QED  BY <3>2, <3>4, <4>2
    <3>5. CASE ~ Preparing
      <4>1. PICK at : Reads(at)  BY <3>3, <3>5
      <4>2. Reads(at)'
        <5>1. LoadTree  BY DEF LoaderInv
        <5>2. StillMapped(at)  BY <3>1, <4>1, <5>1, HeapStays
        <5>3. Top' = Top /\ Here' = Here  BY <3>1 DEF Top, Here
        <5>4. stack' # <<>> => Reading(at)'  BY <3>1, <4>1, <5>3 DEF Reads, Reading
        <5> QED  BY <5>2, <5>4 DEF Reads, StillMapped
      <4> QED  BY <3>2, <3>5, <4>2
    <3> QED  BY <3>4, <3>5
  <2> QED  BY <2>2, <2>3, <2>4, <2>5, <2>6, <2>7 DEF LoaderNext
<1> QED  BY <1>1, <1>2, <1>3 DEF ReadInv

LEMMA ReadStep == LoadInv /\ ReadInv /\ [LoaderNext]_allvars => ReadInv'
<1> SUFFICES ASSUME LoadInv, ReadInv, [LoaderNext]_allvars PROVE ReadInv'  OBVIOUS
<1>1. CASE LoaderInv  BY <1>1, ReadsOn
<1>2. CASE LeakInv
  <2>1. LeakInv' /\ leaked' = leaked  BY <1>2, LeakStays
  <2>2. leaked' # {}  BY <1>2, <2>1 DEF LeakInv
  <2>3. ~ Preparing'  BY <2>1, LoaderAssumption DEF LeakInv, Preparing
  <2>4. events' \in Nat  BY EventsCount DEF ReadInv
  <2> QED  BY <2>2, <2>3, <2>4 DEF ReadInv
<1> QED  BY <1>1, <1>2 DEF LoadInv

\* What a plain file (see FileUnderstood) says of a path is what a lookup finds
\* once it is loaded, in sequences and in mappings however nested, over whatever
\* parameters of any paths the program had set, unless it had set that one for
\* good.
THEOREM PlainFileUnderstood == LoaderSpec => []FileUnderstood
<1>1. LoadInv /\ ReadInv => FileUnderstood
  <2> SUFFICES ASSUME LoadInv, ReadInv, result = 0, style = "plain", root # NULL
               PROVE  Understood
    BY DEF FileUnderstood
  <2>5. LoaderInv /\ leaked = {}  BY DEF LoadInv, LeakInv
  <2>1. ~ Preparing  BY LoaderAssumption DEF Preparing
  <2>2. PICK at : Reads(at)  BY <2>1, <2>5 DEF ReadInv
  <2>3. Mapped(at) /\ Said(at) /\ DOMAIN heap \subseteq Nodes
    BY <2>2, <2>5 DEF Reads, LoaderInv, LoadTree
  <2>4. \A p \in DOMAIN at : ConfGetNode(p) = at[p] /\ at[p] # NULL
    BY <2>3, MapFinds, ConfTreeAssumption DEF Mapped
  <2> QED  BY <2>3, <2>4 DEF Understood, Said
<1>2. LoadInv /\ ReadInv /\ [LoaderNext]_allvars => ReadInv' /\ LoadInv'
  BY ReadStep, LoadStep
<1>3. LoaderInit => LoadInv  BY LoaderStart DEF LoaderInit, LoadInv
<1> QED  BY <1>1, <1>2, <1>3, ReadStart, PTL DEF LoaderSpec
=============================================================================
