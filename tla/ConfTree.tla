------------------------------ MODULE ConfTree ------------------------------
(***************************************************************************)
(* The tree of config/conf.c, as it lies in the heap: every node knows its *)
(* children, in order, and may know its parent.  A freed node is not in    *)
(* the domain of heap any more.                                            *)
(***************************************************************************)
EXTENDS Naturals, FiniteSets, SequencesExt

CONSTANTS Nodes,      \* heap blocks
          Paths,      \* the dotted names of parameters, as token sequences
          Values,
          NULL

Names == UNION {ToSet(p) : p \in Paths}

ASSUME ConfTreeAssumption ==
    /\ Paths \subseteq Seq(Names) \ {<<>>}
    /\ \A p \in Paths : \A i \in 1..Len(p) : SubSeq(p, 1, i) \in Paths
    /\ NULL \notin Nodes \cup Values

\* NULL is not a set of parameters either, see AsDb.
ASSUME NullAssumption ==
    \A S \in SUBSET Paths :
        NULL \notin [S -> [val : Values \cup {NULL}, allow_override : BOOLEAN]]

VARIABLES root, root_backup, heap,
          last        \* history: the last call and its answer

vars == <<root, root_backup, heap, last>>

\* ConfNodeNew, and the fields that its callers set.
NewNode(name, parent) ==
    [name |-> name, val |-> NULL, allow_override |-> TRUE, is_seq |-> FALSE,
     parent |-> parent, kids |-> <<>>]

-----------------------------------------------------------------------------
(* Looking up *)

\* The first child of that name.
ConfNodeLookupChild(node, name) ==
    LET kids == heap[node].kids
        hits == {i \in DOMAIN kids : heap[kids[i]].name = name}
    IN  IF hits = {} THEN NULL
        ELSE kids[CHOOSE i \in hits : \A j \in hits : i <= j]

\* What a walk along the path finds in a tree.
Find(tree, path) ==
    LET node[i \in 0..Len(path)] ==
            IF i = 0 THEN tree
            ELSE IF node[i - 1] = NULL THEN NULL
            ELSE ConfNodeLookupChild(node[i - 1], path[i])
    IN  node[Len(path)]

ConfGetNode(path) == Find(root, path)

\* How many tokens of a path that is not set are found.
Known(path) ==
    CHOOSE k \in 0..Len(path) - 1 :
        /\ ConfGetNode(SubSeq(path, 1, k)) # NULL
        /\ ConfGetNode(SubSeq(path, 1, k + 1)) = NULL

\* A node and all that hangs below it, which is what ConfNodeFree frees.
Subtree(node) ==
    {n \in DOMAIN heap :
        \A S \in SUBSET DOMAIN heap :
            (node \in S /\ \A m \in S : ToSet(heap[m].kids) \subseteq S)
            => n \in S}

-----------------------------------------------------------------------------
(* The calls *)

Init ==
    /\ root = NULL
    /\ root_backup = NULL
    /\ heap = [n \in {} |-> NewNode(NULL, NULL)]
    /\ last = NULL

ConfInit ==
    /\ root = NULL
    /\ \E n \in Nodes \ DOMAIN heap :
          /\ root' = n
          /\ heap' = [m \in DOMAIN heap \cup {n} |->
                        IF m = n THEN NewNode(NULL, NULL) ELSE heap[m]]
    /\ last' = <<"init">>
    /\ UNCHANGED root_backup

ConfGet(path) ==
    /\ root # NULL
    /\ LET node == ConfGetNode(path)
       IN  last' = IF node = NULL THEN <<"get", path, 0, NULL>>
                   ELSE <<"get", path, 1, heap[node].val>>
    /\ UNCHANGED <<root, root_backup, heap>>

\* Mutant: a value is overridden whether it allows that or not.
SetAlways(path, v, allow) ==
    /\ root # NULL
    /\ LET node == ConfGetNode(path)
       IN  /\ node # NULL
           /\ heap' = [heap EXCEPT ![node].val = v,
                                   ![node].allow_override = allow]
    /\ last' = <<"set", path, v, allow, 1>>
    /\ UNCHANGED <<root, root_backup>>

\* The node exists.
SetExisting(path, v, allow) ==
    /\ root # NULL
    /\ LET node == ConfGetNode(path)
       IN  /\ node # NULL
           /\ IF heap[node].allow_override
              THEN /\ heap' = [heap EXCEPT ![node].val = v,
                                           ![node].allow_override = allow]
                   /\ last' = <<"set", path, v, allow, 1>>
              ELSE /\ last' = <<"set", path, v, allow, 0>>
                   /\ UNCHANGED heap
    /\ UNCHANGED <<root, root_backup>>

\* The i-th node of a chain below base, for the tokens after the first known
\* ones; the last node gets the value.
Link(path, known, base, new, v, allow, i) ==
    [NewNode(path[known + i], IF i = 1 THEN base ELSE new[i - 1])
       EXCEPT !.val = IF i = Len(new) THEN v ELSE NULL,
              !.allow_override = i < Len(new) \/ allow,
              !.kids = IF i = Len(new) THEN <<>> ELSE <<new[i + 1]>>]

Chained(path, known, base, new, v, allow) ==
    [n \in DOMAIN heap \cup ToSet(new) |->
        IF n \in ToSet(new)
        THEN Link(path, known, base, new, v, allow, CHOOSE i \in DOMAIN new : new[i] = n)
        ELSE IF n = base THEN [heap[n] EXCEPT !.kids = Append(@, new[1])]
        ELSE heap[n]]

FreshChains(length) ==
    {new \in [1..length -> Nodes \ DOMAIN heap] : IsInjective(new)}

\* Mutant: the tokens on the way are not looked up.
SetFromRoot(path, v, allow) ==
    /\ root # NULL
    /\ ConfGetNode(path) = NULL
    /\ \E new \in FreshChains(Len(path)) :
          heap' = Chained(path, 0, root, new, v, allow)
    /\ last' = <<"set", path, v, allow, 1>>
    /\ UNCHANGED <<root, root_backup>>

\* Mutant: a new node does not get its parent.
SetNoParent(path, v, allow) ==
    /\ root # NULL
    /\ ConfGetNode(path) = NULL
    /\ LET base == ConfGetNode(SubSeq(path, 1, Known(path)))
       IN  \E new \in FreshChains(Len(path) - Known(path)) :
              heap' = [Chained(path, Known(path), base, new, v, allow)
                         EXCEPT ![new[1]].parent = NULL]
    /\ last' = <<"set", path, v, allow, 1>>
    /\ UNCHANGED <<root, root_backup>>

\* Nodes are made from the first token on that is not found.
SetNew(path, v, allow) ==
    /\ root # NULL
    /\ ConfGetNode(path) = NULL
    /\ LET base == ConfGetNode(SubSeq(path, 1, Known(path)))
       IN  \E new \in FreshChains(Len(path) - Known(path)) :
              heap' = Chained(path, Known(path), base, new, v, allow)
    /\ last' = <<"set", path, v, allow, 1>>
    /\ UNCHANGED <<root, root_backup>>

ConfSet(path, v, allow) ==
    SetExisting(path, v, allow) \/ SetNew(path, v, allow)

\* ConfNodeRemove: unlinked from the parent it knows, then freed with all
\* that lies below it.
Without(node) ==
    [n \in DOMAIN heap \ Subtree(node) |->
        IF n = heap[node].parent
        THEN [heap[n] EXCEPT !.kids = RemoveFirst(@, node)]
        ELSE heap[n]]

\* Mutant: the node is freed, its children are not.
RemoveAlone(path) ==
    /\ root # NULL
    /\ LET node == ConfGetNode(path)
       IN  /\ node # NULL
           /\ heap' = [n \in DOMAIN heap \ {node} |->
                         IF n \in DOMAIN Without(node) THEN Without(node)[n]
                         ELSE heap[n]]
    /\ last' = <<"remove", path, 1>>
    /\ UNCHANGED <<root, root_backup>>

\* Mutant: the node is not unlinked.
RemoveLinked(path) ==
    /\ root # NULL
    /\ LET node == ConfGetNode(path)
       IN  /\ node # NULL
           /\ heap' = [n \in DOMAIN heap \ Subtree(node) |-> heap[n]]
    /\ last' = <<"remove", path, 1>>
    /\ UNCHANGED <<root, root_backup>>

ConfRemove(path) ==
    /\ root # NULL
    /\ LET node == ConfGetNode(path)
       IN  /\ heap' = IF node = NULL THEN heap ELSE Without(node)
           /\ last' = <<"remove", path, IF node = NULL THEN 0 ELSE 1>>
    /\ UNCHANGED <<root, root_backup>>

ConfCreateContextBackup ==
    /\ root_backup' = root
    /\ root' = NULL
    /\ last' = <<"backup">>
    /\ UNCHANGED heap

ConfRestoreContextBackup ==
    /\ root' = root_backup
    /\ root_backup' = NULL
    /\ last' = <<"restore">>
    /\ UNCHANGED heap

ConfDeInit ==
    /\ root # NULL
    /\ heap' = [n \in DOMAIN heap \ Subtree(root) |-> heap[n]]
    /\ root' = NULL
    /\ last' = <<"deinit">>
    /\ UNCHANGED root_backup

\* A caller does not back up a second tree, nor restore over one in use:
\* the code would drop the other tree without freeing it.
Next ==
    \/ ConfInit \/ ConfDeInit
    \/ root_backup = NULL /\ ConfCreateContextBackup
    \/ root = NULL /\ ConfRestoreContextBackup
    \/ \E p \in Paths : ConfGet(p) \/ ConfRemove(p)
    \/ \E p \in Paths, v \in Values, a \in BOOLEAN : ConfSet(p, v, a)

Spec == Init /\ [][Next]_vars

-----------------------------------------------------------------------------
(* Properties *)

\* Neither a root nor a list of children leads to a freed node.
NoDangling ==
    /\ {root, root_backup} \subseteq DOMAIN heap \cup {NULL}
    /\ \A n \in DOMAIN heap : ToSet(heap[n].kids) \subseteq DOMAIN heap

\* A child knows the node in whose list it is, and is in it once: what
\* ConfNodeRemove needs to unlink it.
ParentsAgree ==
    \A n \in DOMAIN heap :
        /\ IsInjective(heap[n].kids)
        /\ \A k \in ToSet(heap[n].kids) : heap[k].parent = n

\* Siblings have different names, so that none hides another one.
SiblingsDiffer ==
    \A n \in DOMAIN heap :
        \A i, j \in DOMAIN heap[n].kids :
            i # j => heap[heap[n].kids[i]].name # heap[heap[n].kids[j]].name

\* Every node that is not freed can still be reached, and freed, by somebody.
NothingLost ==
    DOMAIN heap = (IF root = NULL THEN {} ELSE Subtree(root))
             \cup (IF root_backup = NULL THEN {} ELSE Subtree(root_backup))

\* The parameters a tree holds, by path.
AsDb(tree) ==
    IF tree = NULL THEN NULL
    ELSE [p \in {q \in Paths : Find(tree, q) # NULL} |->
            [val |-> heap[Find(tree, p)].val,
             allow_override |-> heap[Find(tree, p)].allow_override]]

Db == INSTANCE ConfDb WITH db <- AsDb(root), saved <- AsDb(root_backup)

\* The tree is a database of parameters: every call changes what its path
\* says and nothing else, and answers what that database would.
ImplementsDb == Db!Spec
=============================================================================
