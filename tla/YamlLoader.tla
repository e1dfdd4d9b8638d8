----------------------------- MODULE YamlLoader -----------------------------
(***************************************************************************)
(* ConfYamlParse of config/conf-yaml-loader.c over the tree of ConfTree.   *)
(* libyaml delivers the events of a well-formed file one by one; the       *)
(* recursion of ConfYamlParse is the variable stack.  A scalar is its      *)
(* text, and serves as a name or as a value.                               *)
(***************************************************************************)
EXTENDS ConfTree

CONSTANTS Scalars,     \* the scalars of a file
          Mangle(_),   \* a text with every '_' replaced by '-'
          Index(_),    \* the name of the n-th item of a sequence, "%d"
          Unmangled,   \* "address-groups" and "port-groups"
          MaxEvents    \* bound: the events of a file

CONF_KEY == "key"
CONF_VAL == "val"

\* What the loader returned, once it has.
ASSUME LoaderAssumption == NULL \notin {-1, 0}

\* Scalars and names are texts; a mangled one has no '_' left, and two numbers
\* are two names.
ASSUME TextAssumption ==
    /\ \A s \in Scalars : Mangle(s) # NULL /\ Mangle(Mangle(s)) = Mangle(s)
    /\ MaxEvents \in Nat /\ \A i, j \in 0..MaxEvents : Index(i) = Index(j) => i = j
    /\ NULL \notin Unmangled

VARIABLES
    stack,     \* the frames of ConfYamlParse, the innermost one last
    result,    \* NULL while the file is read, then what the loader returned
    open,      \* libyaml: the collections that are open
    events,    \* libyaml: the events delivered
    meaning,   \* history: the value the file gives to each path
    style,     \* history: "plain", "underscore" or "odd", see KeyScalar
    leaked     \* history: the nodes that no call and no list knows

libyaml == <<open, events>>
history == <<meaning, style, leaked>>
allvars == <<root, root_backup, heap, last, stack, result, open, events,
             meaning, style, leaked>>

Top == stack[Len(stack)]

Frame(parent, inseq) ==
    [parent |-> parent, node |-> parent, inseq |-> inseq,
     state |-> CONF_KEY, seq_idx |-> 0]

\* A collection: what it is, the path of the parameter it is the value of,
\* and for a mapping the path of the key whose value comes next (or <<>>) and
\* of all keys so far, for a sequence the number of items so far.
Collection(kind, path) ==
    [kind |-> kind, path |-> path, key |-> <<>>, keys |-> {}, items |-> 0]

Here == open[Len(open)]

-----------------------------------------------------------------------------
(* The node operations of the loader *)

\* Mutant: a new node is not linked to its parent.
AddedNowhere(parent, n, rec) ==
    [m \in DOMAIN heap \cup {n} |-> IF m = n THEN rec ELSE heap[m]]

\* A new last child of parent.
Added(parent, n, rec) ==
    [m \in DOMAIN heap \cup {n} |->
        IF m = n THEN rec
        ELSE IF m = parent THEN [heap[m] EXCEPT !.kids = Append(@, n)]
        ELSE heap[m]]

\* The loader sets no parent.
Loaded(name, val) == [NewNode(name, NULL) EXCEPT !.val = val]

Advance(frame) == stack' = [stack EXCEPT ![Len(stack)] = frame]

\* The state a frame goes on in when a collection in it has ended.
Returned(frames) ==
    [frames EXCEPT ![Len(frames)].state = CONF_KEY]

-----------------------------------------------------------------------------
(* What the file means *)

\* A key comes next, the first of a pair of nodes of a mapping.
AtKey == Here.kind = "map" /\ Here.key = <<>>

\* A node comes next that is no key.
AtValue ==
    \/ Here.kind = "seq"
    \/ Here.kind = "map" /\ Here.key # <<>>
    \/ Here.kind = "doc" /\ Here.items = 0

AtNode == AtKey \/ AtValue

\* A key that is no scalar names nothing.
Nameless == Append(Here.path, NULL)

\* The path of a node that starts here.
PathHere ==
    IF Here.kind = "seq" THEN Append(Here.path, Index(Here.items))
    ELSE IF AtKey THEN Nameless
    ELSE IF Here.kind = "map" THEN Here.key
    ELSE <<>>

KeyPath(s) ==
    Append(Here.path,
           IF Here.path # <<>> /\ Last(Here.path) \in Unmangled THEN s
           ELSE Mangle(s))

\* The collection is an item of a sequence.
IsItem == open[Len(open) - 1].kind = "seq"

Odd(is) == style' = IF is THEN "odd" ELSE style

Meant(path, v) ==
    [p \in DOMAIN meaning \cup {path} |-> IF p = path THEN v ELSE meaning[p]]

\* A node of the file is complete or has begun: whose turn is next.
NodeSeen ==
    IF AtKey THEN [open EXCEPT ![Len(open)].key = Nameless]
    ELSE [open EXCEPT ![Len(open)].key = <<>>, ![Len(open)].items = @ + 1]

Delivers ==
    /\ stack # <<>>
    /\ events < MaxEvents
    /\ events' = events + 1
    /\ UNCHANGED <<root, root_backup, last, result, leaked>>

-----------------------------------------------------------------------------
(* The calls around the loader *)

LoaderInit ==
    /\ Init
    /\ stack = <<>>
    /\ result = NULL
    /\ open = <<>>
    /\ events = 0
    /\ meaning = [p \in {} |-> NULL]
    /\ style = "plain"
    /\ leaked = {}

\* What a program may have set before it loads its file.
Prepare ==
    /\ stack = <<>> /\ result = NULL
    /\ \/ ConfInit
       \/ \E p \in Paths, v \in Values, a \in BOOLEAN : ConfSet(p, v, a)
    /\ UNCHANGED <<stack, result, libyaml, history>>

\* ConfYamlLoadFile: the outermost call of ConfYamlParse.
ConfYamlLoadFile ==
    /\ stack = <<>> /\ result = NULL
    /\ root # NULL
    /\ stack' = <<Frame(root, FALSE)>>
    /\ open' = <<Collection("stream", <<>>)>>
    /\ UNCHANGED <<vars, result, events, history>>

\* The file is not there, or the parser cannot be initialised.
LoadFails ==
    /\ stack = <<>> /\ result = NULL
    /\ root # NULL
    /\ result' = -1
    /\ UNCHANGED <<vars, stack, libyaml, history>>

\* A failure makes every frame return -1, and leaves what was built.
Fails ==
    /\ stack # <<>>
    /\ stack' = <<>>
    /\ result' = -1
    /\ UNCHANGED <<vars, libyaml, history>>

ParseError == Fails

-----------------------------------------------------------------------------
(* The events *)

\* The documents of a file are read into one tree.
DocumentStart ==
    /\ Delivers
    /\ Here.kind = "stream"
    /\ open' = Append(NodeSeen, Collection("doc", <<>>))
    /\ Odd(Here.items > 0)
    /\ UNCHANGED <<heap, stack, meaning>>

\* No version, or another one than 1.1.
DocumentOfWrongVersion ==
    /\ stack # <<>>
    /\ Here.kind = "stream"
    /\ Fails

DocumentEnd ==                   \* ignored
    /\ Delivers
    /\ Here.kind = "doc" /\ Here.items = 1
    /\ open' = Front(open)
    /\ UNCHANGED <<heap, stack, history>>

\* The code for a scalar: an item, a key or a value, as the frame says.
ScalarItem(s) ==
    /\ Top.inseq
    /\ \E n \in Nodes \ DOMAIN heap :
          heap' = Added(Top.parent, n, Loaded(Index(Top.seq_idx), s))
    /\ Advance([Top EXCEPT !.seq_idx = @ + 1])

\* The parent of a key in a sequence is called by its first key.
Called(s) ==
    [heap EXCEPT ![Top.parent].val =
        IF heap[Top.parent].is_seq /\ @ = NULL THEN Mangle(s) ELSE @]

KeyName(s) ==
    IF heap[Top.parent].name \in Unmangled THEN s ELSE Mangle(s)

\* Mutant: a key is always a new node.
ScalarKeyNew(s) ==
    /\ ~Top.inseq /\ Top.state = CONF_KEY
    /\ \E n \in Nodes \ DOMAIN heap :
          /\ heap' = [Added(Top.parent, n, Loaded(KeyName(s), NULL))
                        EXCEPT ![Top.parent].val = Called(s)[Top.parent].val]
          /\ Advance([Top EXCEPT !.node = n, !.state = CONF_VAL])

ScalarKey(s) ==
    /\ ~Top.inseq /\ Top.state = CONF_KEY
    /\ LET n0 == ConfNodeLookupChild(Top.parent, s)
       IN  \/ /\ n0 # NULL
              /\ heap' = Called(s)
              /\ Advance([Top EXCEPT !.node = n0, !.state = CONF_VAL])
           \/ /\ n0 = NULL
              /\ \E n \in Nodes \ DOMAIN heap :
                    /\ heap' = [Added(Top.parent, n,
                                      Loaded(KeyName(s), NULL))
                                  EXCEPT ![Top.parent].val =
                                      Called(s)[Top.parent].val]
                    /\ Advance([Top EXCEPT !.node = n, !.state = CONF_VAL])

\* Mutant: the value is set whether the node allows it or not.
ScalarValueAlways(s) ==
    /\ ~Top.inseq /\ Top.state = CONF_VAL
    /\ heap' = [heap EXCEPT ![Top.node].val = s]
    /\ Advance([Top EXCEPT !.state = CONF_KEY])

ScalarValue(s) ==
    /\ ~Top.inseq /\ Top.state = CONF_VAL
    /\ heap' = IF heap[Top.node].allow_override
               THEN [heap EXCEPT ![Top.node].val = s] ELSE heap
    /\ Advance([Top EXCEPT !.state = CONF_KEY])

Scalar(s) == ScalarItem(s) \/ ScalarKey(s) \/ ScalarValue(s)

\* A file is odd if a key comes twice; it uses underscores if it spells a key
\* with one whose parameter is there already, under either spelling.
KeyScalar(s) ==
    /\ Delivers
    /\ AtKey
    /\ Scalar(s)
    /\ open' = [open EXCEPT ![Len(open)].key = KeyPath(s),
                            ![Len(open)].keys = @ \cup {KeyPath(s)}]
    /\ meaning' = IF IsItem /\ Here.keys = {}
                  THEN Meant(Here.path, Mangle(s)) ELSE meaning
    /\ style' = IF KeyPath(s) \in Here.keys THEN "odd"
                ELSE IF /\ style = "plain"
                        /\ Last(KeyPath(s)) # s
                        /\ \/ ConfGetNode(KeyPath(s)) # NULL
                           \/ ConfGetNode(Append(Here.path, s)) # NULL
                     THEN "underscore"
                ELSE style

NodeScalar(s) ==
    /\ Delivers
    /\ AtValue
    /\ Scalar(s)
    /\ open' = NodeSeen
    /\ meaning' = Meant(PathHere, s)
    /\ Odd(Here.kind = "doc")

\* An alias is ignored, whether it stands for a key or for a value.
Alias ==
    /\ Delivers
    /\ AtNode
    /\ open' = NodeSeen
    /\ Odd(TRUE)
    /\ UNCHANGED <<heap, stack, meaning>>

SequenceStart ==
    /\ Delivers
    /\ AtNode
    /\ stack' = Append(stack, Frame(Top.node, TRUE))
    /\ open' = Append(NodeSeen, Collection("seq", PathHere))
    /\ Odd(Here.kind # "map" \/ AtKey \/ heap[Top.node].kids # <<>>)
    /\ UNCHANGED <<heap, meaning>>

SequenceEnd ==
    /\ Delivers
    /\ Here.kind = "seq"
    /\ stack' = Returned(Front(stack))
    /\ open' = Front(open)
    /\ UNCHANGED <<heap, history>>

MappingItem ==
    /\ Top.inseq
    /\ \E n \in Nodes \ DOMAIN heap :
          /\ heap' = Added(Top.node, n,
                           [Loaded(Index(Top.seq_idx), NULL)
                              EXCEPT !.is_seq = TRUE])
          /\ stack' = Append([stack EXCEPT ![Len(stack)].seq_idx = @ + 1],
                             Frame(n, FALSE))

MappingValue ==
    /\ ~Top.inseq
    /\ stack' = Append(stack, Frame(Top.node, FALSE))
    /\ UNCHANGED heap

MappingStart ==
    /\ Delivers
    /\ AtNode
    /\ MappingItem \/ MappingValue
    /\ open' = Append(NodeSeen, Collection("map", PathHere))
    /\ Odd(AtKey)
    /\ UNCHANGED meaning

\* The name of an item, a scalar or a mapping, cannot be allocated: the call
\* returns at once, and the item is in no list yet.
NoName ==
    /\ stack # <<>> /\ events < MaxEvents
    /\ AtNode /\ Top.inseq
    /\ \E n \in Nodes \ DOMAIN heap, is_seq \in BOOLEAN :
          /\ heap' = [m \in DOMAIN heap \cup {n} |->
                        IF m = n THEN [NewNode(NULL, NULL) EXCEPT !.is_seq = is_seq]
                        ELSE heap[m]]
          /\ leaked' = {n}
    /\ stack' = <<>>
    /\ result' = -1
    /\ UNCHANGED <<root, root_backup, last, libyaml, meaning, style>>

\* Mutant: the end of a mapping does not end the call.
MappingEndGoesOn ==
    /\ Delivers
    /\ AtKey
    /\ stack' = Returned(stack)
    /\ open' = Front(open)
    /\ UNCHANGED <<heap, history>>

MappingEnd ==
    /\ Delivers
    /\ AtKey
    /\ stack' = Returned(Front(stack))
    /\ open' = Front(open)
    /\ UNCHANGED <<heap, history>>

StreamEnd ==
    /\ stack # <<>>
    /\ Here.kind = "stream"
    /\ stack' = Front(stack)
    /\ result' = 0
    /\ UNCHANGED <<vars, libyaml, history>>

-----------------------------------------------------------------------------
\* When the file is loaded its values are read and the tree is freed.
TearDown ==
    /\ result # NULL
    /\ ConfDeInit
    /\ UNCHANGED <<stack, result, libyaml, history>>

ConfYamlParse ==
    \/ DocumentStart \/ DocumentOfWrongVersion \/ DocumentEnd
    \/ \E s \in Scalars : KeyScalar(s) \/ NodeScalar(s)
    \/ Alias
    \/ SequenceStart \/ SequenceEnd \/ MappingStart \/ MappingEnd
    \/ NoName \/ StreamEnd \/ ParseError

LoaderNext ==
    Prepare \/ ConfYamlLoadFile \/ LoadFails \/ ConfYamlParse \/ TearDown

LoaderSpec == LoaderInit /\ [][LoaderNext]_allvars

-----------------------------------------------------------------------------
(* Properties *)

\* The recursion follows the file: one call for the stream, which its documents
\* share, and one for each collection that is open, of whatever kind and
\* however nested.
OneCallEach ==
    stack # <<>> =>
        \E outer \in {1, 2} :
            /\ \A i \in DOMAIN open : open[i].kind \in {"map", "seq"} <=> i > outer
            /\ Len(stack) + outer = Len(open) + 1
            /\ \A i \in 2..Len(stack) :
                  stack[i].inseq = (open[i + outer - 1].kind = "seq")

Understood ==
    \A p \in DOMAIN meaning :
        LET node == ConfGetNode(p)
        IN  /\ node # NULL
            /\ heap[node].val = meaning[p] \/ ~heap[node].allow_override

\* A plain file (one document with a mapping at the top, scalars as keys that
\* differ, no aliases, no sequence right within a sequence nor for a parameter
\* with others below it) has been understood when it is loaded: what it says
\* of a path is what a lookup finds, unless the program had set that parameter
\* for good.
FileUnderstood ==
    (result = 0 /\ style = "plain" /\ root # NULL) => Understood

\* A parameter that was set for good keeps its value while files are loaded.
SetForGood ==
    [][\A n \in DOMAIN heap \cap DOMAIN heap' :
          ~heap[n].allow_override => heap'[n].val = heap[n].val]_allvars

\* The tree owns every node there is, the ones that the calls work on too; when
\* it is freed nothing is left.  Only a load that failed for want of memory has
\* left one item outside of it.
AllInTree ==
    /\ leaked # {} => result = -1 /\ \E n \in Nodes : leaked = {n}
    /\ DOMAIN heap \ leaked = IF root = NULL THEN {} ELSE Subtree(root)
    /\ \A i \in DOMAIN stack : {stack[i].parent, stack[i].node} \subseteq DOMAIN heap
=============================================================================
