------------------------------ MODULE WebQueue ------------------------------
(***************************************************************************)
(* The queue of pages to crawl, g_webQueue, as the threads of the program  *)
(* work on it: queue_node_add, queue_node_push, queue_node_pop and         *)
(* queue_node_free of encapsulate_queue.cpp with the TAILQ macros of       *)
(* queue.h, one action per store to shared memory; InitWebCrawler, which   *)
(* sets the queue up and adds the root page; and queue_exit, which main    *)
(* runs without the lock.  What a worker does with a page between taking   *)
(* and freeing its node is abstracted to "add any number of nodes", and    *)
(* why it leaves its loop is left open: module Crawler has both.           *)
(*                                                                         *)
(* A TAILQ link is a pair: "next" points to a node, "prev" holds the       *)
(* ADDRESS of the pointer that points to this node, which is either the    *)
(* head's tqh_first or the "next" field of another node.  An address is    *)
(* named here by its owner, HEAD or that node.                             *)
(***************************************************************************)
EXTENDS Integers, Sequences

CONSTANTS Workers,   \* the threads that run HandleNodePthread
          Main,      \* the thread that runs main()
          Nodes,     \* the heap blocks malloc may give for a NodeQueue
          NULL,
          HEAD,      \* the address of g_webQueue.head.tqh_first
          MaxFile    \* bound: no node is added once FileNumber reached it

ASSUME WebQueueAssumption ==
    /\ Main \notin Workers
    /\ NULL \notin Nodes
    /\ HEAD \notin Nodes
    /\ NULL # HEAD
    /\ NULL \notin Workers \cup {Main}
    /\ MaxFile \in Nat

Threads == Workers \cup {Main}
Free    == NULL                 \* the value of the lock that nobody holds

VARIABLES
    first, last,     \* head.tqh_first and head.tqh_last
    next, prev,      \* the TAILQ_ENTRY of every node
    size,            \* queue_s.size
    lock,            \* the thread inside queue_s.lock, or Free
    allocated,       \* the nodes malloc gave and free has not taken back
    FileNumber,      \* the counter behind the names of the page files
    pc,              \* where each thread is
    node,            \* the local "ptr" of pop, "node" of the worker loop
    elm,             \* the local "node" of queue_node_add
    number,          \* the value of FileNumber a thread has read
    content          \* history: the queue as a sequence, updated at the
                     \* store that links a node in or out

links == <<first, last, next, prev>>
locals == <<node, elm, number>>
vars == <<first, last, next, prev, size, lock, allocated, FileNumber, pc,
          node, elm, number, content>>

Queued == {content[i] : i \in DOMAIN content}

-----------------------------------------------------------------------------
(* The start of main: the queue is initialised, the workers do not exist. *)

Init ==
    /\ first = NULL
    /\ last = HEAD
    /\ next = [n \in Nodes |-> NULL]
    /\ prev = [n \in Nodes |-> NULL]
    /\ size = 0
    /\ lock = Free
    /\ allocated = {}
    /\ FileNumber = 0
    /\ pc = [t \in Threads |-> IF t = Main THEN "init" ELSE "unborn"]
    /\ node = [t \in Threads |-> NULL]
    /\ elm = [t \in Threads |-> NULL]
    /\ number = [t \in Threads |-> 0]
    /\ content = <<>>

Goto(t, from, to) ==
    /\ pc[t] = from
    /\ pc' = [pc EXCEPT ![t] = to]

\* Who calls queue_node_add: main for the root page, a worker in GetLink.
CallSite(t) == IF t = Main THEN "init" ELSE "handle"
Return(t)   == IF t = Main THEN "start" ELSE "handle"

Lock(t) ==
    /\ lock = Free
    /\ lock' = t

Unlock(t) == lock' = Free

-----------------------------------------------------------------------------
(* queue_node_add: malloc, name the page file, push.  Nothing is locked    *)
(* while "FileNumber++" reads and writes the counter.                      *)

AddMalloc(t) ==
    /\ FileNumber < MaxFile
    /\ \E n \in Nodes \ allocated :
          /\ allocated' = allocated \cup {n}
          /\ elm' = [elm EXCEPT ![t] = n]
    /\ Goto(t, CallSite(t), "name")
    /\ UNCHANGED <<links, size, lock, FileNumber, node, number, content>>

\* malloc fails and InitWebCrawler does not look.  (In a worker, GetLink
\* does not look either and nothing changes.)
RootMallocFails ==
    /\ Goto(Main, "init", "start")
    /\ UNCHANGED <<links, size, lock, allocated, FileNumber, locals, content>>

AddReadNumber(t) ==
    /\ Goto(t, "name", "bump")
    /\ number' = [number EXCEPT ![t] = FileNumber]
    /\ UNCHANGED <<links, size, lock, allocated, FileNumber, node, elm,
                   content>>

AddWriteNumber(t) ==
    /\ Goto(t, "bump", "push")
    /\ FileNumber' = number[t] + 1
    /\ UNCHANGED <<links, size, lock, allocated, locals, content>>

-----------------------------------------------------------------------------
(* queue_node_push *)

PushLock(t) ==
    /\ Goto(t, "push", "ins1")
    /\ Lock(t)
    /\ UNCHANGED <<links, size, allocated, FileNumber, locals, content>>

InsertNext(t) ==            \* elm->next = NULL
    /\ Goto(t, "ins1", "ins2")
    /\ next' = [next EXCEPT ![elm[t]] = NULL]
    /\ UNCHANGED <<first, last, prev, size, lock, allocated, FileNumber,
                   locals, content>>

InsertPrev(t) ==            \* elm->prev = head->tqh_last
    /\ Goto(t, "ins2", "ins3")
    /\ prev' = [prev EXCEPT ![elm[t]] = last]
    /\ UNCHANGED <<first, last, next, size, lock, allocated, FileNumber,
                   locals, content>>

\* A store through an address: the pointer that "owner" has is set to p.
StoreAt(owner, p) ==
    IF owner = HEAD
    THEN first' = p /\ UNCHANGED next
    ELSE next' = [next EXCEPT ![owner] = p] /\ UNCHANGED first

InsertLink(t) ==            \* *head->tqh_last = elm
    /\ Goto(t, "ins3", "ins4")
    /\ StoreAt(last, elm[t])
    /\ content' = Append(content, elm[t])
    /\ UNCHANGED <<last, prev, size, lock, allocated, FileNumber, locals>>

InsertLast(t) ==            \* head->tqh_last = &elm->next
    /\ Goto(t, "ins4", "grow")
    /\ last' = elm[t]
    /\ UNCHANGED <<first, next, prev, size, lock, allocated, FileNumber,
                   locals, content>>

Grow(t) ==                  \* size++
    /\ Goto(t, "grow", "unlockpush")
    /\ size' = size + 1
    /\ UNCHANGED <<links, lock, allocated, FileNumber, locals, content>>

PushUnlock(t) ==            \* and queue_node_add returns to its caller
    /\ Goto(t, "unlockpush", Return(t))
    /\ Unlock(t)
    /\ elm' = [elm EXCEPT ![t] = NULL]
    /\ UNCHANGED <<links, size, allocated, FileNumber, node, number, content>>

-----------------------------------------------------------------------------
(* queue_node_pop, called at the top of the worker's loop *)

PopLock(t) ==
    /\ Goto(t, "loop", "first")
    /\ Lock(t)
    /\ UNCHANGED <<links, size, allocated, FileNumber, locals, content>>

\* Mutants of TAILQ_FIRST: "size--" outside the "if"; the youngest node.
PopFirstCounts(t) ==
    /\ Goto(t, "first", IF first = NULL THEN "shrink" ELSE "remove1")
    /\ node' = [node EXCEPT ![t] = first]
    /\ UNCHANGED <<links, size, lock, allocated, FileNumber, elm, number,
                   content>>

PopLast(t) ==
    /\ Goto(t, "first", IF last = HEAD THEN "unlockpop" ELSE "remove1")
    /\ node' = [node EXCEPT ![t] = IF last = HEAD THEN NULL ELSE last]
    /\ UNCHANGED <<links, size, lock, allocated, FileNumber, elm, number,
                   content>>

PopFirst(t) ==              \* ptr = TAILQ_FIRST(head)
    /\ Goto(t, "first", IF first = NULL THEN "unlockpop" ELSE "remove1")
    /\ node' = [node EXCEPT ![t] = first]
    /\ UNCHANGED <<links, size, lock, allocated, FileNumber, elm, number,
                   content>>

\* Mutants of TAILQ_REMOVE: tqh_last is not moved back, or is cleared, when
\* the only node leaves.
RemoveKeepsLast(t) ==
    /\ Goto(t, "remove1", "remove2")
    /\ IF next[node[t]] # NULL
       THEN prev' = [prev EXCEPT ![next[node[t]]] = prev[node[t]]]
       ELSE UNCHANGED prev
    /\ UNCHANGED <<first, last, next, size, lock, allocated, FileNumber,
                   locals, content>>

RemoveClearsLast(t) ==
    /\ Goto(t, "remove1", "remove2")
    /\ IF next[node[t]] # NULL
       THEN prev' = [prev EXCEPT ![next[node[t]]] = prev[node[t]]]
            /\ UNCHANGED last
       ELSE last' = NULL /\ UNCHANGED prev
    /\ UNCHANGED <<first, next, size, lock, allocated, FileNumber, locals,
                   content>>

RemoveBack(t) ==            \* ptr's successor, or the head, forgets ptr
    /\ Goto(t, "remove1", "remove2")
    /\ IF next[node[t]] # NULL
       THEN prev' = [prev EXCEPT ![next[node[t]]] = prev[node[t]]]
            /\ UNCHANGED last
       ELSE last' = prev[node[t]] /\ UNCHANGED prev
    /\ UNCHANGED <<first, next, size, lock, allocated, FileNumber, locals,
                   content>>

RemoveLink(t) ==            \* *ptr->prev = ptr->next
    /\ Goto(t, "remove2", IF t = Main THEN "release" ELSE "shrink")
    /\ StoreAt(prev[node[t]], next[node[t]])
    /\ content' = Tail(content)
    /\ UNCHANGED <<last, prev, size, lock, allocated, FileNumber, locals>>

Shrink(t) ==                \* size--
    /\ Goto(t, "shrink", "unlockpop")
    /\ size' = size - 1
    /\ UNCHANGED <<links, lock, allocated, FileNumber, locals, content>>

\* Mutant: the early return of an empty queue does not unlock.
PopForgetsUnlock(t) ==
    /\ Goto(t, "unlockpop", IF node[t] = NULL THEN "loop" ELSE "handle")
    /\ IF node[t] = NULL THEN UNCHANGED lock ELSE Unlock(t)
    /\ UNCHANGED <<links, size, allocated, FileNumber, locals, content>>

PopUnlock(t) ==             \* a node is handled, NULL sends the worker round
    /\ Goto(t, "unlockpop", IF node[t] = NULL THEN "loop" ELSE "handle")
    /\ Unlock(t)
    /\ UNCHANGED <<links, size, allocated, FileNumber, locals, content>>

\* Mutant: the worker goes to its next page without queue_node_free.
FreeSkipped(t) ==
    /\ Goto(t, "handle", "loop")
    /\ node' = [node EXCEPT ![t] = NULL]
    /\ UNCHANGED <<links, size, lock, allocated, FileNumber, elm, number,
                   content>>

\* queue_node_free at the end of the worker's loop body
FreeNode(t) ==
    /\ Goto(t, "handle", "loop")
    /\ allocated' = allocated \ {node[t]}
    /\ node' = [node EXCEPT ![t] = NULL]
    /\ UNCHANGED <<links, size, lock, FileNumber, elm, number, content>>

\* The worker leaves its loop: stopped by a signal, or idle for too long.
Leave(t) ==
    /\ Goto(t, "loop", "exited")
    /\ UNCHANGED <<links, size, lock, allocated, FileNumber, locals, content>>

-----------------------------------------------------------------------------
(* main: start the workers, join them all, empty the queue without locking *)

StartWorker(w) ==           \* one turn of the loop of pthread_start
    /\ pc[Main] = "start"
    /\ Goto(w, "unborn", "loop")
    /\ UNCHANGED <<links, size, lock, allocated, FileNumber, locals, content>>

JoinAll ==                  \* pthread_end
    /\ \A w \in Workers : pc[w] = "exited"
    /\ Goto(Main, "start", "drain")
    /\ UNCHANGED <<links, size, lock, allocated, FileNumber, locals, content>>

DrainFirst ==               \* the loop condition of queue_exit
    /\ Goto(Main, "drain", IF first = NULL THEN "exited" ELSE "remove1")
    /\ node' = [node EXCEPT ![Main] = first]
    /\ UNCHANGED <<links, size, lock, allocated, FileNumber, elm, number,
                   content>>

\* Mutant: queue_exit unlinks without freeing.
DrainKeeps ==
    /\ Goto(Main, "release", "drain")
    /\ node' = [node EXCEPT ![Main] = NULL]
    /\ UNCHANGED <<links, size, lock, allocated, FileNumber, elm, number,
                   content>>

DrainFree ==                \* queue_node_free in queue_exit
    /\ Goto(Main, "release", "drain")
    /\ allocated' = allocated \ {node[Main]}
    /\ node' = [node EXCEPT ![Main] = NULL]
    /\ UNCHANGED <<links, size, lock, FileNumber, elm, number, content>>

-----------------------------------------------------------------------------
Add(t)    == AddMalloc(t) \/ AddReadNumber(t) \/ AddWriteNumber(t)
Push(t)   == \/ PushLock(t) \/ InsertNext(t) \/ InsertPrev(t) \/ InsertLink(t)
             \/ InsertLast(t) \/ Grow(t) \/ PushUnlock(t)
Remove(t) == RemoveBack(t) \/ RemoveLink(t)
Pop(t)    ==
    PopLock(t) \/ PopFirst(t) \/ Remove(t) \/ Shrink(t) \/ PopUnlock(t)

WorkerNext(w) ==
    Add(w) \/ Push(w) \/ Pop(w) \/ FreeNode(w) \/ Leave(w)

MainNext ==
    \/ Add(Main) \/ RootMallocFails \/ Push(Main)
    \/ \E w \in Workers : StartWorker(w)
    \/ JoinAll \/ DrainFirst \/ Remove(Main) \/ DrainFree

Next == MainNext \/ \E w \in Workers : WorkerNext(w)

\* Every thread is scheduled; nothing makes a worker leave or add for ever.
Fairness ==
    /\ WF_vars(MainNext)
    /\ \A w \in Workers : WF_vars(Push(w) \/ Pop(w))

Spec == Init /\ [][Next]_vars /\ Fairness

-----------------------------------------------------------------------------
(* Properties *)

Addresses == Nodes \cup {HEAD}
Pointers  == Nodes \cup {NULL}

PCs == {"init", "unborn", "start", "loop", "handle", "exited",
        "name", "bump", "push", "ins1", "ins2", "ins3", "ins4", "grow",
        "unlockpush", "first", "remove1", "remove2", "shrink", "unlockpop",
        "drain", "release"}

\* Every variable holds a value of its C type; a prev link no store has set
\* yet is NULL.
TypeOK ==
    /\ first \in Pointers
    /\ last \in Addresses
    /\ next \in [Nodes -> Pointers]
    /\ prev \in [Nodes -> Addresses \cup {NULL}]
    /\ size \in Int
    /\ lock \in Threads \cup {Free}
    /\ allocated \in SUBSET Nodes
    /\ FileNumber \in Nat
    /\ pc \in [Threads -> PCs]
    /\ node \in [Threads -> Pointers]
    /\ elm \in [Threads -> Pointers]
    /\ number \in [Threads -> Nat]
    /\ content \in Seq(Nodes)

\* The chain of "next" pointers from the head visits c and ends in NULL.
Forward(c) ==
    /\ first = IF c = <<>> THEN NULL ELSE c[1]
    /\ \A i \in 1..Len(c) : next[c[i]] = IF i = Len(c) THEN NULL ELSE c[i+1]

\* Every "prev" link, and the head's tqh_last, is the address of the pointer
\* that points to the node, or to the end.
Backward(c) ==
    /\ last = IF c = <<>> THEN HEAD ELSE c[Len(c)]
    /\ \A i \in 1..Len(c) : prev[c[i]] = IF i = 1 THEN HEAD ELSE c[i-1]

\* Between two critical sections the TAILQ pointers, in both directions,
\* spell the sequence of nodes that were pushed and not yet popped.
WellLinked ==
    lock = Free /\ pc[Main] \notin {"remove1", "remove2"}
        => Forward(content) /\ Backward(content)

\* queue_s.size is the length of the queue whenever nobody is inside, until
\* queue_exit, which does not count.
SizeIsLength ==
    lock = Free /\ pc[Main] \in {"init", "name", "bump", "push", "start"}
        => size = Len(content)

\* The node a thread alone may touch: the one it is adding and has not
\* linked in, and the one it has unlinked and not freed.
Holds(t, n) ==
    \/ n = elm[t] /\ pc[t] \in {"name", "bump", "push", "ins1", "ins2", "ins3"}
    \/ n = node[t] /\ pc[t] \notin {"remove1", "remove2"}

NoRepeat == \A i, j \in DOMAIN content : content[i] = content[j] => i = j

HeldAlone ==
    \A n \in Nodes, t \in Threads :
        Holds(t, n) =>
            n \notin Queued /\ \A u \in Threads : Holds(u, n) => u = t

Accounted ==
    \A n \in Nodes :
        n \in allocated <=> n \in Queued \/ \E t \in Threads : Holds(t, n)

\* A heap block is in one place: never queued twice, never queued while a
\* thread holds it, never held by two threads or freed while reachable; and
\* none is leaked.
OnePlace == NoRepeat /\ HeldAlone /\ Accounted

\* When main returns, queue_exit has given back every block.
NothingLeaked == pc[Main] = "exited" => allocated = {}

\* Whoever enters the lock leaves it: pop releases it on the path of the
\* empty queue as well, so no thread spins for ever on a lost lock.
LockReleased == \A t \in Threads : lock = t ~> lock = Free

\* What a thread knows of its last take, as FifoQueue has it: the node from
\* the store that unlinks it, "empty" from the read of a NULL head, both
\* until the thread gives it back.
AnswerOf(t) ==
    IF pc[t] = "unlockpop" /\ node[t] = NULL THEN HEAD
    ELSE IF pc[t] \in {"remove1", "remove2"} THEN NULL
    ELSE node[t]

Fifo == INSTANCE FifoQueue WITH
            items   <- content,
            answer  <- [t \in Threads |-> AnswerOf(t)],
            Nothing <- NULL,
            Empty   <- HEAD

\* The pointers and the lock implement an atomic FIFO queue: what a pop
\* returns is the oldest node of it, and NULL only if it was empty.
ImplementsFifo == Fifo!FifoSpec

=============================================================================
