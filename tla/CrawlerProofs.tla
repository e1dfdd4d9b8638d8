---------------------------- MODULE CrawlerProofs ----------------------------
(***************************************************************************)
(* Proofs about Crawler for any number of workers, any web, any time-out   *)
(* and any number of failed connections, database calls and allocations.   *)
(***************************************************************************)
EXTENDS Crawler, TLAPS

\* A thread runs from pthread_create to pthread_join.
MainInv ==
    /\ main = "init" => \A w \in Workers : pc[w] = "unborn"
    /\ TearDownAlone

\* Why OneMoreAfterSignal holds: only a worker that had passed the loop
\* condition before the signal may still be about to take a page.
LateInv ==
    \A w \in Workers :
      /\ late[w] <= 1
      /\ ~stopped => late[w] = 0
      /\ pc[w] = "pop" => late[w] = 0

\* Why NothingLeftBehind holds: as long as a page waits, some worker has yet
\* to look at the queue before it can leave.
BusyInv ==
    queue # <<>> /\ ~stopped =>
        \E w \in Workers : pc[w] \notin {"sleep", "exited"}

\* Where a page is that was to be added.
Placed == taken \cup Queued \cup dropped

\* A page about to be recorded has been added already, or could not be.
RecordInv ==
    /\ RecordedIsQueued
    /\ \A w \in Workers : pc[w] = "record" => link[w] \in Placed

\* Why AddedOnce holds: once a worker has added a page without a failed call
\* to account for it, the page is in what that worker reads.
OnceAt(w, u) ==
    /\ added[w][u] <= 1 + failed[w][u]
    /\ pc[w] = "add" /\ link[w] = u => added[w][u] <= failed[w][u]
    /\ added[w][u] > failed[w][u] /\ ~(pc[w] = "record" /\ link[w] = u)
         => u \in recorded /\ (view[w] # NoView => u \in view[w])

OnceInv == \A w \in Workers, u \in Urls : OnceAt(w, u)

\* The link a worker is at stays the first of its list until it is recorded.
TodoInv ==
    \A w \in Workers : pc[w] \in {"add", "record"} => todo[w] # <<>>

IInv ==
    TypeOK /\ TodoInv /\ MainInv /\ LateInv /\ BusyInv /\ RecordInv /\ OnceInv

-----------------------------------------------------------------------------
(* Facts every step may use without citing them: the assumption on the     *)
(* constants, and the definitions that only abbreviate.                    *)

USE CrawlerAssumption
    DEF IInv, OnceAt, Goto, MainGoto, Alive, clock, database, outcome,
        Placed, Fault

LEMMA SeqFacts ==
  ASSUME NEW S, NEW s \in Seq(S)
  PROVE  /\ \A e \in S : Append(s, e) \in Seq(S)
         /\ s # <<>> => Head(s) \in S /\ Tail(s) \in Seq(S)
         /\ <<>> \in Seq(S)
OBVIOUS

LEMMA QueuedAppend ==
  ASSUME NEW u \in Urls, queue \in Seq(Urls), queue' = Append(queue, u)
  PROVE  Queued' = Queued \cup {u} /\ queue' # <<>>
<1>1. /\ DOMAIN queue = 1..Len(queue) /\ Len(queue) \in Nat
      /\ DOMAIN queue' = 1..(Len(queue) + 1)
      /\ \A i \in 1..Len(queue) : queue'[i] = queue[i]
      /\ queue'[Len(queue) + 1] = u
  OBVIOUS
<1> QED BY <1>1 DEF Queued

LEMMA QueuedTail ==
  ASSUME queue \in Seq(Urls), queue # <<>>, queue' = Tail(queue)
  PROVE  Queued \subseteq Queued' \cup {Head(queue)}
<1>1. /\ DOMAIN queue = 1..Len(queue) /\ Len(queue) \in Nat
      /\ Head(queue) = queue[1]
      /\ DOMAIN queue' = 1..(Len(queue) - 1)
      /\ \A i \in 1..(Len(queue) - 1) : queue'[i] = queue[i+1]
  OBVIOUS
<1>2. ASSUME NEW i \in 1..Len(queue), i # 1
      PROVE  queue[i] \in Queued'
  <2>1. i - 1 \in 1..(Len(queue) - 1) /\ (i - 1) + 1 = i
    BY <1>1, <1>2
  <2> QED BY <1>1, <2>1 DEF Queued
<1>3. \A u \in Queued : \E i \in 1..Len(queue) : u = queue[i]
  BY <1>1 DEF Queued
<1> QED BY <1>1, <1>2, <1>3

LEMMA LinkType ==
  ASSUME TypeOK, NEW w \in Workers, todo[w] # <<>>
  PROVE  /\ Tail(todo[w]) \in Seq(Links)
         /\ Head(todo[w]) \notin Filtered => GetHost(Head(todo[w])) \in Urls
<1>1. todo[w] \in Seq(Links)
  BY DEF TypeOK
<1> QED BY <1>1, SeqFacts DEF Links, GetHost

LEMMA NoViewType == NoView \in Views
BY DEF Views

LEMMA LoopCheckTypeOK ==
  ASSUME IInv, NEW w \in Workers, LoopCheck(w)
  PROVE  TypeOK'
<1>1. pc' \in [Workers -> PCs]
  BY DEF LoopCheck, TypeOK, PCs
<1>2. view' \in [Workers -> Views]
  BY NoViewType DEF LoopCheck, CloseDB, TypeOK
<1> QED BY <1>1, <1>2 DEF TypeOK, LoopCheck

LEMMA WakeTypeOK ==
  ASSUME IInv, NEW w \in Workers, Wake(w)
  PROVE  TypeOK'
<1>1. pc' \in [Workers -> PCs]
  BY DEF Wake, TypeOK, PCs
<1>2. view' \in [Workers -> Views]
  BY NoViewType DEF Wake, CloseDB, TypeOK
<1> QED BY <1>1, <1>2 DEF TypeOK, Wake

LEMMA PopNodeTypeOK ==
  ASSUME IInv, NEW w \in Workers, PopNode(w)
  PROVE  TypeOK'
<1>1. queue' \in Seq(Urls) /\ Head(queue) \in Urls
  BY SeqFacts DEF PopNode, TypeOK
<1>2. /\ pc' \in [Workers -> PCs] /\ age' \in [Workers -> Nat]
      /\ link' \in [Workers -> Urls] /\ taken' \in SUBSET Urls
  BY <1>1 DEF PopNode, TypeOK, PCs
<1>3. late' \in [Workers -> Nat]
  <2>1. late[w] \in Nat
    BY DEF TypeOK
  <2>2. late[w] + 1 \in Nat
    BY <2>1
  <2> QED BY <2>2 DEF PopNode, TypeOK
<1> QED BY <1>1, <1>2, <1>3 DEF TypeOK, PopNode

LEMMA PopNodeLate ==
  ASSUME IInv, NEW w \in Workers, PopNode(w)
  PROVE  LateInv'
<1>1. late[w] = 0 /\ late'[w] \in {0, 1} /\ pc'[w] = "fetch"
  BY DEF PopNode, LateInv, TypeOK
<1>2. ~stopped => late'[w] = 0
  BY <1>1 DEF PopNode
<1>3. \A v \in Workers \ {w} : late'[v] = late[v] /\ pc'[v] = pc[v]
  BY DEF PopNode, TypeOK
<1>4. stopped' = stopped
  BY DEF PopNode
<1> QED BY <1>1, <1>2, <1>3, <1>4 DEF LateInv

LEMMA PopNodeRecord ==
  ASSUME IInv, NEW w \in Workers, PopNode(w)
  PROVE  RecordInv'
<1>1. /\ taken' = taken \cup {Head(queue)} /\ queue \in Seq(Urls)
      /\ recorded' = recorded /\ main' = main /\ dropped' = dropped
      /\ stopped' = stopped /\ main # "done"
  BY DEF PopNode, TypeOK
<1>2. Queued \subseteq Queued' \cup {Head(queue)}
  BY <1>1, QueuedTail DEF PopNode
<1>3. \A v \in Workers :
         pc'[v] = "record" => pc[v] = "record" /\ link'[v] = link[v]
  BY DEF PopNode, TypeOK
<1> QED BY <1>1, <1>2, <1>3 DEF RecordInv, RecordedIsQueued

LEMMA FetchTypeOK ==
  ASSUME IInv, NEW w \in Workers, Fetch(w)
  PROVE  TypeOK'
<1>1. link[w] \in Urls /\ <<>> \in Seq(Links)
  BY SeqFacts DEF TypeOK
<1>2. Page[link[w]] \in Seq(Links)
  BY <1>1
<1>3. todo' \in [Workers -> Seq(Links)]
  <2>1. PICK links \in StalePages \cup {<<>>, Page[link[w]]} :
           todo' = [todo EXCEPT ![w] = links]
    BY DEF Fetch
  <2>2. links \in Seq(Links)
    BY <1>1, <1>2, <2>1, Zenon
  <2> QED BY <2>1, <2>2 DEF TypeOK
<1>4. pc' \in [Workers -> PCs]
  BY DEF Fetch, TypeOK, PCs
<1> QED BY <1>3, <1>4 DEF TypeOK, Fetch

LEMMA SkipLinkTypeOK ==
  ASSUME IInv, NEW w \in Workers, SkipLink(w)
  PROVE  TypeOK'
<1>1. todo' \in [Workers -> Seq(Links)]
  BY LinkType DEF SkipLink, NextLink, TypeOK
<1>2. pc' \in [Workers -> PCs]
  BY DEF SkipLink, TypeOK, PCs
<1> QED BY <1>1, <1>2 DEF TypeOK, SkipLink

LEMMA ReadViewType ==
  ASSUME TypeOK, NEW w \in Workers,
         \E v \in {NoView, Sees(w)} : view' = [view EXCEPT ![w] = v]
  PROVE  view' \in [Workers -> Views]
<1>1. PICK v \in {NoView, Sees(w)} : view' = [view EXCEPT ![w] = v]
  OBVIOUS
<1>2. Sees(w) \in Views
  BY DEF Sees, TypeOK, Views
<1>3. v \in Views
  BY <1>2, NoViewType
<1> QED BY <1>1, <1>3 DEF TypeOK

LEMMA CheckLinkTypeOK ==
  ASSUME IInv, NEW w \in Workers, CheckLink(w)
  PROVE  TypeOK'
<1>1. link' \in [Workers -> Urls]
  BY LinkType DEF CheckLink, TypeOK
<1>2. todo' \in [Workers -> Seq(Links)]
  <2>1. todo' = [todo EXCEPT ![w] = Tail(todo[w])] \/ todo' = todo
    BY DEF CheckLink, NextLink
  <2>2. Tail(todo[w]) \in Seq(Links)
    BY LinkType DEF CheckLink
  <2> QED BY <2>1, <2>2 DEF TypeOK
<1>3. pc' \in [Workers -> PCs]
  BY DEF CheckLink, TypeOK, PCs
<1>4. view' \in [Workers -> Views]
  BY ReadViewType DEF CheckLink
<1> QED BY <1>1, <1>2, <1>3, <1>4 DEF TypeOK, CheckLink

LEMMA FaultType ==
  ASSUME TypeOK, Fault \/ UNCHANGED faults
  PROVE  faults' \in 0..MaxFaults
<1>1. faults \in Nat /\ faults <= MaxFaults
  BY DEF TypeOK
<1> QED BY <1>1

LEMMA DBFaultType ==
  ASSUME TypeOK, NEW w \in Workers, NEW u \in Urls, DBFault(w, u)
  PROVE  /\ faults' \in 0..MaxFaults
         /\ failed' \in [Workers -> [Urls -> Nat]]
<1>1. faults' \in 0..MaxFaults
  BY FaultType DEF DBFault
<1>2. failed[w] \in [Urls -> Nat] /\ failed[w][u] + 1 \in Nat
  <2>1. failed[w] \in [Urls -> Nat]
    BY DEF TypeOK
  <2>2. failed[w][u] \in Nat
    BY <2>1
  <2> QED BY <2>1, <2>2
<1>3. failed' \in [Workers -> [Urls -> Nat]]
  BY <1>2 DEF TypeOK, DBFault
<1> QED BY <1>1, <1>3

LEMMA CheckLinkFailsTypeOK ==
  ASSUME IInv, NEW w \in Workers, CheckLinkFails(w)
  PROVE  TypeOK'
<1>1. GetHost(Head(todo[w])) \in Urls
  BY LinkType DEF CheckLinkFails
<1>2. link' \in [Workers -> Urls] /\ pc' \in [Workers -> PCs]
  BY <1>1 DEF CheckLinkFails, TypeOK, PCs
<1>3. /\ faults' \in 0..MaxFaults /\ failed' \in [Workers -> [Urls -> Nat]]
  BY <1>1, DBFaultType DEF CheckLinkFails
<1>4. view' \in [Workers -> Views]
  BY ReadViewType DEF CheckLinkFails
<1> QED BY <1>2, <1>3, <1>4 DEF TypeOK, CheckLinkFails

LEMMA RecordLinkTypeOK ==
  ASSUME IInv, NEW w \in Workers, RecordLink(w)
  PROVE  TypeOK'
<1>1. todo' \in [Workers -> Seq(Links)]
  BY LinkType DEF RecordLink, NextLink, TypeOK, TodoInv
<1>2. pc' \in [Workers -> PCs]
  BY DEF RecordLink, TypeOK, PCs
<1>4. view' \in [Workers -> Views]
  BY NoViewType DEF RecordLink, TypeOK
<1>3. recorded' \in SUBSET Urls
  BY DEF RecordLink, TypeOK
<1> QED BY <1>1, <1>2, <1>3, <1>4 DEF TypeOK, RecordLink

LEMMA AddLinkTypeOK ==
  ASSUME IInv, NEW w \in Workers, AddLink(w)
  PROVE  TypeOK'
<1>1. queue' \in Seq(Urls)
  BY SeqFacts DEF AddLink, TypeOK
<1>2. added[w] \in [Urls -> Nat] /\ added[w][link[w]] + 1 \in Nat
  <2>1. added[w] \in [Urls -> Nat] /\ link[w] \in Urls
    BY DEF TypeOK
  <2>2. added[w][link[w]] \in Nat
    BY <2>1
  <2> QED BY <2>1, <2>2
<1>3. added' \in [Workers -> [Urls -> Nat]]
  BY <1>2 DEF AddLink, TypeOK
<1>4. pc' \in [Workers -> PCs]
  BY DEF AddLink, TypeOK, PCs
<1> QED BY <1>1, <1>3, <1>4 DEF TypeOK, AddLink

LEMMA AddLinkRecord ==
  ASSUME IInv, NEW w \in Workers, AddLink(w)
  PROVE  RecordInv'
<1>1. link[w] \in Urls /\ queue \in Seq(Urls)
  BY DEF TypeOK
<1>2. Queued' = Queued \cup {link[w]}
  BY <1>1, QueuedAppend DEF AddLink
<1>3. /\ recorded' = recorded /\ taken' = taken /\ link' = link
      /\ main' = main /\ dropped' = dropped /\ stopped' = stopped
  BY DEF AddLink
<1>4. \A v \in Workers \ {w} : pc'[v] = pc[v]
  BY DEF AddLink, TypeOK
<1> QED BY <1>2, <1>3, <1>4 DEF RecordInv, RecordedIsQueued

LEMMA AddLinkOnce ==
  ASSUME IInv, NEW w \in Workers, AddLink(w)
  PROVE  OnceInv'
<1> SUFFICES ASSUME NEW v \in Workers, NEW u \in Urls
             PROVE  OnceAt(v, u)'
  BY DEF OnceInv
<1>1. failed' = failed /\ link' = link /\ recorded' = recorded /\ view' = view
  BY DEF AddLink
<1>2. /\ OnceAt(v, u)
      /\ added[v][u] \in Nat /\ failed[v][u] \in Nat
  BY DEF OnceInv, TypeOK
<1>3. CASE v = w /\ u = link[w]
  <2>1. pc[v] = "add" /\ pc'[v] = "record" /\ added'[v][u] = added[v][u] + 1
    BY <1>3 DEF AddLink, TypeOK
  <2> QED BY <1>1, <1>2, <1>3, <2>1
<1>4. CASE ~(v = w /\ u = link[w])
  <2>1. added'[v][u] = added[v][u]
    BY <1>4 DEF AddLink, TypeOK
  <2>2. pc'[v] = pc[v] \/ (pc[v] = "add" /\ pc'[v] = "record" /\ u # link[v])
    BY <1>4 DEF AddLink, TypeOK
  <2> QED BY <1>1, <1>2, <2>1, <2>2
<1> QED BY <1>3, <1>4

LEMMA CheckLinkOnce ==
  ASSUME IInv, NEW w \in Workers, CheckLink(w)
  PROVE  OnceInv'
<1>1. PICK x \in Urls :
        /\ link' = [link EXCEPT ![w] = x]
        /\ x \notin Sees(w) \/ pc'[w] = "links"
  BY LinkType DEF CheckLink, TypeOK
<1>2. /\ failed' = failed /\ added' = added /\ recorded' = recorded
      /\ view'[w] \in {NoView, Sees(w)}
      /\ pc[w] = "links" /\ pc'[w] \in {"links", "add"}
  BY DEF CheckLink, TypeOK
<1>3. \A v \in Workers \ {w} :
         pc'[v] = pc[v] /\ link'[v] = link[v] /\ view'[v] = view[v]
  BY <1>1 DEF CheckLink, TypeOK
<1> SUFFICES ASSUME NEW u \in Urls
             PROVE  /\ pc'[w] = "add" /\ link'[w] = u
                       => added[w][u] <= failed[w][u]
                    /\ added[w][u] > failed[w][u]
                       => /\ u \in recorded
                          /\ view'[w] # NoView => u \in view'[w]
  BY <1>2, <1>3 DEF OnceInv
<1>4. /\ added[w][u] > failed[w][u] => u \in Sees(w)
      /\ added[w][u] > failed[w][u] => u \in recorded
      /\ added[w][u] \in Nat /\ failed[w][u] \in Nat
  BY <1>2 DEF OnceInv, Sees, TypeOK
<1>5. link'[w] = x
  BY <1>1 DEF TypeOK
<1> QED BY <1>1, <1>2, <1>4, <1>5

LEMMA CheckLinkFailsOnce ==
  ASSUME IInv, NEW w \in Workers, CheckLinkFails(w)
  PROVE  OnceInv'
<1>1. PICK x \in Urls : link' = [link EXCEPT ![w] = x] /\ DBFault(w, x)
  BY LinkType DEF CheckLinkFails
<1>2. /\ added' = added /\ recorded' = recorded
      /\ pc[w] = "links" /\ pc'[w] = "add"
  BY DEF CheckLinkFails, TypeOK
<1>3. \A v \in Workers, u \in Urls :
         added[v][u] \in Nat /\ failed[v][u] \in Nat
  BY DEF TypeOK
<1>4. \A v \in Workers, u \in Urls :
         failed'[v][u] =
           IF v = w /\ u = x THEN failed[v][u] + 1 ELSE failed[v][u]
  BY <1>1 DEF DBFault, TypeOK
<1>5. view'[w] \in {NoView, Sees(w)} /\ link'[w] = x
  BY <1>1 DEF CheckLinkFails, TypeOK
<1>6. \A v \in Workers \ {w} :
         pc'[v] = pc[v] /\ link'[v] = link[v] /\ view'[v] = view[v]
  BY <1>1 DEF CheckLinkFails, TypeOK
<1> SUFFICES ASSUME NEW v \in Workers, NEW u \in Urls
             PROVE  OnceAt(v, u)'
  BY <1>2 DEF OnceInv
<1>9. /\ OnceAt(v, u)
      /\ added[v][u] \in Nat /\ failed[v][u] \in Nat
  BY DEF OnceInv, TypeOK
<1>7. CASE v = w
  <2>1. CASE u = x
    <3>1. failed'[v][u] = failed[v][u] + 1
      BY <1>4, <1>7, <2>1
    <3> QED BY <1>2, <1>5, <1>7, <1>9, <2>1, <3>1 DEF Sees
  <2>2. CASE u # x
    <3>1. failed'[v][u] = failed[v][u]
      BY <1>4, <1>7, <2>2
    <3> QED BY <1>2, <1>5, <1>7, <1>9, <2>2, <3>1 DEF Sees
  <2> QED BY <2>1, <2>2
<1>8. CASE v # w
  BY <1>2, <1>4, <1>6, <1>8, <1>9
<1> QED BY <1>7, <1>8

LEMMA RecordLinkFailsOnce ==
  ASSUME IInv, NEW w \in Workers, RecordLinkFails(w)
  PROVE  OnceInv'
<1>1. /\ added' = added /\ recorded' = recorded /\ link' = link
      /\ pc[w] = "record" /\ pc'[w] = "links" /\ DBFault(w, link[w])
  BY DEF RecordLinkFails, TypeOK
<1>3. \A v \in Workers, u \in Urls :
         added[v][u] \in Nat /\ failed[v][u] \in Nat
  BY DEF TypeOK
<1>4. \A v \in Workers, u \in Urls :
         failed'[v][u] =
           IF v = w /\ u = link[w] THEN failed[v][u] + 1 ELSE failed[v][u]
  BY <1>1 DEF DBFault, TypeOK
<1>5. view'[w] = NoView
  BY DEF RecordLinkFails, TypeOK
<1>6. \A v \in Workers \ {w} : pc'[v] = pc[v] /\ view'[v] = view[v]
  BY DEF RecordLinkFails, TypeOK
<1> SUFFICES ASSUME NEW v \in Workers, NEW u \in Urls
             PROVE  OnceAt(v, u)'
  BY <1>1 DEF OnceInv
<1>9. /\ OnceAt(v, u)
      /\ added[v][u] \in Nat /\ failed[v][u] \in Nat
  BY DEF OnceInv, TypeOK
<1>7. CASE v = w
  <2>1. CASE u = link[w]
    <3>1. failed'[v][u] = failed[v][u] + 1
      BY <1>4, <1>7, <2>1
    <3> QED BY <1>1, <1>5, <1>7, <1>9, <2>1, <3>1, SMTT(30)
  <2>2. CASE u # link[w]
    <3>1. failed'[v][u] = failed[v][u]
      BY <1>4, <1>7, <2>2
    <3> QED BY <1>1, <1>5, <1>7, <1>9, <2>2, <3>1
  <2> QED BY <2>1, <2>2
<1>8. CASE v # w
  BY <1>1, <1>4, <1>6, <1>8, <1>9
<1> QED BY <1>7, <1>8

LEMMA RecordLinkFailsTypeOK ==
  ASSUME IInv, NEW w \in Workers, RecordLinkFails(w)
  PROVE  TypeOK'
<1>1. todo' \in [Workers -> Seq(Links)]
  BY LinkType DEF RecordLinkFails, NextLink, TypeOK, TodoInv
<1>2. pc' \in [Workers -> PCs]
  BY DEF RecordLinkFails, TypeOK, PCs
<1>3. /\ faults' \in 0..MaxFaults /\ failed' \in [Workers -> [Urls -> Nat]]
  BY DBFaultType DEF RecordLinkFails, TypeOK
<1>4. view' \in [Workers -> Views]
  BY NoViewType DEF RecordLinkFails, TypeOK
<1> QED BY <1>1, <1>2, <1>3, <1>4 DEF TypeOK, RecordLinkFails

LEMMA InitWebCrawlerQueue ==
  ASSUME IInv, InitWebCrawler
  PROVE  TypeOK' /\ BusyInv' /\ RecordInv'
<1>1. queue \in Seq(Urls) /\ queue' = Append(queue, Root)
  BY DEF TypeOK, InitWebCrawler
<1>2. Queued' = Queued \cup {Root}
  BY <1>1, QueuedAppend
<1>3. queue' \in Seq(Urls)
  BY <1>1, SeqFacts
<1>4. TypeOK'
  BY <1>3 DEF TypeOK, InitWebCrawler
<1>5. BusyInv'
  BY DEF BusyInv, MainInv, InitWebCrawler
<1>6. RecordInv'
  BY <1>2 DEF RecordInv, RecordedIsQueued, InitWebCrawler
<1> QED BY <1>4, <1>5, <1>6

LEMMA TickTypeOK ==
  ASSUME IInv, Tick
  PROVE  TypeOK'
<1>1. \A n \in Nat : Later(n) \in Nat
  BY DEF Later
<1>2. age' \in [Workers -> Nat]
  BY <1>1 DEF Tick, TypeOK
<1>3. slept' \in [Workers -> BOOLEAN]
  BY DEF Tick, TypeOK
<1> QED BY <1>2, <1>3 DEF TypeOK, Tick

LEMMA SameQueueRecord ==
  ASSUME IInv, NEW w \in Workers,
         \/ StartWorker(w) \/ PopNothing(w) \/ Fetch(w) \/ CheckLink(w)
         \/ CheckLinkFails(w) \/ SkipLink(w) \/ RecordLinkFails(w)
  PROVE  RecordInv'
<1>1. /\ queue' = queue /\ recorded' = recorded /\ taken' = taken
      /\ main' = main /\ dropped' = dropped /\ stopped' = stopped
  BY DEF StartWorker, PopNothing, Fetch, CheckLink, CheckLinkFails, SkipLink,
         RecordLinkFails
<1>2. Queued' = Queued
  BY <1>1 DEF Queued
<1>3. \A v \in Workers :
         pc'[v] = "record" => pc[v] = "record" /\ link'[v] = link[v]
  BY DEF StartWorker, PopNothing, Fetch, CheckLink, CheckLinkFails, SkipLink,
         RecordLinkFails, TypeOK
<1> QED BY <1>1, <1>2, <1>3 DEF RecordInv, RecordedIsQueued

LEMMA RecordLinkRecord ==
  ASSUME IInv, NEW w \in Workers, RecordLink(w)
  PROVE  RecordInv'
<1>1. /\ queue' = queue /\ taken' = taken /\ main' = main /\ link' = link
      /\ dropped' = dropped /\ stopped' = stopped
      /\ recorded' = recorded \cup {link[w]} /\ pc[w] = "record"
  BY DEF RecordLink
<1>2. Queued' = Queued
  BY <1>1 DEF Queued
<1>3. \A v \in Workers : pc'[v] = "record" => pc[v] = "record"
  BY DEF RecordLink, TypeOK
<1> QED BY <1>1, <1>2, <1>3 DEF RecordInv, RecordedIsQueued

-----------------------------------------------------------------------------
(* Each action preserves the inductive invariant. *)

LEMMA StartWorkerStep ==
  ASSUME IInv, NEW w \in Workers, StartWorker(w)
  PROVE  IInv'
<1>1. RecordInv'
  BY SameQueueRecord
<1>2. TypeOK'
  <2>1. faults' \in 0..MaxFaults /\ offline' \in SUBSET Workers
    BY FaultType DEF StartWorker, OpenDB, TypeOK
  <2>2. pc' \in [Workers -> PCs]
    BY DEF StartWorker, TypeOK, PCs
  <2> QED BY <2>1, <2>2 DEF StartWorker, TypeOK
<1>3. TodoInv'
  BY DEF StartWorker, TodoInv
<1>4. MainInv'
  BY DEF StartWorker, MainInv, TearDownAlone
<1>5. LateInv'
  BY DEF StartWorker, LateInv
<1>6. BusyInv'
  BY DEF StartWorker, BusyInv
<1>7. OnceInv'
  BY DEF StartWorker, OnceInv
<1> QED BY <1>1, <1>2, <1>3, <1>4, <1>5, <1>6, <1>7

LEMMA LoopCheckStep ==
  ASSUME IInv, NEW w \in Workers, LoopCheck(w)
  PROVE  IInv'
<1>1. TypeOK'
  BY LoopCheckTypeOK
<1>2. TodoInv'
  BY DEF LoopCheck, TodoInv
<1>3. MainInv'
  BY DEF LoopCheck, MainInv, TearDownAlone
<1>4. LateInv'
  BY DEF LoopCheck, LateInv
<1>5. BusyInv'
  BY DEF LoopCheck, BusyInv
<1>6. RecordInv'
  <2>1. Queued' = Queued
    BY DEF LoopCheck, Queued
  <2>2. \A v \in Workers : pc'[v] = "record" => pc[v] = "record"
    BY DEF LoopCheck, TypeOK
  <2>3. /\ main' = main /\ stopped' = stopped /\ link' = link
        /\ recorded' = recorded /\ taken' = taken /\ dropped' = dropped
    BY DEF LoopCheck
  <2> QED BY <2>1, <2>2, <2>3 DEF RecordInv, RecordedIsQueued
<1>7. OnceInv'
  BY DEF LoopCheck, CloseDB, TypeOK, OnceInv
<1> QED BY <1>1, <1>2, <1>3, <1>4, <1>5, <1>6, <1>7

LEMMA PopNodeStep ==
  ASSUME IInv, NEW w \in Workers, PopNode(w)
  PROVE  IInv'
<1>1. TypeOK'
  BY PopNodeTypeOK
<1>2. LateInv'
  BY PopNodeLate
<1>3. RecordInv'
  BY PopNodeRecord
<1>4. TodoInv'
  BY DEF PopNode, TodoInv
<1>5. MainInv'
  BY DEF PopNode, MainInv, TearDownAlone
<1>6. BusyInv'
  BY DEF PopNode, BusyInv
<1>7. OnceInv'
  BY DEF PopNode, OnceInv
<1> QED BY <1>1, <1>2, <1>3, <1>4, <1>5, <1>6, <1>7

LEMMA PopNothingStep ==
  ASSUME IInv, NEW w \in Workers, PopNothing(w)
  PROVE  IInv'
<1>1. RecordInv'
  BY SameQueueRecord
<1>2. TypeOK'
  BY DEF PopNothing, TypeOK, PCs
<1>3. TodoInv'
  BY DEF PopNothing, TodoInv
<1>4. MainInv'
  BY DEF PopNothing, MainInv, TearDownAlone
<1>5. LateInv'
  BY DEF PopNothing, LateInv
<1>6. BusyInv'
  BY DEF PopNothing, BusyInv
<1>7. OnceInv'
  BY DEF PopNothing, OnceInv
<1> QED BY <1>1, <1>2, <1>3, <1>4, <1>5, <1>6, <1>7

LEMMA WakeStep ==
  ASSUME IInv, NEW w \in Workers, Wake(w)
  PROVE  IInv'
<1>1. TypeOK'
  BY WakeTypeOK
<1>2. TodoInv'
  BY DEF Wake, TodoInv
<1>3. MainInv'
  BY DEF Wake, MainInv, TearDownAlone
<1>4. LateInv'
  BY DEF Wake, LateInv
<1>5. BusyInv'
  BY DEF Wake, BusyInv
<1>6. RecordInv'
  <2>1. Queued' = Queued
    BY DEF Wake, Queued
  <2>2. \A v \in Workers : pc'[v] = "record" => pc[v] = "record"
    BY DEF Wake, TypeOK
  <2>3. /\ main' = main /\ stopped' = stopped /\ link' = link
        /\ recorded' = recorded /\ taken' = taken /\ dropped' = dropped
    BY DEF Wake
  <2> QED BY <2>1, <2>2, <2>3 DEF RecordInv, RecordedIsQueued
<1>7. OnceInv'
  BY DEF Wake, CloseDB, TypeOK, OnceInv
<1> QED BY <1>1, <1>2, <1>3, <1>4, <1>5, <1>6, <1>7

LEMMA FetchStep ==
  ASSUME IInv, NEW w \in Workers, Fetch(w)
  PROVE  IInv'
<1>1. TypeOK'
  BY FetchTypeOK
<1>2. RecordInv'
  BY SameQueueRecord
<1>3. TodoInv'
  BY DEF Fetch, TodoInv
<1>4. MainInv'
  BY DEF Fetch, MainInv, TearDownAlone
<1>5. LateInv'
  BY DEF Fetch, LateInv
<1>6. BusyInv'
  BY DEF Fetch, BusyInv
<1>7. OnceInv'
  BY DEF Fetch, OnceInv
<1> QED BY <1>1, <1>2, <1>3, <1>4, <1>5, <1>6, <1>7

LEMMA SendFailsStep ==
  ASSUME IInv, NEW w \in Workers, SendFails(w)
  PROVE  IInv'
<1>1. TypeOK'
  BY DEF SendFails, TypeOK
<1>2. TodoInv'
  BY DEF SendFails, TodoInv
<1>3. MainInv'
  BY DEF SendFails, MainInv, TearDownAlone
<1>4. LateInv'
  BY DEF SendFails, LateInv
<1>5. BusyInv'
  BY DEF SendFails, BusyInv
<1>6. RecordInv'
  BY DEF SendFails, RecordInv, RecordedIsQueued, Queued, MainInv,
         TearDownAlone
<1>7. OnceInv'
  BY DEF SendFails, OnceInv
<1> QED BY <1>1, <1>2, <1>3, <1>4, <1>5, <1>6, <1>7

LEMMA ReadsPastMappingStep ==
  ASSUME IInv, NEW w \in Workers, ReadsPastMapping(w)
  PROVE  IInv'
<1>1. TypeOK'
  BY DEF ReadsPastMapping, TypeOK
<1>2. TodoInv'
  BY DEF ReadsPastMapping, TodoInv
<1>3. MainInv'
  BY DEF ReadsPastMapping, MainInv, TearDownAlone
<1>4. LateInv'
  BY DEF ReadsPastMapping, LateInv
<1>5. BusyInv'
  BY DEF ReadsPastMapping, BusyInv
<1>6. RecordInv'
  BY DEF ReadsPastMapping, RecordInv, RecordedIsQueued, Queued, MainInv,
         TearDownAlone
<1>7. OnceInv'
  BY DEF ReadsPastMapping, OnceInv
<1> QED BY <1>1, <1>2, <1>3, <1>4, <1>5, <1>6, <1>7

LEMMA SkipLinkStep ==
  ASSUME IInv, NEW w \in Workers, SkipLink(w)
  PROVE  IInv'
<1>1. TypeOK'
  BY SkipLinkTypeOK
<1>2. RecordInv'
  BY SameQueueRecord
<1>3. TodoInv'
  BY DEF SkipLink, NextLink, TodoInv
<1>4. MainInv'
  BY DEF SkipLink, MainInv, TearDownAlone
<1>5. LateInv'
  BY DEF SkipLink, LateInv
<1>6. BusyInv'
  BY DEF SkipLink, BusyInv
<1>7. OnceInv'
  BY DEF SkipLink, OnceInv
<1> QED BY <1>1, <1>2, <1>3, <1>4, <1>5, <1>6, <1>7

LEMMA CheckLinkStep ==
  ASSUME IInv, NEW w \in Workers, CheckLink(w)
  PROVE  IInv'
<1>1. TypeOK'
  BY CheckLinkTypeOK
<1>2. RecordInv'
  BY SameQueueRecord
<1>3. OnceInv'
  BY CheckLinkOnce
<1>4. TodoInv'
  BY DEF CheckLink, NextLink, TypeOK, TodoInv
<1>5. MainInv'
  BY DEF CheckLink, MainInv, TearDownAlone
<1>6. LateInv'
  BY DEF CheckLink, TypeOK, LateInv
<1>7. BusyInv'
  BY DEF CheckLink, TypeOK, BusyInv
<1> QED BY <1>1, <1>2, <1>3, <1>4, <1>5, <1>6, <1>7

LEMMA CheckLinkFailsStep ==
  ASSUME IInv, NEW w \in Workers, CheckLinkFails(w)
  PROVE  IInv'
<1>1. TypeOK'
  BY CheckLinkFailsTypeOK
<1>2. RecordInv'
  BY SameQueueRecord
<1>3. OnceInv'
  BY CheckLinkFailsOnce
<1>4. TodoInv'
  BY DEF CheckLinkFails, TodoInv
<1>5. MainInv'
  BY DEF CheckLinkFails, MainInv, TearDownAlone
<1>6. LateInv'
  BY DEF CheckLinkFails, LateInv
<1>7. BusyInv'
  BY DEF CheckLinkFails, BusyInv
<1> QED BY <1>1, <1>2, <1>3, <1>4, <1>5, <1>6, <1>7

LEMMA AddLinkStep ==
  ASSUME IInv, NEW w \in Workers, AddLink(w)
  PROVE  IInv'
<1>1. TypeOK'
  BY AddLinkTypeOK
<1>2. RecordInv'
  BY AddLinkRecord
<1>3. OnceInv'
  BY AddLinkOnce
<1>4. TodoInv'
  BY DEF AddLink, TodoInv
<1>5. MainInv'
  BY DEF AddLink, MainInv, TearDownAlone
<1>6. LateInv'
  BY DEF AddLink, LateInv
<1>7. BusyInv'
  BY DEF AddLink, TypeOK, BusyInv
<1> QED BY <1>1, <1>2, <1>3, <1>4, <1>5, <1>6, <1>7

LEMMA AddLinkFailsStep ==
  ASSUME IInv, NEW w \in Workers, AddLinkFails(w)
  PROVE  IInv'
<1>1. /\ queue' = queue /\ taken' = taken /\ main' = main /\ link' = link
      /\ recorded' = recorded /\ stopped' = stopped
      /\ dropped' = dropped \cup {link[w]}
      /\ \A v \in Workers \ {w} : pc'[v] = pc[v]
      /\ pc[w] = "add" /\ pc'[w] = "record"
  BY DEF AddLinkFails, TypeOK
<1>2. TypeOK'
  <2>1. pc' \in [Workers -> PCs] /\ link[w] \in Urls
    BY DEF AddLinkFails, TypeOK, PCs
  <2>2. faults' \in 0..MaxFaults
    BY FaultType DEF AddLinkFails
  <2> QED BY <2>1, <2>2 DEF AddLinkFails, TypeOK
<1>3. RecordInv'
  <2>1. Queued' = Queued
    BY <1>1 DEF Queued
  <2> QED BY <1>1, <2>1 DEF RecordInv, RecordedIsQueued
<1>4. OnceInv'
  BY <1>1 DEF AddLinkFails, OnceInv
<1>5. TodoInv'
  BY DEF AddLinkFails, TodoInv
<1>6. MainInv'
  BY DEF AddLinkFails, MainInv, TearDownAlone
<1>7. LateInv'
  BY DEF AddLinkFails, LateInv
<1>8. BusyInv'
  BY DEF AddLinkFails, BusyInv
<1> QED BY <1>2, <1>3, <1>4, <1>5, <1>6, <1>7, <1>8

LEMMA RecordLinkStep ==
  ASSUME IInv, NEW w \in Workers, RecordLink(w)
  PROVE  IInv'
<1>1. TypeOK'
  BY RecordLinkTypeOK
<1>2. RecordInv'
  BY RecordLinkRecord
<1>3. TodoInv'
  BY DEF RecordLink, NextLink, TypeOK, TodoInv
<1>4. MainInv'
  BY DEF RecordLink, MainInv, TearDownAlone
<1>5. LateInv'
  BY DEF RecordLink, LateInv
<1>6. BusyInv'
  BY DEF RecordLink, BusyInv
<1>7. OnceInv'
  BY DEF RecordLink, TypeOK, OnceInv
<1> QED BY <1>1, <1>2, <1>3, <1>4, <1>5, <1>6, <1>7

LEMMA RecordLinkFailsStep ==
  ASSUME IInv, NEW w \in Workers, RecordLinkFails(w)
  PROVE  IInv'
<1>1. TypeOK'
  BY RecordLinkFailsTypeOK
<1>2. RecordInv'
  BY SameQueueRecord
<1>3. OnceInv'
  BY RecordLinkFailsOnce
<1>4. TodoInv'
  BY DEF RecordLinkFails, NextLink, TypeOK, TodoInv
<1>5. MainInv'
  BY DEF RecordLinkFails, MainInv, TearDownAlone
<1>6. LateInv'
  BY DEF RecordLinkFails, LateInv
<1>7. BusyInv'
  BY DEF RecordLinkFails, BusyInv
<1> QED BY <1>1, <1>2, <1>3, <1>4, <1>5, <1>6, <1>7

LEMMA PageDoneStep ==
  ASSUME IInv, NEW w \in Workers, PageDone(w)
  PROVE  IInv'
<1>1. TypeOK'
  BY DEF PageDone, TypeOK, PCs
<1>2. TodoInv'
  BY DEF PageDone, TodoInv
<1>3. MainInv'
  BY DEF PageDone, MainInv, TearDownAlone
<1>4. LateInv'
  BY DEF PageDone, LateInv
<1>5. BusyInv'
  BY DEF PageDone, BusyInv
<1>6. RecordInv'
  BY DEF PageDone, RecordInv, RecordedIsQueued, Queued
<1>7. OnceInv'
  BY DEF PageDone, OnceInv
<1> QED BY <1>1, <1>2, <1>3, <1>4, <1>5, <1>6, <1>7

LEMMA InitWebCrawlerStep ==
  ASSUME IInv, InitWebCrawler
  PROVE  IInv'
<1>1. TypeOK' /\ BusyInv' /\ RecordInv'
  BY InitWebCrawlerQueue
<1>2. TodoInv'
  BY DEF InitWebCrawler, TodoInv
<1>3. MainInv'
  BY DEF InitWebCrawler, MainInv, TearDownAlone
<1>4. LateInv'
  BY DEF InitWebCrawler, LateInv
<1>5. OnceInv'
  BY DEF InitWebCrawler, OnceInv
<1> QED BY <1>1, <1>2, <1>3, <1>4, <1>5

LEMMA InitWebCrawlerFailsStep ==
  ASSUME IInv, InitWebCrawlerFails
  PROVE  IInv'
<1>1. TypeOK'
  <2>1. faults' \in 0..MaxFaults
    BY FaultType DEF InitWebCrawlerFails
  <2> QED BY <2>1 DEF InitWebCrawlerFails, TypeOK
<1>2. TodoInv'
  BY DEF InitWebCrawlerFails, TodoInv
<1>3. MainInv'
  BY DEF InitWebCrawlerFails, MainInv, TearDownAlone
<1>4. LateInv'
  BY DEF InitWebCrawlerFails, LateInv
<1>5. BusyInv'
  BY DEF InitWebCrawlerFails, BusyInv
<1>6. RecordInv'
  <2>1. \A w \in Workers : pc[w] = "unborn"
    BY DEF InitWebCrawlerFails, MainInv
  <2> QED BY <2>1 DEF InitWebCrawlerFails, RecordInv, RecordedIsQueued, Queued
<1>7. OnceInv'
  BY DEF InitWebCrawlerFails, OnceInv
<1> QED BY <1>1, <1>2, <1>3, <1>4, <1>5, <1>6, <1>7

LEMMA JoinAllStep ==
  ASSUME IInv, JoinAll
  PROVE  IInv'
<1>1. TypeOK'
  BY DEF JoinAll, TypeOK
<1>2. TodoInv'
  BY DEF JoinAll, TodoInv
<1>3. MainInv'
  BY DEF JoinAll, MainInv, TearDownAlone
<1>4. LateInv'
  BY DEF JoinAll, LateInv
<1>5. BusyInv'
  BY DEF JoinAll, BusyInv
<1>6. RecordInv'
  BY DEF JoinAll, RecordInv, RecordedIsQueued, Queued
<1>7. OnceInv'
  BY DEF JoinAll, OnceInv
<1> QED BY <1>1, <1>2, <1>3, <1>4, <1>5, <1>6, <1>7

LEMMA DestroyConfigStep ==
  ASSUME IInv, DestroyConfig
  PROVE  IInv'
<1>1. TypeOK'
  BY DEF DestroyConfig, TypeOK
<1>2. TodoInv'
  BY DEF DestroyConfig, TodoInv
<1>3. MainInv'
  BY DEF DestroyConfig, MainInv, TearDownAlone
<1>4. LateInv'
  BY DEF DestroyConfig, LateInv
<1>5. BusyInv'
  BY DEF DestroyConfig, BusyInv
<1>6. RecordInv'
  BY DEF DestroyConfig, RecordInv, RecordedIsQueued, Queued
<1>7. OnceInv'
  BY DEF DestroyConfig, OnceInv
<1> QED BY <1>1, <1>2, <1>3, <1>4, <1>5, <1>6, <1>7

LEMMA QueueExitStep ==
  ASSUME IInv, QueueExit
  PROVE  IInv'
<1>1. TypeOK'
  <2>1. queue' \in Seq(Urls)
    BY DEF QueueExit
  <2> QED BY <2>1 DEF QueueExit, TypeOK
<1>2. TodoInv'
  BY DEF QueueExit, TodoInv
<1>3. MainInv'
  BY DEF QueueExit, MainInv, TearDownAlone
<1>4. LateInv'
  BY DEF QueueExit, LateInv
<1>5. BusyInv'
  BY DEF QueueExit, BusyInv
<1>6. RecordInv'
  <2>1. /\ \A w \in Workers : pc[w] = "exited"
        /\ ~stopped => queue = <<>>
    BY DEF QueueExit, MainInv, TearDownAlone, BusyInv
  <2>2. stopped' = stopped /\ main' = "done" /\ main = "queue_exit"
    BY DEF QueueExit
  <2>3. ~stopped => Queued' = Queued
    BY <2>1 DEF QueueExit, Queued
  <2> QED BY <2>1, <2>2, <2>3 DEF QueueExit, RecordInv, RecordedIsQueued
<1>7. OnceInv'
  BY DEF QueueExit, OnceInv
<1> QED BY <1>1, <1>2, <1>3, <1>4, <1>5, <1>6, <1>7

LEMMA SignalFuncStep ==
  ASSUME IInv, SignalFunc
  PROVE  IInv'
<1>1. TypeOK'
  BY DEF SignalFunc, TypeOK
<1>2. TodoInv'
  BY DEF SignalFunc, TodoInv
<1>3. MainInv'
  BY DEF SignalFunc, MainInv, TearDownAlone
<1>4. LateInv'
  BY DEF SignalFunc, LateInv
<1>5. BusyInv'
  BY DEF SignalFunc, BusyInv
<1>6. RecordInv'
  BY DEF SignalFunc, RecordInv, RecordedIsQueued, Queued
<1>7. OnceInv'
  BY DEF SignalFunc, OnceInv
<1> QED BY <1>1, <1>2, <1>3, <1>4, <1>5, <1>6, <1>7

LEMMA TickStep ==
  ASSUME IInv, Tick
  PROVE  IInv'
<1>1. TypeOK'
  BY TickTypeOK
<1>2. TodoInv'
  BY DEF Tick, TodoInv
<1>3. MainInv'
  BY DEF Tick, MainInv, TearDownAlone
<1>4. LateInv'
  BY DEF Tick, LateInv
<1>5. BusyInv'
  BY DEF Tick, BusyInv
<1>6. RecordInv'
  BY DEF Tick, RecordInv, RecordedIsQueued, Queued
<1>7. OnceInv'
  BY DEF Tick, OnceInv
<1> QED BY <1>1, <1>2, <1>3, <1>4, <1>5, <1>6, <1>7

-----------------------------------------------------------------------------
(* The inductive invariant holds, and with it the properties. *)

LEMMA InitStep ==
  ASSUME Init
  PROVE  IInv
<1>1. TypeOK
  <2>1. queue \in Seq(Urls) /\ todo \in [Workers -> Seq(Links)]
    BY DEF Init
  <2>2. view \in [Workers -> Views]
    BY NoViewType DEF Init
  <2>3. /\ added \in [Workers -> [Urls -> Nat]]
        /\ failed \in [Workers -> [Urls -> Nat]]
        /\ faults \in 0..MaxFaults
    BY DEF Init
  <2>4. /\ main = "init" /\ stopped \in BOOLEAN /\ pc \in [Workers -> PCs]
        /\ link \in [Workers -> Urls] /\ age \in [Workers -> Nat]
        /\ slept \in [Workers -> BOOLEAN] /\ recorded \in SUBSET Urls
        /\ taken \in SUBSET Urls /\ late \in [Workers -> Nat]
        /\ offline \in SUBSET Workers /\ dropped \in SUBSET Urls
    BY DEF Init, PCs
  <2> QED BY <2>1, <2>2, <2>3, <2>4 DEF TypeOK
<1>2. Queued = {}
  BY DEF Init, Queued
<1>3. TodoInv /\ MainInv /\ LateInv /\ BusyInv
  BY DEF Init, TodoInv, MainInv, TearDownAlone, LateInv, BusyInv
<1>4. RecordInv
  BY <1>2 DEF Init, RecordInv, RecordedIsQueued
<1>5. OnceInv
  BY DEF Init, OnceInv
<1> QED BY <1>1, <1>3, <1>4, <1>5

LEMMA NextStep ==
  ASSUME IInv, Next
  PROVE  IInv'
<1>1. ASSUME NEW w \in Workers, Idle(w)
      PROVE  IInv'
  BY <1>1, LoopCheckStep, PopNodeStep, PopNothingStep, WakeStep DEF Idle
<1>2. ASSUME NEW w \in Workers, GetLink(w)
      PROVE  IInv'
  BY <1>2, SkipLinkStep, CheckLinkStep, CheckLinkFailsStep, AddLinkStep,
     AddLinkFailsStep, RecordLinkStep, RecordLinkFailsStep DEF GetLink
<1>3. ASSUME NEW w \in Workers, Worker(w)
      PROVE  IInv'
  BY <1>1, <1>2, <1>3, FetchStep, SendFailsStep, ReadsPastMappingStep,
     PageDoneStep DEF Worker
<1>4. ASSUME MainThread
      PROVE  IInv'
  BY <1>4, InitWebCrawlerStep, InitWebCrawlerFailsStep, JoinAllStep,
     DestroyConfigStep, QueueExitStep, StartWorkerStep DEF MainThread
<1> QED BY <1>3, <1>4, SignalFuncStep, TickStep DEF Next

LEMMA StutterStep ==
  ASSUME IInv, UNCHANGED vars
  PROVE  IInv'
<1>1. TypeOK' /\ TodoInv'
  BY DEF vars, TypeOK, TodoInv
<1>2. MainInv' /\ LateInv' /\ BusyInv'
  BY DEF vars, MainInv, TearDownAlone, LateInv, BusyInv
<1>3. RecordInv'
  BY DEF vars, RecordInv, RecordedIsQueued, Queued
<1>4. OnceInv'
  BY DEF vars, OnceInv
<1> QED BY <1>1, <1>2, <1>3, <1>4

\* IInv holds in every state that any number of workers can reach.
THEOREM Inductive == Spec => []IInv
<1>1. Init => IInv
  BY InitStep
<1>2. IInv /\ [Next]_vars => IInv'
  BY NextStep, StutterStep
<1> QED BY <1>1, <1>2, PTL DEF Spec

\* Every variable keeps a value of its kind.
THEOREM TypeCorrect == Spec => []TypeOK
<1>1. IInv => TypeOK
  OBVIOUS
<1> QED BY <1>1, Inductive, PTL

\* A worker adds a page once, and once more for each failed database call
\* about it, whatever snapshots its transactions read.
THEOREM PagesAddedOnce == Spec => []AddedOnce
<1>1. IInv => AddedOnce
  BY DEF OnceInv, AddedOnce
<1> QED BY <1>1, Inductive, PTL

\* A page recorded by this run has been taken, waits in the queue or had no
\* memory; none is left for queue_exit unless SIGINT came.
THEOREM RecordedPagesQueued == Spec => []RecordedIsQueued
<1>1. IInv => RecordedIsQueued
  BY DEF RecordInv
<1> QED BY <1>1, Inductive, PTL

\* When all workers have left by themselves, the queue is empty.
THEOREM AllPagesTaken == Spec => []NothingLeftBehind
<1>1. IInv => NothingLeftBehind
  BY DEF BusyInv, NothingLeftBehind
<1> QED BY <1>1, Inductive, PTL

\* After SIGINT a worker takes at most one page.
THEOREM SignalStops == Spec => []OneMoreAfterSignal
<1>1. IInv => OneMoreAfterSignal
  BY DEF LateInv, OneMoreAfterSignal
<1> QED BY <1>1, Inductive, PTL

\* main tears the program down alone.
THEOREM MainTearsDownAlone == Spec => []TearDownAlone
<1>1. IInv => TearDownAlone
  BY DEF MainInv
<1> QED BY <1>1, Inductive, PTL
=============================================================================
