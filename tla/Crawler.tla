------------------------------- MODULE Crawler -------------------------------
(***************************************************************************)
(* The life of the crawler: main sets the queue up, starts the workers,    *)
(* joins them and tears the program down; a worker takes a page from the   *)
(* queue, downloads it, and for every link of it asks the database whether *)
(* the page is new, adds it to the queue and records it, three separate    *)
(* steps.  SIGINT asks the workers to stop; an idle worker leaves by       *)
(* itself; a failed send, or a read past the mapping, ends the process.    *)
(* A worker may be without a connection, a database call may fail, and     *)
(* there may be no memory for a node: the program goes on all the same.    *)
(*                                                                         *)
(* The queue is one FIFO sequence with atomic operations: WebQueue shows   *)
(* that the programmed queue is one.  Time is a coarse clock.              *)
(***************************************************************************)
EXTENDS Naturals, Sequences

CONSTANTS
    Workers,      \* the threads of HandleNodePthread, MaxConnNum of them
    Urls,         \* the pages, as (host, dir, page) after GetHost
    Root,         \* the page the crawl starts from
    NoHost,       \* what GetHost leaves of a link without "http://"
    Relative,     \* links without "http://"
    Filtered,     \* links that are empty or match UrlFilter
    Page,         \* the links of each page, in their order
    StalePages,   \* the links of page files an earlier run has left
    Known,        \* the pages an earlier run has recorded
    TimeOut,      \* GConfig->timeOut, in ticks of the clock
    MaxFaults,    \* bound: connections, database calls, allocations that fail
    MaxOffline    \* bound: calls about a page of a worker not connected

Links == Urls \cup Relative \cup Filtered

ASSUME CrawlerAssumption ==
    /\ Workers # {}
    /\ Root \in Urls /\ NoHost \in Urls
    /\ Page \in [Urls -> Seq(Links)]
    /\ StalePages \subseteq Seq(Links)
    /\ Known \subseteq Urls
    /\ TimeOut \in Nat
    /\ MaxFaults \in Nat /\ MaxOffline \in Nat

VARIABLES
    main,         \* where main is, or "dead": the process called exit
    stopped,      \* g_upload_run_signal is NEWIUP_FAIL
    queue,        \* g_webQueue
    pc,           \* where each worker is
    todo,         \* the links of its page still to be looked at
    link,         \* the link GetLink is at, as a page
    age,          \* ticks since the worker set survival_time
    slept,        \* the sleep of an idle worker is over
    recorded,     \* the pages the database knows
    view,         \* the snapshot a worker's open transaction reads from
    offline,      \* the workers whose OpenDB failed
    faults,       \* what failed by itself, against MaxFaults
    added,        \* history: pages each worker added to the queue
    dropped,      \* history: pages there was no memory for
    failed,       \* history: failed calls of each worker about a page
    taken,        \* history: pages some worker took from the queue
    late          \* history: pages a worker took after the signal

clock    == <<age, slept>>
database == <<recorded, view, offline, faults, failed>>
outcome  == <<added, dropped>>
vars == <<main, stopped, queue, pc, todo, link, age, slept, recorded, view,
          offline, faults, added, dropped, failed, taken, late>>

PCs == {"unborn", "loop", "pop", "sleep", "fetch", "links", "add", "record",
        "exited"}

NoView == {"no transaction"}    \* no set of pages
Views  == {NoView} \cup SUBSET Urls

Queued == {queue[i] : i \in DOMAIN queue}

Alive == main \notin {"done", "dead"}

-----------------------------------------------------------------------------
Init ==
    /\ main = "init"
    /\ stopped = FALSE
    /\ queue = <<>>
    /\ pc = [w \in Workers |-> "unborn"]
    /\ todo = [w \in Workers |-> <<>>]
    /\ link = [w \in Workers |-> Root]
    /\ age = [w \in Workers |-> 0]
    /\ slept = [w \in Workers |-> FALSE]
    /\ recorded = Known
    /\ view = [w \in Workers |-> NoView]
    /\ offline = {}
    /\ faults = 0
    /\ dropped = {}
    /\ added = [w \in Workers |-> [u \in Urls |-> 0]]
    /\ failed = [w \in Workers |-> [u \in Urls |-> 0]]
    /\ taken = {}
    /\ late = [w \in Workers |-> 0]

Goto(w, from, to) ==
    /\ Alive
    /\ pc[w] = from
    /\ pc' = [pc EXCEPT ![w] = to]

MainGoto(from, to) ==
    /\ main = from
    /\ main' = to

-----------------------------------------------------------------------------
(* main *)

\* The root page is added but not recorded.
InitWebCrawler ==
    /\ MainGoto("init", "start")
    /\ queue' = Append(queue, Root)
    /\ UNCHANGED <<stopped, pc, todo, link, clock, database, outcome, taken,
                   late>>

\* Something that may fail at any time does so.
Fault ==
    /\ faults < MaxFaults
    /\ faults' = faults + 1

\* There is no memory for the node of the root page: nobody looks at that.
InitWebCrawlerFails ==
    /\ MainGoto("init", "start")
    /\ Fault
    /\ dropped' = dropped \cup {Root}
    /\ UNCHANGED <<stopped, queue, pc, todo, link, clock, recorded, view,
                   offline, added, failed, taken, late>>

\* The constructor of CDBOperation does not look at the result of OpenDB: a
\* worker without a connection works on, and every call of it fails.
OpenDB(w) ==
    \/ UNCHANGED <<offline, faults>>
    \/ Fault /\ offline' = offline \cup {w}

\* One turn of the loop of pthread_start; the new thread reads the clock and
\* makes its CDBOperation.
StartWorker(w) ==
    /\ main = "start"
    /\ Goto(w, "unborn", "loop")
    /\ age' = [age EXCEPT ![w] = 0]
    /\ OpenDB(w)
    /\ UNCHANGED <<main, stopped, queue, todo, link, slept, recorded, view,
                   outcome, failed, taken, late>>

\* Mutant: the loop of pthread_end ends after one join.
JoinOne ==
    /\ \E w \in Workers : pc[w] = "exited"
    /\ MainGoto("start", "joined")
    /\ UNCHANGED <<stopped, queue, pc, todo, link, clock, database, outcome,
                   taken, late>>

JoinAll ==                       \* pthread_end
    /\ \A w \in Workers : pc[w] = "exited"
    /\ MainGoto("start", "joined")
    /\ UNCHANGED <<stopped, queue, pc, todo, link, clock, database, outcome,
                   taken, late>>

DestroyConfig ==                 \* GConfig->Destory, and the thread keys
    /\ MainGoto("joined", "queue_exit")
    /\ UNCHANGED <<stopped, queue, pc, todo, link, clock, database, outcome,
                   taken, late>>

QueueExit ==                     \* what is left is dropped
    /\ MainGoto("queue_exit", "done")
    /\ queue' = <<>>
    /\ UNCHANGED <<stopped, pc, todo, link, clock, database, outcome, taken,
                   late>>

\* SIGINT, at any time; it may cut the sleep of the thread that handles it.
SignalFunc ==
    /\ Alive
    /\ stopped' = TRUE
    /\ \/ UNCHANGED slept
       \/ \E w \in Workers : /\ pc[w] = "sleep"
                             /\ slept' = [slept EXCEPT ![w] = TRUE]
    /\ UNCHANGED <<main, queue, pc, todo, link, age, database, outcome, taken,
                   late>>

-----------------------------------------------------------------------------
(* Time.  A tick is the ten seconds of QUEUE_EMPTY_SLEEP: the clocks of    *)
(* all workers advance, up to a value beyond every comparison.             *)

Later(n) == IF n > TimeOut THEN n ELSE n + 1

Tick ==
    /\ Alive
    /\ age' = [w \in Workers |-> Later(age[w])]
    /\ slept' = [w \in Workers |-> slept[w] \/ pc[w] = "sleep"]
    /\ UNCHANGED <<main, stopped, queue, pc, todo, link, database, outcome,
                   taken, late>>

-----------------------------------------------------------------------------
(* The loop of a worker *)

\* Mutants of the loop: "while(1)", and the time-out as a loop condition.
LoopForever(w) ==
    /\ Goto(w, "loop", "pop")
    /\ UNCHANGED <<main, stopped, queue, todo, link, clock, database, outcome,
                   taken, late>>

LoopTimed(w) ==
    /\ Goto(w, "loop", IF age[w] > TimeOut THEN "exited" ELSE "pop")
    /\ UNCHANGED <<main, stopped, queue, todo, link, clock, database, outcome,
                   taken, late>>

\* The end of the thread: the connection is closed after a commit.
CloseDB(w) == view' = [view EXCEPT ![w] = NoView]

\* The loop condition.
LoopCheck(w) ==
    /\ Goto(w, "loop", IF stopped THEN "exited" ELSE "pop")
    /\ IF stopped THEN CloseDB(w) ELSE UNCHANGED view
    /\ UNCHANGED <<main, stopped, queue, todo, link, clock, recorded, offline,
                   faults, outcome, failed, taken, late>>

PopNode(w) ==
    /\ queue # <<>>
    /\ Goto(w, "pop", "fetch")
    /\ queue' = Tail(queue)
    /\ age' = [age EXCEPT ![w] = 0]
    /\ link' = [link EXCEPT ![w] = Head(queue)]
    /\ taken' = taken \cup {Head(queue)}
    /\ late' = IF stopped THEN [late EXCEPT ![w] = @ + 1] ELSE late
    /\ UNCHANGED <<main, stopped, todo, slept, database, outcome>>

PopNothing(w) ==
    /\ queue = <<>>
    /\ Goto(w, "pop", "sleep")
    /\ slept' = [slept EXCEPT ![w] = FALSE]
    /\ UNCHANGED <<main, stopped, queue, todo, link, age, database, outcome,
                   taken, late>>

\* Mutant: the idle time is not looked at.
WakeAlways(w) ==
    /\ slept[w]
    /\ Goto(w, "sleep", "loop")
    /\ UNCHANGED <<main, stopped, queue, todo, link, clock, database, outcome,
                   taken, late>>

\* After the sleep: the test of termination_time.
Wake(w) ==
    /\ slept[w]
    /\ Goto(w, "sleep", IF age[w] > TimeOut THEN "exited" ELSE "loop")
    /\ IF age[w] > TimeOut THEN CloseDB(w) ELSE UNCHANGED view
    /\ UNCHANGED <<main, stopped, queue, todo, link, clock, recorded, offline,
                   faults, outcome, failed, taken, late>>

\* DoOnce and the opening of the page file in AnalyzePage.  A download that
\* fails leaves no file to analyse, or the file of an earlier run.
Fetch(w) ==
    /\ Goto(w, "fetch", "links")
    /\ \E links \in StalePages \cup {<<>>} \cup
            (IF link[w] = NoHost THEN {} ELSE {Page[link[w]]}) :
          todo' = [todo EXCEPT ![w] = links]
    /\ UNCHANGED <<main, stopped, queue, link, clock, database, outcome, taken,
                   late>>

\* A send error calls exit(0), whatever the other threads are doing.
SendFails(w) ==
    /\ Alive
    /\ pc[w] = "fetch"
    /\ link[w] # NoHost
    /\ main' = "dead"
    /\ UNCHANGED <<stopped, queue, pc, todo, link, clock, database, outcome,
                   taken, late>>

\* AnalyzePage asks the size of the file under a name without its directory,
\* gets 0 and maps one page: the search for a link, or for the end of one,
\* may run off the mapping, which kills the process.
ReadsPastMapping(w) ==
    /\ Alive
    /\ pc[w] = "links"
    /\ main' = "dead"
    /\ UNCHANGED <<stopped, queue, pc, todo, link, clock, database, outcome,
                   taken, late>>

-----------------------------------------------------------------------------
(* GetLink: one link after the other *)

\* Mutant: a link without "http://" is taken for a page.
GetHostRaw(l) == l

GetHost(l) == IF l \in Relative THEN NoHost ELSE l

NextLink(w) == todo' = [todo EXCEPT ![w] = Tail(todo[w])]

SkipLink(w) ==                   \* UrlFilter
    /\ Goto(w, "links", "links")
    /\ todo[w] # <<>>
    /\ Head(todo[w]) \in Filtered
    /\ NextLink(w)
    /\ UNCHANGED <<main, stopped, queue, link, clock, database, outcome, taken,
                   late>>

\* What the connection of w reads: its own snapshot if a transaction is open.
Sees(w) == IF view[w] = NoView THEN recorded ELSE view[w]

\* isNeedToHandle answers.  mysql_query_get_res commits while the result is
\* still to be read, which the client library refuses: the transaction may
\* stay open with its snapshot.
CheckLink(w) ==
    /\ pc[w] = "links" /\ w \notin offline
    /\ todo[w] # <<>>
    /\ Head(todo[w]) \notin Filtered
    /\ LET u == GetHost(Head(todo[w]))
       IN  /\ link' = [link EXCEPT ![w] = u]
           /\ \/ /\ u \in Sees(w)
                 /\ Goto(w, "links", "links")
                 /\ NextLink(w)
              \/ /\ u \notin Sees(w)
                 /\ Goto(w, "links", "add")
                 /\ UNCHANGED todo
    /\ \E v \in {NoView, Sees(w)} : view' = [view EXCEPT ![w] = v]
    /\ UNCHANGED <<main, stopped, queue, clock, recorded, offline, faults,
                   outcome, failed, taken, late>>

\* A failed call is counted against the page it was about; without a
\* connection every call fails.
DBFault(w, u) ==
    /\ \/ w \notin offline /\ Fault
       \/ w \in offline /\ failed[w][u] < MaxOffline /\ UNCHANGED faults
    /\ failed' = [failed EXCEPT ![w][u] = @ + 1]

\* isNeedToHandle fails: a negative value, which means "to be handled".  A
\* failed query is rolled back; a missing result may leave its transaction.
CheckLinkFails(w) ==
    /\ todo[w] # <<>>
    /\ Head(todo[w]) \notin Filtered
    /\ Goto(w, "links", "add")
    /\ link' = [link EXCEPT ![w] = GetHost(Head(todo[w]))]
    /\ DBFault(w, GetHost(Head(todo[w])))
    /\ \E v \in {NoView, Sees(w)} : view' = [view EXCEPT ![w] = v]
    /\ UNCHANGED <<main, stopped, queue, todo, clock, recorded, offline,
                   outcome, taken, late>>

\* Mutant: the node is made but not pushed.
AddLinkNoPush(w) ==
    /\ Goto(w, "add", "record")
    /\ added' = [added EXCEPT ![w][link[w]] = @ + 1]
    /\ UNCHANGED <<main, stopped, queue, todo, link, clock, database, dropped,
                   taken, late>>

AddLink(w) ==                    \* queue_node_add
    /\ Goto(w, "add", "record")
    /\ queue' = Append(queue, link[w])
    /\ added' = [added EXCEPT ![w][link[w]] = @ + 1]
    /\ UNCHANGED <<main, stopped, todo, link, clock, database, dropped, taken,
                   late>>

\* queue_node_add has no memory and returns NULL: GetLink does not look at
\* the result and goes on to record the page.
AddLinkFails(w) ==
    /\ Goto(w, "add", "record")
    /\ Fault
    /\ dropped' = dropped \cup {link[w]}
    /\ UNCHANGED <<main, stopped, queue, todo, link, clock, recorded, view,
                   offline, added, failed, taken, late>>

\* Mutant: the insert leaves the reading transaction open.
RecordLinkNoCommit(w) ==
    /\ w \notin offline
    /\ Goto(w, "record", "links")
    /\ NextLink(w)
    /\ recorded' = recorded \cup {link[w]}
    /\ UNCHANGED <<main, stopped, queue, link, clock, view, offline, faults,
                   outcome, failed, taken, late>>

RecordLink(w) ==                 \* CrawlerRecord, committed
    /\ w \notin offline
    /\ Goto(w, "record", "links")
    /\ NextLink(w)
    /\ recorded' = recorded \cup {link[w]}
    /\ view' = [view EXCEPT ![w] = NoView]
    /\ UNCHANGED <<main, stopped, queue, link, clock, offline, faults, outcome,
                   failed, taken, late>>

RecordLinkFails(w) ==            \* rolled back; nobody looks at the result
    /\ Goto(w, "record", "links")
    /\ NextLink(w)
    /\ DBFault(w, link[w])
    /\ view' = [view EXCEPT ![w] = NoView]
    /\ UNCHANGED <<main, stopped, queue, link, clock, recorded, offline,
                   outcome, taken, late>>

\* No link is left: the node is freed, whatever became of the page.
PageDone(w) ==
    /\ todo[w] = <<>>
    /\ Goto(w, "links", "loop")
    /\ UNCHANGED <<main, stopped, queue, todo, link, age, slept, database,
                   outcome, taken, late>>

-----------------------------------------------------------------------------
Idle(w)    == LoopCheck(w) \/ PopNode(w) \/ PopNothing(w) \/ Wake(w)
GetLink(w) == \/ SkipLink(w) \/ CheckLink(w) \/ CheckLinkFails(w)
              \/ AddLink(w) \/ AddLinkFails(w)
              \/ RecordLink(w) \/ RecordLinkFails(w)

Worker(w) ==
    \/ Idle(w) \/ Fetch(w) \/ SendFails(w)
    \/ ReadsPastMapping(w) \/ GetLink(w) \/ PageDone(w)

MainThread ==
    \/ InitWebCrawler \/ InitWebCrawlerFails \/ JoinAll
    \/ DestroyConfig \/ QueueExit
    \/ \E w \in Workers : StartWorker(w)

Next == MainThread \/ SignalFunc \/ Tick \/ \E w \in Workers : Worker(w)

\* The threads are scheduled and time passes.  That a worker in Fetch goes
\* on assumes of the outside that every server ends its answer.
Fairness ==
    /\ WF_vars(MainThread)
    /\ WF_vars(Tick)
    /\ \A w \in Workers : WF_vars(Worker(w))

Spec == Init /\ [][Next]_vars /\ Fairness

-----------------------------------------------------------------------------
(* Properties *)

\* Every variable holds a value of its kind.
TypeOK ==
    /\ main \in {"init", "start", "joined", "queue_exit", "done", "dead"}
    /\ stopped \in BOOLEAN
    /\ queue \in Seq(Urls)
    /\ pc \in [Workers -> PCs]
    /\ todo \in [Workers -> Seq(Links)]
    /\ link \in [Workers -> Urls]
    /\ age \in [Workers -> Nat]
    /\ slept \in [Workers -> BOOLEAN]
    /\ recorded \in SUBSET Urls
    /\ view \in [Workers -> Views]
    /\ offline \in SUBSET Workers
    /\ faults \in 0..MaxFaults
    /\ added \in [Workers -> [Urls -> Nat]]
    /\ dropped \in SUBSET Urls
    /\ failed \in [Workers -> [Urls -> Nat]]
    /\ taken \in SUBSET Urls
    /\ late \in [Workers -> Nat]

\* A worker adds a page once, and once more for each database call about it
\* that failed: the check-then-add race can make every worker add the page,
\* and a stale snapshot cannot make one of them add it again.
AddedOnce ==
    \A w \in Workers, u \in Urls : added[w][u] <= 1 + failed[w][u]

\* A page this run recorded in the database, which nobody will add again,
\* has been taken by a worker, waits in the queue, or is one that there was no
\* memory for when it was to be added.  At the end of the program none is left
\* in the queue for queue_exit to drop, unless SIGINT has stopped the workers.
RecordedIsQueued ==
    main # "dead" /\ ~(main = "done" /\ stopped) =>
        recorded \subseteq Known \cup taken \cup Queued \cup dropped

\* When all workers have left by themselves, no page is left behind: the
\* last of them found the queue empty after the last link was added.
NothingLeftBehind ==
    (\A w \in Workers : pc[w] = "exited") /\ ~stopped => queue = <<>>

\* After SIGINT a worker takes at most the one page it was about to take.
OneMoreAfterSignal == \A w \in Workers : late[w] <= 1

\* main destroys the configuration, deletes the thread keys and empties the
\* queue without the lock, so no worker may be left.
TearDownAlone ==
    main \in {"joined", "queue_exit", "done"} =>
        \A w \in Workers : pc[w] = "exited"

\* The crawl ends, links in circles or not, if every worker has a connection
\* and only finitely many database calls fail: without the database every
\* link counts as "to be handled".
Terminates == <>(~Alive \/ offline # {})

=============================================================================
