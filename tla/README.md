# A verification project for the PPServer crawler

TLA+ models of the crawler under `src/ppserver`, TLC configurations that check
them on small instances, and TLAPS proofs for every size.  The program is a
multi-threaded web crawler: a pool of threads takes pages from one queue,
downloads each of them, looks for links, asks a MySQL database which links are
new, and puts those on the queue.

## 1. The system

| part | source (under `src/ppserver/src`) | state | operations |
|---|---|---|---|
| web queue | `PlatformUtil/encapsulate_queue.cpp`, `include/queue.h` | `g_webQueue`: a TAILQ, its `size`, a spin lock; `FileNumber` | `queue_node_add`, `_push`, `_pop`, `_free`; `queue_exit` drains it without the lock |
| main loop | `mainFrm/MainFrm.cpp` | the run signal, the threads, each with its node, its send buffer and its database connection | `InitWebCrawler`, `pthread_start`, `HandleNodePthread`, `pthread_end`, `signal_func`, teardown |
| download | `mainFrm/MainFrm.cpp` 276-470 | a socket and a page file per worker, in the process's one table of descriptors; the static result of `gethostbyname` | `ConnectWeb`, `SendRequest`, `ReceiveResponse`, `DoOnce` |
| links | `mainFrm/MainFrm.cpp` 113-218, 474-611 | the mapped page and its descriptor | `AnalyzePage`, `GetLink`, `GetHost`, `UrlFilter` |
| crawl records | `UnionDBModual/mysql/DBOperation.cpp` | one MySQL connection per worker, without autocommit | `isNeedToHandle`, `CrawlerRecord`, `OpenDB`, `CloseDB` |
| log | `log/log.cpp` | the open file, its date, a mutex, the title buffer | `Logf`, `GetFileFp` |
| configuration | `config/conf.c`, `config/conf-yaml-loader.c`, `PlatformUtil/Config.cpp` | a tree of named nodes; the values read from it | loading, lookup, removal |
| libyaml's reader | `config/yaml/reader.c`, the read handlers of `api.c` | the raw buffer, the decoded buffer, the encoding, the end of the file | `yaml_parser_update_buffer` and what it calls |
| libyaml's scanner | `config/yaml/scanner.c` | the token queue, the possible simple keys, the indents, the flow level | one `yaml_parser_fetch_...` for each kind of token, `yaml_parser_fetch_more_tokens` |
| scalars and tags | `config/yaml/scanner.c` 2600-2760, 3000-3400 | the value so far, the white space and line breaks that are held back | `yaml_parser_scan_flow_scalar`, `_scan_tag_uri`, `_scan_uri_escapes` |
| libyaml's parser | `config/yaml/parser.c` | the state, a stack of states, a stack of marks, the tag directives | `yaml_parser_parse`: one function for each production |
| helpers | `PlatformUtil/utils.cpp`, `PlatformUtil/tcpSocket.cpp`, `DlApi/dlapi.cpp` | none, or one handle | file, socket and library calls |

The workers share the queue (behind the spin lock), the counter of file names
(unprotected), the log (behind its mutex), the run signal (a volatile int that
the signal handler writes), the table of descriptors, the static struct of
`gethostbyname`, and the database (through separate connections).  `main` loads
the configuration, creates the workers, joins them, and only then destroys what
they share.

What is hard here: the interleavings on the queue's pointers; the three
separate steps *ask, add, record* of a link; snapshots of a transaction that was
left open; a failed database call, whose negative answer reads as "new"; a
connection or an allocation that failed and that nobody asked about; the
idle time-out against a worker that is still adding links; SIGINT between the
loop condition and the take; teardown; static storage behind `localtime` and
`gethostbyname`; a descriptor that is closed twice while other threads open new
ones; a tree whose nodes do not always know their parents; and a result variable
that keeps the value of the key before when a key is missing.  In the parser of
the file: a queue into which a token is inserted at a place that was remembered
many tokens ago; two stacks that have to agree although one kind of sequence
pushes on one of them only; a scanner and a parser that each think that they know
which collection they are in; a file that is cut into pieces anywhere, also within
a character; and a look-ahead that nobody asked the reader for.
`PROJECT.json` lists these hazards at their lines, with the property that
watches each, or the reason why none does yet.

What makes each part correct:

* queue: it is a FIFO queue; a node is in one place; nothing leaks; the lock is
  always given back.
* main loop: no page is lost while the program runs, the workers stop when they
  should and not too early, teardown is done alone, the crawl of a circular web
  ends.
* records: a worker does not add the same page twice.
* log: lines are not mixed, and carry the time at which they were written.
* download: a worker uses descriptors it has opened and nobody else's, none is
  left open but by the early returns, every page ends, the address is the page's.
* configuration: a lookup finds what was loaded or set, siblings have different
  names, removal leaves no dangling pointer, no node is lost, what is set for good
  stays, a field gets the value of its key, and (by the messages of `Config.cpp`,
  which the code does not live up to) a missing required key is an error.
* libyaml: the text is decoded as it is, however it comes in; a token means what
  the whole text says; a remembered place is the place of a token that can be a
  key; the stacks agree; the events are those of well-formed documents, which is
  what the loader relies on; an octet is written only where there is room for it;
  no text is parsed for ever.

## 2. Modules

`FifoQueue` is the abstract specification: a FIFO queue whose put and take
happen at one instant.

`WebQueue` is the queue as programmed, one action per store to shared memory.
A TAILQ `prev` is the address of a pointer, so it is modelled as the owner of
that pointer: a node, or `HEAD`.  `malloc` chooses any block that is not
allocated, so blocks are reused.  `FileNumber++` is two actions (a read and a
store), so two nodes can get one number.  A worker's
work on a page is abstracted to "adds any number of nodes", and leaving the loop
is always allowed: `Crawler` has the reasons.  `content` is a history variable.
It implements `FifoQueue` with `items <- content` and with the node
that a thread has unlinked as its answer.

`Crawler` is the program around the queue: `main`, the worker loop, time, SIGINT,
and the steps of `GetLink`.  Its queue is a sequence with atomic operations, which
is what `WebQueue` was shown to provide.  Each action corresponds to code as
follows:

| action | code |
|---|---|
| `InitWebCrawler`, `StartWorker`, `JoinAll`, `DestroyConfig`, `QueueExit` | `main` and the functions it calls, in that order |
| `OpenDB`, `CloseDB` | the constructor and the destructor of the worker's `CDBOperation`; the result of the first is not looked at, so a worker may be `offline` |
| `InitWebCrawlerFails`, `AddLinkFails` | `queue_node_add` without memory returns NULL, which nobody looks at: the link is recorded all the same |
| `SignalFunc` | `signal_func`; the handler may run in a sleeping worker and cut its sleep short |
| `Tick` | ten seconds pass; every clock moves on |
| `LoopCheck`, `PopNode`, `PopNothing`, `Wake` | the loop of `HandleNodePthread` up to the download |
| `Fetch`, `SendFails` | `DoOnce` and its outcomes: the page, nothing, the file of an earlier run, or `exit(0)` |
| `ReadsPastMapping` | `AnalyzePage` maps one page because `get_file_size` gets a name without its directory; the search may run past it |
| `SkipLink`, `CheckLink`, `CheckLinkFails`, `AddLink`, `RecordLink`, `RecordLinkFails` | one turn of `GetLink` |
| `PageDone` | the end of `HandOneNode`, and `queue_node_free` |

A page is a member of `Urls`, which stands for the triple of host, directory and
page; `GetHost` is modelled by what it does to a link without `http://`, which
leaves three empty strings, the page `NoHost`.  The two stored procedures are not
in the repository, so the database is external: a set of recorded pages, and for
each connection the snapshot it may still read from (`view`).  `mysql_commit` is
called before the result of the query is stored; the client library may refuse
that, so a successful question may leave its transaction open or not.  The
history variables are `added`, `dropped` (the pages that there was no memory for),
`failed`, `taken` and `late`.

`Download` opens up that `Fetch` and the `AnalyzePage` around the links.  Its
core is `fds`, which says what each descriptor number stands for at this moment;
a call on a number acts on that, whoever opened it, and an open gets the lowest
free number.  Its actions are the calls that change something:

| code | actions |
|---|---|
| `queue_node_pop` in the loop | `Take`: the page's number is a new one, or with several workers any earlier one (`Numbers`), because `FileNumber++` is not locked |
| `ConnectWeb` | `Socket`, `SocketFails`, `InetAddr`, `GetHostByName` (fills the static struct) and `CopyAddr` (reads it later), `GetHostFails`, `Connect`, `ConnectFails` |
| `SendRequest` | `Send`, `SendFails` (`exit(0)`) |
| `ReceiveResponse` | `SelectReady`, `SelectTimesOut`, `SelectGivesUp`, `OpenPage`, `OpenPageFails`, `ReadSome`, `ReadEnd`, `ReadFails`, `CreateMark` (its `fopen`), `CreateMarkFails`, `CloseMark` (its `fclose`), `FClose`, `CloseSocket` |
| `AnalyzePage` | `OpenMap`, `OpenMapFails`, `GetLink`, `CloseOnce`, `CloseTwice` |

`DoneOnce` and `PageOver` are the returns of `DoOnce` and of `HandOneNode`, where
their locals go out of scope.  A negative result of `read` becomes the length of
an `fwrite`: the page file is spoiled, or the process dies.  It is also spoiled
when two workers write it at the same time.  `Init` has the files that an
earlier run may have left.  The finish marks are descriptors here and nothing more:
the program never looks for one.  The history variables
are `lost`, the descriptors that an early return forgets, and `hit`, whether a
second close ever closed an open descriptor.

`Log` is `Logf` with `GetFileFp` under the mutex.  `local` and `front_local` are
one variable, `tm`.

`ConfDb` is the abstract specification of the configuration: a database of
parameters, a function from paths to values with a mark "may be set again", and a
backup of it.  `ConfTree` is `conf.c` on its heap: nodes with an ordered list of
children and a parent pointer, `ConfInit`, `ConfGet`, `ConfSet` (`SetExisting`,
`SetNew`), `ConfRemove`, backup, restore and `ConfDeInit`.  It implements `ConfDb`
through `AsDb`, which walks every path.  Callers do not back up a
second tree nor restore over one in use, because the code would drop the other one
unfreed.  The types of `ConfTree`, `CfgInit` and `Log` are part of the invariants
that are proved of them.  The
typed getters (`ConfGetInt` and the like) only convert a value and are left out.

`YamlLoader` is `ConfYamlParse` on top of the same heap: one action per libyaml
event, with the recursion as the variable `stack`.  The events are those of
well-formed streams (`open` is the collections the stream is in), or an error at
any point: `YamlEvents` states that, and `YamlParser` is shown to deliver nothing
else.  So a file may have any number of documents, which one loop reads into one
tree, and a key may be a collection or an alias.  The loader does not know keys from
values there: it reads a collection for a key as it reads any other, and ignores
an alias, so that what follows is out of step.  `NoName` is the return at
`conf-yaml-loader.c` 118 and 179, without memory for the name of an item: the new
node is in no list then, and `leaked` is that node.  A value that cannot be copied
(`strdup` without a look at its result) is not modelled.

Before a file `Prepare` sets parameters of any of `Paths` in the program's name, for
good or not; after it `TearDown` frees the tree.  `meaning` is what the file says, by the rules of YAML; `style`
separates the plain files, of which more is promised, from those in which a key is
spelled with `_` whose parameter is there already, under that spelling or the
other, and from the odd ones: a second document, repeated keys, keys that are no
scalars, aliases, nested sequences, a sequence for a parameter that has others below
it (a preset `a.0` and a file `a: [x]` make two nodes `0`, of which a lookup finds
the preset's), or no mapping at the top.

`CfgInit` is `CConfig::cfg_init`: `getDBConfig`, `getSocketConfig` and
`getSystemConfig` over any tree.  The value of a key is the key's own name, so
a field tells where its value was taken from; `val` is the variable that
`ConfGetChildValue` leaves alone when a key is missing.  A NULL section or value
that the code dereferences ends in "crash".

The modules of libyaml are layers that meet at libyaml's own interfaces: octets,
characters, tokens, events.

`YamlReader` is `yaml_parser_update_buffer` with `_update_raw_buffer` and
`_determine_encoding`.  `doing` is where that function is: in the loop that reads
a byte order mark ("encoding"), before it fills the raw buffer ("fill"), or in the
inner loop ("decode").  `raw` and `buffer` are the octets from the pointer on, and
`raw_start` and `start` count those before it, so that a move to the front is
visible.  The handlers of `yaml_parser_set_input_string` and `_file` fill the room
they are given while there is something left; a generic one gives any number of
octets; a file may also fail.  A file in `Files` is a sequence of octets with what
it means: its encoding, its text, and whether the text ends where the file ends.

`YamlScalar` stands on the reader and turns its characters into the value of one
token: a quoted scalar of either kind, or the URI of a tag.  `Cache` is the macro
of that name and calls the reader for `Asked` characters; every other action looks
only at what is there.  The macros of `yaml_private.h` that classify a character
look at an octet of the buffer at an offset, and so does `Octet`; behind the text
it is `Behind`, which stands for whatever octet is left there from earlier.
`string_size` is the memory that the value has: `Extended` and `Joined` are how
`STRING_EXTEND` and `JOIN` enlarge it before they write.  `ReadUriEscape` writes
without either; behind the end of the memory ("overrun") the program's behaviour is
undefined and the model stops.
`Meaning` defines what a text means without the scanner: by line folding, escapes
and percent-encoding over the whole text.

`YamlScanner` is `yaml_parser_fetch_more_tokens` and the fetchers.  Its variable
`scanner` is a record with the scanner's fields of `yaml_parser_t`; each operator
on it is one C function.  The text is not given in advance: at each step it goes
on with any lexeme of the kind of text that is read, at any column and after any
number of new lines, so a text may be of any length.  A column is its rank among
the columns the text uses, because the code only compares columns.  `inside` is
history: the line began within a scalar or a flow collection.  After an error the
state is reset, because the loader deletes the parser then.

`YamlParser` is `parser.c` over that scanner: `state`, `states`, `marks`, the
node that `yaml_parser_parse_node` is working on, and `pc`, which is where in its
function the parser waits for a token.  An action takes a token that is available
(`Available`) or one the function can do without; `ScannerStep` fetches when it is
not.  `event` is what `yaml_parser_parse` returned.  A document has at most one
named tag handle, defined or not.

`YamlEvents` is the abstract specification of the two: a stream of documents,
each with one tree, in which mappings have a value for each key and every
collection ends.  The parser implements it with `open <- Open`, which reads the
collections off its stack of states.

The modules beginning with `MC` hold the instances; those ending in `Proofs`
hold the theorems.  Operators that begin with "Mutant" in their comment belong to
no specification: they are plausible bugs that the properties are measured
against.

## 3. Runs

| run | instance | what it shows |
|---|---|---|
| `wq_two` | 2 workers, main, 3 nodes, 4 additions | the pointers, the size, the ownership of blocks, the refinement of `FifoQueue`, and that the lock is released |
| `crawl_two` | 2 workers, a page with a link to itself and one to another page, page files of an earlier run, time-out of 1 tick, 1 failed connection, call or allocation, 2 calls about a page without a connection | the safety of the crawler, with signals, send errors, failures and open snapshots, and that the circular crawl ends (1.9 million states) |
| `log_lines` | 2 threads, 2 days of 2 ticks, 3 lines | lines stay whole |
| `log_stamp` | the same | *violated*: the title is not the time |
| `dl_pool` | 2 workers, 3 descriptors, 2 pages, 1 name and 1 address, 1 retry, 1 read | which descriptors leak, whose descriptors are used, and that every page ends (624,070 states) |
| `dl_host` | 2 workers, 2 names | *violated*: the address is another page's |
| `conf_api` | 5 nodes, paths `a`, `a.b`, `b`, 2 values | the tree stays one, loses nothing, and implements `ConfDb` |
| `yaml_load` | 4 nodes, files of up to 9 events, 2 scalars, presets at `a` and `a.0` | in any file: one call for each collection, no node is lost but for an item without a name, what is set for good stays; and plain files are understood (3.7 million states) |
| `text_events` | six kinds of text, of any length, with at most 2 flow collections in each other | the places of simple keys, the blocks, the two stacks, the refinement of `YamlEvents`, and that the end of the text is the end of the parse (301,669 states) |
| `text_assert` | the same | *violated*: the assertion of `yaml_parser_save_simple_key` fails |
| `scalar_text` | 46 short texts in every encoding, and broken ones, with 3 handlers and 3 kinds of token | what is decoded, what a token means, that the buffer suffices and the string but for escapes in a row, and that the scan ends (66,019 states) |
| `cfg_missing` | 10 keys of `conf.yaml`, any of them missing or without a value | *violated*: a missing key is no error |

Bounds and why they are enough.

* `WebQueue`: three nodes give an empty queue, a queue of one (where `tqh_last`
  has to move back) and a queue of two (where it does not) with a node in
  somebody's hands; with four additions a block is freed and used again.  Two
  workers are enough for every race in the code between a worker and "another
  one"; the proofs remove that bound.
* `Crawler`: the page of `MCPage` links to itself, and once each through a
  filtered link and a relative one (in a page file of an earlier run), so every
  branch of `GetLink` is taken.  `TimeOut` is 18 ticks as shipped (180 seconds, ticks of
  `QUEUE_EMPTY_SLEEP` = 10 seconds); with 1 a worker times out while another one
  is at any point of its page, and also sleeps once before it does.  Clocks stop
  counting above `TimeOut`.  One failure of each kind is possible at any moment,
  not two of them in one run; a worker without a connection goes on until it has
  asked `MaxOffline` = 2 times about a page, which lets it add a page and add it
  again.
* `Download`: three descriptors let a worker hold its socket and its page file and
  need a third for the mark, and let two workers compete for the last one, so that
  every open also fails.  Two pages make a number be used again after the second
  close, and its file be written by two workers.  One retry and one read stand for
  ten and for many.  An earlier run has left the files of its first numbers, which
  `OpenMap` finds where a download failed.
* `ConfTree`: five nodes hold a backup and a working tree at the same time; the
  paths have a parent, its child and a sibling.
* `YamlLoader`: nine events are enough for two documents with a mapping each, for
  a collection as a key and for an item of a sequence that is a mapping, and four
  nodes for the tree of each.  They are also enough for a plain file with a mapping
  within a mapping, and for a sequence of two items under a key.  The presets are
  the parameter of a key and an item of its sequence.  `b_c` is a key that the loader
  renames.  The proofs need none of these bounds.
* `CfgInit`: required keys after required ones, optional keys after required and
  after optional ones, and a required key after an optional one, in the order of
  the code.
* `YamlParser`: all lexemes together make the state space too large, so `MCTexts`
  has six kinds: every lexeme in blocks two deep; blocks three deep; flow
  collections within blocks; properties, explicit keys, and nesting within flow
  collections.  Two or three tokens fit into the 1024 characters of a simple key,
  so a key is also given up for its length.  `MaxStates` = 4: no new flow
  collection starts on a larger stack.  It is needed because the parser skips the
  `]` of `[? ]` and so its nesting grows without end while the scanner's does
  not.  The proofs need none of these bounds but the kinds of text.
* `YamlScalar`: a raw buffer of 4 octets, the longest character, makes it end
  within every character and every pair of surrogates.  `MaxLength` = 8 is the
  most that the scanner asks for (the digits of `\U`), and 35 is the smallest
  buffer that `YamlReaderAssumption` then allows; the shipped sizes, 16384 and
  three times that, satisfy the same assumption.  `InitialStringSize` is the
  code's 16, and some texts are long enough to reach the end of the string with
  plain characters, blanks, a character of four octets, or escapes: just as many
  as fit, and one more.

`MaxFile`, `MaxFaults`, `MaxOffline`, `MaxLines`, `LastTick`, `MaxPages`, `MaxChunks`,
`MaxEvents`, `MaxStates` and the `columns`, `flows` and `key` of `Texts` bound
counters and nesting that the code does not bound.  Symmetry is used in
`conf_api` and `yaml_load`, over heap blocks and values, and never
together with a liveness property.  Deadlock is not checked, because every one of
these systems really stops: when `main` returns, when the process has ended, when
there are no more pages, when nobody logs, when the file or the text has been read, or, in
`ConfTree`, when the heap of the instance is used up and nothing is called any
more.

Fairness.  `Crawler`: `main`, the clock and every worker go on when they can
(weak fairness; POSIX threads are scheduled).  That a worker in `Fetch` goes on
assumes that a server which has begun to answer ends its answer: `ReceiveResponse`
has a time-out before the first byte and none after it.  SIGINT and failures are
not fair: nothing forces them.  `Terminates` has as its exception a worker without
a connection, for which every link is new.  `Download`: each worker goes on with the page it
has, on the same assumption, here the bound `MaxChunks`; `Take` is not fair.
`PageEnds` therefore says that no wait of the code is endless by itself, and it
makes an exception for the process that died and for a worker whose descriptor a
second close took away, which may read from a bad number for ever.  `YamlParser`
and `YamlScalar` are sequential and go on: `ConfYamlParse` asks for events in a
loop until the end of the stream or an error, and the scanner's functions run to
their end.  That the text ends is an assumption of `Finishes` and not of the
fairness.  `WebQueue`: fairness of `main`, and of each worker
inside push or pop, which is what a scheduled thread does there; none for adding
or leaving.  A spin lock promises no order, and no property here needs one:
`LockReleased` says that the holder gives the lock back, not that a given waiter
gets it.

What the violated runs say.

* `StampIsTheTime` (`log_stamp`).  The comment at `log.cpp:121` calls the title the
  time.  The second `localtime` overwrites the storage of the first, so every line
  carries the time at which the file was opened, and the comparison of the days is
  always equal, so the file of the next day is never opened.
* `RightHost` (`dl_host`).  The comment at `MainFrm.cpp:298` says that the address
  is found from the host.  `gethostbyname` answers in a struct that all threads
  share, and line 315 reads it later: after another worker's call it holds the
  other page's address.
* `MissingKeyIsError` (`cfg_missing`).  The message at `Config.cpp:95` says that a
  missing `DBUser` is an error, and so do those of the keys after it.
  `ConfGetChildValue` returns without a write (`conf.c:231`), `val` still is the
  value of the host, so `cfg_init` succeeds and the user is named like the host.
  Only the first key of a section is looked for as the messages say.  `FieldsRead`
  says what holds instead.
* `AssertionHolds` (`text_assert`).  The comment at `scanner.c:1108` says that a
  required simple key is always allowed, and line 1113 asserts that.  A quoted
  scalar or a flow collection that ends at the first columns of a line, such as in
  ` k: [a,` / `]x: 1`, makes the assertion fail.  That nothing else does is proved
  (`AssertAccounted`).

`ScannedAsMeant` makes two exceptions.  One has no line of the repository against
it: an escaped line break that is a CR LF at the end of what is cached.  The scanner
skips it without asking for what follows (`scanner.c:3276`) and then decides by an
octet that is not part of the text.  The other is the escapes of a tag's name.  Line
2713, under "Copy the octet and move the pointers", stores an octet without the
`STRING_EXTEND` of `READ`: after sixteen escapes in a row, or five behind eleven
other characters, the string is full, there is no 0 behind the value, and the next
octet is written elsewhere.  The property says that nothing but five escapes in a
row, at the least, can do that.

Three more disagreements of the code with its comments were found while it was
modelled, and no run shows them:

* `conf.c:445` says that a node is removed and freed.  It is unlinked through its
  parent pointer (`conf.c:450`), which the loader never sets (`Loaded`): a node that
  came from a file is freed and stays in its parent's list.  `conf_api` is of nodes
  that `ConfSet` has made, which are removed rightly.  The program itself removes
  no node.
* By the grammar at `parser.c:1008` the node of a key in brackets may be left out.
  Then line 1030 skips the token behind it (`ParsePairKey`), which no other empty
  node does: `[? : a]` is refused, and `[? ]` read without its end, while `{? : a}`
  is read.
* `utils.cpp:232` says that the mark tells which files may be uploaded.  `FileNumber`
  begins at 0 in each run and no mark is ever removed, so a page file with the mark
  of an earlier run is opened for writing and filled beside it; and a new mark is
  created (`MainFrm.cpp:444`) before the `fclose` that writes the rest of the file.

## 4. Proofs

`WebQueueProofs`, for any number of workers and nodes and any `MaxFile`: type
correctness, mutual exclusion, `WellLinked`, `SizeIsLength`, `OnePlace`,
`NothingLeaked`, and that `WebQueue` implements `FifoQueue`.  The inductive
invariant adds to the checked properties what holds *inside* a critical section:
the forward chain is right after every store (the abstract queue changes at
exactly the store that links a node in or out), `tqh_last` and the `prev` links
are right except for the one a half-finished insert or remove has not set yet,
and the lock's holder is the only thread between lock and unlock.  Main's part
outside of the lock is safe because every worker has left by then, and that no
node waits in main's hands before.  The refinement follows step by step: one
store each is a `Put` or a `Take`, reading a NULL head is a `Miss`, and the rest
stutters.

`CrawlerProofs`, for any set of workers, any web, any time-out and any number of
failures of connections, calls and allocations: type correctness, `AddedOnce`, `RecordedIsQueued`, `NothingLeftBehind`,
`OneMoreAfterSignal` and `TearDownAlone`.  Why the strengthenings are needed:

* `BusyInv` for `NothingLeftBehind`: while a page waits and there was no signal,
  some worker is neither asleep nor gone.  An addition is made by such a worker,
  and a worker falls asleep only on an empty queue.
* `OnceInv` for `AddedOnce`: once a worker has added a page without a failure to
  account for it, the page is in the database and in the snapshot that worker may
  read, because the insert ends its transaction.
* `RecordInv` for `RecordedIsQueued`: the page about to be recorded has already
  been added, or there was no memory for it; and when `main` drains the queue
  without a signal there is nothing in it.
* `LateInv` for `OneMoreAfterSignal`: only a worker that has passed the loop
  condition before the signal may still take a page.

`DownloadProofs`, for any number of workers, hosts, descriptors, pages and
retries: type correctness, `OpenIsAccounted` and `OwnDescriptor`; and for one
worker that the second close never meets an open descriptor
(`OneWorkerNeverHits`) and that `RightHost` holds (`OneWorkerRight`), so that both
hazards are of several threads only.  The argument for `OwnDescriptor`: a number
that an open gives out was free, so what the others hold is untouched.  A first
close closes what its own worker opened, which is nobody else's: the table says
who opened a number, also when two workers have the same page file.  A second
close either finds the number free, and changes nothing, or sets `hit`.

`LogProofs`, for any number of threads, days and lines: `LinesWhole`.  The
invariant says who is within the mutex and which half of whose line is the last in
the file; a title can only be followed by the text of the thread that holds the
mutex.

`YamlParserProofs`, in its second part, for any kinds of text: `KeysPointAtStarts`
of the scanner, and `AssertAccounted`, that the assertion which `text_assert` sees fail
does so only on a line that began inside of something.  The inductive invariant `Good` says of a scanner's record:

* `InPlace`: a possible key's place is in the queue and its token can be a key,
  the keys of outer levels are before those of inner ones.  It has to hold after
  each insertion: `RollIndent` and `KEY` go in at the place of the innermost key,
  which is behind the places of all outer keys; what the parser takes away moves
  all places down by one, and it takes no token that a key may still point at.
* `Ahead`: outside of flow collections the text stands further to the right than
  its block unless a simple key may start there.  Together with the first
  character of a line this is why the assertion holds: `required` means *at* the
  column of the block.  A line that began inside of a scalar or a flow collection
  is what `Ahead` does not hold of, and so `inside` is its exception.

Each operator of the scanner is shown to keep `Good` (the relation `Keeps`), and
then each fetcher is a chain of operators.  That the columns, keys and blocks that
`Max` chooses exist is proved from well-foundedness of the natural numbers.

There `BlocksAgree` is proved too (`BlocksInStep`), which relates two stacks
that no code ever compares.  `Balance` of a scanner is the number of its indents
without those whose start token is still in the queue, and with those whose end
token is.  Every fetcher keeps it (`Even`): a column is pushed or popped only
together with a token, wherever in the queue that token is inserted.  The invariant
`BlocksInv` says that it is `Depth`, the number of block collections that the
states of the parser have entered, and that the start token of a collection is
still at the head when the first call in it begins (`StartAhead`); without the
second part the invariant is not inductive, because the first call takes its token
without a look at it.  A step of the parser either takes a start or an end together
with the change of state that counts it, or no such token at all (`QuietStep`).
Counting in a queue is counting places, so that what was put in or taken away is
found with cardinalities.

The first part, over that scanner, is for any kinds of text and any `MaxStates`:
that each function finds on the stack the state it expects (`StacksInStep`), and
that there is exactly one mark for each collection that needs one
(`MarksFollowStates`), so that `POP` never reads in front of a stack.  The
invariant relates the height of the stack to each mark: a mark is the height at
which its collection's state lies, heights grow, and the sequence that pushes no
mark also pops none.

The same module proves that the parser implements `YamlEvents`
(`EventsWellFormed`): whatever the text and however deep its nesting, the events
are a stream of documents with one tree each, and a mapping has pairs.  The
abstract `open` is a mapping of the parser's stack: each state on it stands for
the constructs that it returns into (`Below`), and the current state for its own
(`Frames`).  `NodeReturns` strengthens the stack invariant: the state in which a
node is parsed returns to one that has one more node in its construct, and behind
the root node of a document waits `DOCUMENT-END` and nothing else.  With it
a node, an empty node, a collection's start (push) and end (pop) and the begin and
end of a document each map to one event, and every other step stutters.  The
stack of constructs is a flattened sequence; that it grows and shrinks with the
parser's stack is proved from the least place at which it would not.

`ConfigProofs`, for any heap, any prefix-closed set of parameters and any
values: `NoDangling`, `ParentsAgree`, `SiblingsDiffer` and `NothingLost`.  The
invariant `ConfInv` adds to the first three the types, that a root is in nobody's
list and that the two trees are two, and `Reached`: every set of nodes that has
the roots and the children of its members has all nodes.  `Subtree` is the least
such set below one node, so that what `ConfNodeFree` frees by recursion needs no
induction here: if `S` is closed after a removal, `S` and the freed nodes were
closed before it.  That a root is in nobody's list keeps the root of the
other tree, and with it that tree, out of what is freed.  A walk along a path (`Find`), the
known part of a path and the chain of new nodes are handled by the least place at
which they would go wrong.

On that structure rests the proof that `ConfTree` implements `ConfDb`
(`Refinement`).  A *way* is a sequence of nodes that spells a path, each in the
list of the one before.  A lookup finds a node exactly if a way leads to it
(`FindsWays`, because siblings have different names), and no node has two paths
(`Unambiguous`, because a node is in one list, once).  So a call changes the
lookups of only those paths whose ways it touches: a removal takes the paths that
begin with the removed one and no other, a set that makes nodes adds just the
beginnings of its path that were missing, and what the backup holds keeps its
ways while the tree in use changes.  Each call of `conf.c` is then one step of the
database.

Over the same tree the loader, for any well-formed stream of events (any number of
documents, any nodes as keys, any depth of nesting) that ends anywhere, with presets
at any of `Paths`, whose tokens are as many as one likes: `OneCallEach`, `AllInTree`
and `SetForGood`.  Its invariant `LoaderInv`
says that the tree is whole and that what the loader itself made for an item of a
sequence may be set again (`LoadNode`), that the nodes the open calls work on are
alive (`FramesAlive`), and that the calls follow the collections of the file
(`FramesFollow`: one call for the stream and the document in it, and one for each
collection, which knows whether it is a sequence).  `SetForGood` needs
`LoadNode`: the one value that the loader writes without asking for
`allow_override` is the first key of a mapping in a sequence, which becomes the
value of the item, and such an item is a node that the loader made itself.

That a plain file is understood (`PlainFileUnderstood`) rests on a map `at` from
paths to nodes.  `Mapped` says that the map is a part of the tree: the root is at
the empty path, and a node at a longer one is the first of its name among the
children of the node at the path without the last token, so that a lookup of a
mapped path finds its node (`MapFinds`).  `Said` says that each path with a meaning
is mapped, to a node which has that value or is one that was set for good.  What relates the
calls of the loader to the collections of the file, while it is read, is `Reading`:

* each call works on the node at the path of its collection, and no two calls on
  one node (`FramesRead`);
* in a sequence the items so far are counted alike on both sides, and the children
  have the names of items that came before (`ItemsRead`), so that the next item's
  name is new;
* in a mapping every child is a key that was there, or, at the top, a preset that
  the file has not come to (`KeysRead`, `Unread`), so that a key that is new to the
  file either makes a node or takes over a preset, and never another key's node;
* between a key and its value the call waits for a value exactly when the
  collection does, and the node of the key is still bare (`KeyPending`).

The last point is why a file in which an alias is ignored, or a sequence is read
into its parent, is not plain: there the two sides come out of step.  `ReadInv` is
inductive together with `LoaderInv`.  The proof found a case that the model had
counted among the plain ones and no run contained: a preset whose name has `_` and
a key in the *same* spelling.  The loader looks that spelling up, so the value goes
to a node with that name, while a new node would have the mangled one, under which
the file's parameters are found otherwise.

`YamlScalarProofs`, for any files, cut anywhere, and any sizes that
`YamlReaderAssumption` allows: `BufferFits` (`BufferNeverOverrun`).  The reader
writes into its buffer without a check; that there is room follows from three
facts.  A character that is left has at most four octets, and the inner loop is
entered with fewer characters than were asked for (`Filling`).  Two octets of the
raw buffer become three of the buffer at most, which is UTF-16's worst case, so
that `2 * Len(buffer) + 3 * Len(raw)` never grows while it decodes.  And
there is one NUL.  The invariant therefore has to know the buffer as a sequence of
whole characters (`Characters`: where each ends), which the scanner preserves only
because it takes whole ones; it must also know that at the end of the text the
last one is the NUL (`NulIsThere`), since behind the NUL the scanner would take an
octet that is none.  The same invariant gives `CharactersCounted`.  `RawInOrder` is
the part of `TextFaithful` about octets: those in the raw buffer are the file's
next ones.

`CfgInitProofs`, for any lists of keys in which no key is read twice (`KeysOnce`, a
hypothesis of the theorem and not an assumption of the module):
`FieldsRead` (`PresentKeysRead`), which is proved only: the run of `CfgInit` is the
violated one.  The invariant `CfgInv` says what `val` points to between two
reads (the value of the last key of this function's section that the tree had),
which keys have been read, and that the fields of the others have their default.

The assumptions are `WebQueueAssumption`, `CrawlerAssumption`,
`DownloadAssumption`, `LogAssumption`, `YamlScannerAssumption`,
`ConfTreeAssumption` with `NullAssumption`, `LoaderAssumption`, `TextAssumption`,
`YamlReaderAssumption` and `YamlScalarAssumption`: the
constants are of their kinds, the special values are not nodes, threads, hosts or
numbers, a beginning of a parameter's path is a path, a name without `_` stays as
it is, two numbers make two names, and the reader's buffer
has room for the longest look-ahead behind what the raw buffer decodes to, a
look-ahead of 8 included.  `OneWorkerNeverHits` and `OneWorkerRight`
assume that there is one worker.

Only model-checked: liveness (`LockReleased`, `Terminates`, `PageEnds`,
`Finishes`, `ScanEnds`), which is out of the prover's reach; and of `YamlScalar`
`TextFaithful` and `ScannedAsMeant`, which compare what was read with folds over a
whole text and need induction over it.

## 5. Not modelled, and the plan

Not modelled: libyaml's emitter, dumper, writer and document loader, and the part
of `api.c` that serves them (the program never writes YAML and never loads a
document as a tree); the Oracle layer and the code under `#if 0` (not built);
`CTcpSocket`, `DlApi` and the thread-specific variables, which the crawler does
not call or which have no operations of their own; SQL dumps, makefiles, and the
test programs.  `queue_node_copy` and the inotify helpers have no caller.

Of libyaml's parser: errors for lack of memory are left out; the values of plain
and block scalars, which are read with the same macros as quoted ones, are modelled by
their lines only; the numbers in a `%YAML` directive are "1.1" or another; marks
(the positions for error messages) appear only as places of the stack.  The tag
URI is scanned without the `head` that its caller may hand over, which is copied
in front.

Also left out: the content of pages and links
beyond what `GetLink` decides by, and the stored procedures of the database, of
which only the answers are used.

Some behaviours are in the models and are recorded among the hazards of
`PROJECT.json` without a property of their own: two workers that get one file
number from `FileNumber++`; a worker that leaves after its first empty pop because
its last page took longer than the time-out (`survival_time` is set when a page is
taken, not when it is finished); pages that are recorded and dropped at the exit; and
a preset whose name has `_`, which a file cannot override.

Done: the queue, the crawler, the log, the download, the configuration, and the
reading half of libyaml.  Next, in this order:

1. `Restart`: several runs of the crawler over one database and one output
   directory: which pages no run will ever fetch, and which page files an earlier
   run leaves to be analysed as if they were new.
2. `DBSession`: connect, reconnect, and the results that a call leaves pending on
   a connection; the crawler's `view` derived from it.
3. A composition of `Crawler` with the pointers of `WebQueue` in the place of its
   sequence, and of `Download` as an implementation of `Fetch`.
4. `DlApi` and `TcpSocket`: handles that are given back, partial reads.
5. Proofs: the safety half of the termination of the crawl, a bound on the number
   of additions; and the invariant of `YamlScalarProofs` with the value of each
   character in it, for the buffer's half of `TextFaithful`.
