------------------------------ MODULE Download ------------------------------
(***************************************************************************)
(* One page after the other, as each worker downloads and maps it: DoOnce  *)
(* (ConnectWeb, SendRequest, ReceiveResponse) and AnalyzePage, over what   *)
(* all threads of the process share: the table of file descriptors and the *)
(* static result of gethostbyname.  The queue before and the links after   *)
(* are in Crawler, whose step Fetch this module opens up.                  *)
(*                                                                         *)
(* A descriptor is a number; what it stands for is what the table says at  *)
(* the moment of the call, whoever opened it.                              *)
(***************************************************************************)
EXTENDS Naturals

CONSTANTS Workers,
          Hosts,       \* the hosts of pages
          Numeric,     \* those that isIPValid takes for an address
          Descs,       \* the numbers the process may still open
          None,        \* no host, no descriptor
          Retries,     \* the 10 of "retry++ < 10"
          MaxPages,    \* bound: the pages of a run
          MaxChunks    \* bound: the reads that one answer needs

ASSUME DownloadAssumption ==
    /\ Numeric \subseteq Hosts
    /\ Descs \subseteq Nat
    /\ None \notin Hosts \cup Descs
    /\ Retries \in Nat /\ MaxPages \in Nat /\ MaxChunks \in Nat

Free  == <<"free">>              \* a number that is not open
Files == 0..MaxPages             \* the numbers of the page files

VARIABLES
    alive,        \* the process runs
    fds,          \* the descriptor table
    hostent,      \* the static struct behind gethostbyname
    disk,         \* the page files
    FileNumber,   \* the pages taken, and the next number nobody has had
    pc,           \* where each worker is
    host, file,   \* its page
    addr,         \* server_addr.sin_addr
    sockfd, localfp,       \* the descriptors behind its locals
    fd,           \* and the one of create_file, later of AnalyzePage
    retry, chunks,
    lost,         \* history: descriptors nobody will close on purpose
    hit           \* history: a second close closed an open descriptor

page  == <<host, file, FileNumber>>
local == <<addr, sockfd, localfp, fd, retry, chunks>>
vars  == <<alive, fds, hostent, disk, FileNumber, pc, host, file,
           addr, sockfd, localfp, fd, retry, chunks, lost, hit>>

\* What a number stands for: a socket, a page file that is written or
\* mapped, a finish mark; and who has opened it.
Sock(w)     == <<"socket", w>>
Write(w, f) == <<"write", w, f>>
Read(w, f)  == <<"read", w, f>>
Mark(w)     == <<"mark", w>>
Sockets  == {Sock(w) : w \in Workers}
Mapped   == {Read(w, f) : w \in Workers, f \in Files}
Writable == Sockets \cup {Write(w, f) : w \in Workers, f \in Files}
                    \cup {Mark(w) : w \in Workers}
Readable == Sockets \cup Mapped
Objects  == {Free} \cup Writable \cup Mapped

Writes(d, f) == \E w \in Workers : fds[d] = Write(w, f)

-----------------------------------------------------------------------------
\* The first page files of an earlier run may be there.
Init ==
    /\ alive = TRUE
    /\ fds = [d \in Descs |-> Free]
    /\ hostent = None
    /\ disk \in {[f \in Files |-> IF f < n THEN "whole" ELSE "absent"] :
                     n \in Files}
    /\ FileNumber = 0
    /\ pc = [w \in Workers |-> "idle"]
    /\ host = [w \in Workers |-> None]
    /\ file = [w \in Workers |-> 0]
    /\ addr = [w \in Workers |-> None]
    /\ sockfd = [w \in Workers |-> None]
    /\ localfp = [w \in Workers |-> None]
    /\ fd = [w \in Workers |-> None]
    /\ retry = [w \in Workers |-> 0]
    /\ chunks = [w \in Workers |-> 0]
    /\ lost = {}
    /\ hit = FALSE

Goto(w, from, to) ==
    /\ alive
    /\ pc[w] = from
    /\ pc' = [pc EXCEPT ![w] = to]

\* The kernel gives the lowest free number.
Opens(d, object) ==
    /\ fds[d] = Free
    /\ \A e \in Descs : e < d => fds[e] # Free
    /\ fds' = [fds EXCEPT ![d] = object]

\* close: what the number stands for now is closed, whoever opened it.
Close(d) == fds' = [fds EXCEPT ![d] = Free]

Lose(d) == lost' = lost \cup {d}

\* DoOnce returns, early or not, and its locals are gone.
DoneOnce(w, from) ==
    /\ Goto(w, from, "analyze")
    /\ addr' = [addr EXCEPT ![w] = None]
    /\ sockfd' = [sockfd EXCEPT ![w] = None]
    /\ localfp' = [localfp EXCEPT ![w] = None]
    /\ retry' = [retry EXCEPT ![w] = 0]
    /\ chunks' = [chunks EXCEPT ![w] = 0]

Dies(w, at) ==
    /\ alive
    /\ pc[w] = at
    /\ alive' = FALSE
    /\ UNCHANGED <<fds, hostent, disk, pc, page, local, lost, hit>>

\* FileNumber++ is not locked: an addition that another thread overwrites
\* sets the counter back, and numbers are given again.  One worker alone
\* counts on.
Numbers == IF \A v, w \in Workers : v = w THEN {FileNumber}
           ELSE 0..FileNumber

\* A worker takes a page of some host from the queue.
Take(w) ==
    /\ FileNumber < MaxPages
    /\ Goto(w, "idle", "socket")
    /\ \E h \in Hosts : host' = [host EXCEPT ![w] = h]
    /\ \E f \in Numbers : file' = [file EXCEPT ![w] = f]
    /\ FileNumber' = FileNumber + 1
    /\ UNCHANGED <<alive, fds, hostent, disk, local, lost, hit>>

-----------------------------------------------------------------------------
(* ConnectWeb *)

Socket(w) ==
    /\ Goto(w, "socket", "resolve")
    /\ \E d \in Descs :
          /\ Opens(d, Sock(w))
          /\ sockfd' = [sockfd EXCEPT ![w] = d]
          /\ lost' = lost \ {d}
    /\ UNCHANGED <<alive, hostent, disk, page, addr, localfp, fd,
                   retry, chunks, hit>>

SocketFails(w) ==
    /\ DoneOnce(w, "socket")
    /\ UNCHANGED <<alive, fds, hostent, disk, page, fd, lost, hit>>

InetAddr(w) ==                   \* isIPValid; inet_addr
    /\ host[w] \in Numeric
    /\ Goto(w, "resolve", "connect")
    /\ addr' = [addr EXCEPT ![w] = host[w]]
    /\ UNCHANGED <<alive, fds, hostent, disk, page, sockfd, localfp,
                   fd, retry, chunks, lost, hit>>

GetHostByName(w) ==              \* fills the static struct
    /\ host[w] \notin Numeric
    /\ Goto(w, "resolve", "copy")
    /\ hostent' = host[w]
    /\ UNCHANGED <<alive, fds, disk, page, local, lost, hit>>

GetHostFails(w) ==               \* returns without closing the socket
    /\ host[w] \notin Numeric
    /\ DoneOnce(w, "resolve")
    /\ Lose(sockfd[w])
    /\ UNCHANGED <<alive, fds, hostent, disk, page, fd, hit>>

CopyAddr(w) ==                   \* sin_addr = *host_ent->h_addr
    /\ Goto(w, "copy", "connect")
    /\ addr' = [addr EXCEPT ![w] = hostent]
    /\ UNCHANGED <<alive, fds, hostent, disk, page, sockfd, localfp,
                   fd, retry, chunks, lost, hit>>

\* A number that is not a socket any more cannot be connected.
Connect(w) ==
    /\ Goto(w, "connect", "send")
    /\ fds[sockfd[w]] \in Sockets
    /\ UNCHANGED <<alive, fds, hostent, disk, page, local, lost, hit>>

\* Mutant: a connect that fails returns without closing the socket.
ConnectFailsKeeps(w) ==
    /\ DoneOnce(w, "connect")
    /\ UNCHANGED <<alive, fds, hostent, disk, page, fd, lost, hit>>

ConnectFails(w) ==
    /\ DoneOnce(w, "connect")
    /\ Close(sockfd[w])
    /\ UNCHANGED <<alive, hostent, disk, page, fd, lost, hit>>

-----------------------------------------------------------------------------
(* SendRequest *)

\* The request goes where the number leads, and be it into a page file.
Send(w) ==
    /\ Goto(w, "send", "select")
    /\ fds[sockfd[w]] \in Writable
    /\ disk' = [f \in Files |-> IF Writes(sockfd[w], f)
                               THEN "spoiled" ELSE disk[f]]
    /\ retry' = [retry EXCEPT ![w] = 0]
    /\ chunks' = [chunks EXCEPT ![w] = 0]
    /\ UNCHANGED <<alive, fds, hostent, page, addr, sockfd, localfp,
                   fd, lost, hit>>

SendFails(w) == Dies(w, "send")  \* exit(0)

-----------------------------------------------------------------------------
(* ReceiveResponse *)

SelectReady(w) ==
    /\ Goto(w, "select", "fopen")
    /\ fds[sockfd[w]] # Free
    /\ UNCHANGED <<alive, fds, hostent, disk, page, local, lost, hit>>

\* Mutant: the retries are not counted.
SelectTriesOn(w) ==
    /\ Goto(w, "select", "select")
    /\ retry' = [retry EXCEPT ![w] = (@ + 1) % 2]
    /\ UNCHANGED <<alive, fds, hostent, disk, page, addr, sockfd,
                   localfp, fd, chunks, lost, hit>>

\* Mutant: the retries are counted one too far.
SelectOnceMore(w) ==
    /\ retry[w] <= Retries
    /\ Goto(w, "select", "select")
    /\ retry' = [retry EXCEPT ![w] = @ + 1]
    /\ UNCHANGED <<alive, fds, hostent, disk, page, addr, sockfd,
                   localfp, fd, chunks, lost, hit>>

SelectTimesOut(w) ==             \* ten seconds without an answer: once more
    /\ retry[w] < Retries
    /\ Goto(w, "select", "select")
    /\ retry' = [retry EXCEPT ![w] = @ + 1]
    /\ UNCHANGED <<alive, fds, hostent, disk, page, addr, sockfd,
                   localfp, fd, chunks, lost, hit>>

\* The last time-out, or an error of select: the socket stays open.
SelectGivesUp(w) ==
    /\ DoneOnce(w, "select")
    /\ Lose(sockfd[w])
    /\ UNCHANGED <<alive, fds, hostent, disk, page, fd, hit>>

\* fopen(fileName, "w"); two that write one file overwrite each other.
OpenPage(w) ==
    /\ Goto(w, "fopen", "read")
    /\ \E d \in Descs :
          /\ Opens(d, Write(w, file[w]))
          /\ localfp' = [localfp EXCEPT ![w] = d]
          /\ lost' = lost \ {d}
    /\ disk' = [disk EXCEPT ![file[w]] =
                  IF \E d \in Descs : Writes(d, file[w]) THEN "spoiled"
                  ELSE "open"]
    /\ UNCHANGED <<alive, hostent, page, addr, sockfd, fd, retry,
                   chunks, hit>>

OpenPageFails(w) ==              \* the socket stays open
    /\ DoneOnce(w, "fopen")
    /\ Lose(sockfd[w])
    /\ UNCHANGED <<alive, fds, hostent, disk, page, fd, hit>>

ReadSome(w) ==
    /\ Goto(w, "read", "read")
    /\ fds[sockfd[w]] \in Readable
    /\ chunks[w] < MaxChunks
    /\ chunks' = [chunks EXCEPT ![w] = @ + 1]
    /\ UNCHANGED <<alive, fds, hostent, disk, page, addr, sockfd,
                   localfp, fd, retry, lost, hit>>

ReadEnd(w) ==                    \* read returns 0
    /\ Goto(w, "read", "mark")
    /\ fds[sockfd[w]] \in Readable
    /\ UNCHANGED <<alive, fds, hostent, disk, page, local, lost, hit>>

\* read returns -1, and fwrite gets that as its length: what the stack holds
\* is written, up to the first page that is not mapped, or the process dies.
\* A connection that was reset ends after that, a number that cannot be read
\* never does.
ReadFails(w) ==
    \/ /\ \/ Goto(w, "read", "mark") /\ fds[sockfd[w]] \in Readable
          \/ Goto(w, "read", "read") /\ fds[sockfd[w]] \notin Readable
       /\ disk' = [disk EXCEPT ![file[w]] = "spoiled"]
       /\ UNCHANGED <<alive, fds, hostent, page, local, lost, hit>>
    \/ Dies(w, "read")

(* create_file, before the page file is closed; its result is not looked at, *)
(* and the mark is only for others to read *)

CreateMark(w) ==                 \* fopen of the mark
    /\ Goto(w, "mark", "unmark")
    /\ \E d \in Descs :
          /\ Opens(d, Mark(w))
          /\ fd' = [fd EXCEPT ![w] = d]
          /\ lost' = lost \ {d}
    /\ UNCHANGED <<alive, hostent, disk, page, addr, sockfd, localfp, retry,
                   chunks, hit>>

CreateMarkFails(w) ==
    /\ Goto(w, "mark", "fclose")
    /\ UNCHANGED <<alive, fds, hostent, disk, page, local, lost, hit>>

CloseMark(w) ==
    /\ Goto(w, "unmark", "fclose")
    /\ Close(fd[w])
    /\ fd' = [fd EXCEPT ![w] = None]
    /\ UNCHANGED <<alive, hostent, disk, page, addr, sockfd, localfp,
                   retry, chunks, lost, hit>>

\* Mutant: fclose and close are given each other's descriptor.
FCloseSocket(w) ==
    /\ Goto(w, "fclose", "close")
    /\ Close(sockfd[w])
    /\ UNCHANGED <<alive, hostent, disk, page, local, lost, hit>>

\* fclose(localfp): the buffer goes where the number leads.
FClose(w) ==
    /\ Goto(w, "fclose", "close")
    /\ Close(localfp[w])
    /\ disk' = [f \in Files |->
                 IF ~Writes(localfp[w], f) THEN disk[f]
                 ELSE IF f = file[w] /\ disk[f] = "open" THEN "whole"
                 ELSE "spoiled"]
    /\ UNCHANGED <<alive, hostent, page, local, lost, hit>>

CloseSocket(w) ==
    /\ DoneOnce(w, "close")
    /\ Close(sockfd[w])
    /\ UNCHANGED <<alive, hostent, disk, page, fd, lost, hit>>

-----------------------------------------------------------------------------
(* AnalyzePage *)

OpenMap(w) ==                    \* open(fileName, O_RDONLY) and mmap
    /\ Goto(w, "analyze", "links")
    /\ disk[file[w]] # "absent"
    /\ \E d \in Descs :
          /\ Opens(d, Read(w, file[w]))
          /\ fd' = [fd EXCEPT ![w] = d]
          /\ lost' = lost \ {d}
    /\ UNCHANGED <<alive, hostent, disk, page, addr, sockfd, localfp,
                   retry, chunks, hit>>

\* AnalyzePage and HandOneNode return: the page and its locals are gone.
PageOver(w, from) ==
    /\ Goto(w, from, "idle")
    /\ host' = [host EXCEPT ![w] = None]
    /\ file' = [file EXCEPT ![w] = 0]
    /\ fd' = [fd EXCEPT ![w] = None]
    /\ UNCHANGED <<FileNumber, addr, sockfd, localfp, retry, chunks>>

OpenMapFails(w) ==               \* close(-1) does nothing
    /\ PageOver(w, "analyze")
    /\ UNCHANGED <<alive, fds, hostent, disk, lost, hit>>

GetLink(w) ==                    \* returns, or runs off the mapping
    \/ /\ Goto(w, "links", "close1")
       /\ UNCHANGED <<alive, fds, hostent, disk, page, local, lost,
                      hit>>
    \/ Dies(w, "links")

CloseOnce(w) ==                  \* close(fd); munmap
    /\ Goto(w, "close1", "close2")
    /\ Close(fd[w])
    /\ UNCHANGED <<alive, hostent, disk, page, local, lost, hit>>

CloseTwice(w) ==                 \* __AnalyzeDone: close(fd), once more
    /\ PageOver(w, "close2")
    /\ Close(fd[w])
    /\ hit' = (hit \/ fds[fd[w]] # Free)
    /\ UNCHANGED <<alive, hostent, disk, lost>>

-----------------------------------------------------------------------------
ConnectWeb(w) ==
    \/ Socket(w) \/ SocketFails(w) \/ InetAddr(w) \/ GetHostByName(w)
    \/ GetHostFails(w) \/ CopyAddr(w) \/ Connect(w) \/ ConnectFails(w)

SendRequest(w) == Send(w) \/ SendFails(w)

ReceiveResponse(w) ==
    \/ SelectReady(w) \/ SelectTimesOut(w) \/ SelectGivesUp(w)
    \/ OpenPage(w) \/ OpenPageFails(w)
    \/ ReadSome(w) \/ ReadEnd(w) \/ ReadFails(w)
    \/ CreateMark(w) \/ CreateMarkFails(w) \/ CloseMark(w)
    \/ FClose(w) \/ CloseSocket(w)

AnalyzePage(w) ==
    \/ OpenMap(w) \/ OpenMapFails(w) \/ GetLink(w)
    \/ CloseOnce(w) \/ CloseTwice(w)

HandOneNode(w) ==
    ConnectWeb(w) \/ SendRequest(w) \/ ReceiveResponse(w) \/ AnalyzePage(w)

Next == \E w \in Workers : Take(w) \/ HandOneNode(w)

\* A worker that has a page goes on with it: that each of its calls returns
\* assumes of the outside that a server ends its answer.
Spec == Init /\ [][Next]_vars /\ \A w \in Workers : WF_vars(HandOneNode(w))

-----------------------------------------------------------------------------
(* Properties *)

\* Every variable holds a value of its kind.
TypeOK ==
    /\ alive \in BOOLEAN
    /\ fds \in [Descs -> Objects]
    /\ hostent \in Hosts \cup {None}
    /\ disk \in [Files -> {"absent", "open", "spoiled", "whole"}]
    /\ FileNumber \in Files
    /\ pc \in [Workers ->
                {"idle", "socket", "resolve", "copy", "connect", "send",
                 "select", "fopen", "read", "mark", "unmark", "fclose",
                 "close", "analyze", "links", "close1", "close2"}]
    /\ host \in [Workers -> Hosts \cup {None}]
    /\ file \in [Workers -> Files]
    /\ addr \in [Workers -> Hosts \cup {None}]
    /\ sockfd \in [Workers -> Descs \cup {None}]
    /\ localfp \in [Workers -> Descs \cup {None}]
    /\ fd \in [Workers -> Descs \cup {None}]
    /\ retry \in [Workers -> 0..Retries]
    /\ chunks \in [Workers -> 0..MaxChunks]
    /\ lost \in SUBSET Descs
    /\ hit \in BOOLEAN

HasSocket(w) == pc[w] \in {"resolve", "copy", "connect", "send", "select",
                           "fopen", "read", "mark", "unmark", "fclose",
                           "close"}
HasPage(w)   == pc[w] \in {"read", "mark", "unmark", "fclose"}
HasMark(w)   == pc[w] = "unmark"
HasMap(w)    == pc[w] \in {"links", "close1"}

Holds(w, d) ==
    \/ HasSocket(w) /\ d = sockfd[w]
    \/ HasPage(w) /\ d = localfp[w]
    \/ (HasMark(w) \/ HasMap(w)) /\ d = fd[w]

\* An open descriptor belongs to a download that is under way and will close
\* it, or is one of those the three early returns forget: no other path
\* leaks, whatever the threads close for one another.
OpenIsAccounted ==
    \A d \in Descs :
        fds[d] # Free => d \in lost \/ \E w \in Workers : Holds(w, d)

\* What a worker uses is what it opened, nobody has closed and reused the
\* number: it is only the second close of AnalyzePage that can break this,
\* when another worker has just been given the number.
OwnDescriptor ==
    alive /\ ~hit => \A w \in Workers :
        /\ HasSocket(w) => fds[sockfd[w]] = Sock(w)
        /\ HasPage(w) => fds[localfp[w]] = Write(w, file[w])
        /\ HasMark(w) => fds[fd[w]] = Mark(w)
        /\ HasMap(w) => fds[fd[w]] = Read(w, file[w])

\* The address a worker connects to is that of its page's host.
RightHost == \A w \in Workers : pc[w] = "connect" => addr[w] = host[w]

\* Every page a worker takes is done with at some time, answered or not, as
\* long as no second close takes a descriptor away from a worker.
PageEnds ==
    \A w \in Workers : pc[w] = "socket" ~> pc[w] = "idle" \/ ~alive \/ hit

=============================================================================
