--------------------------- MODULE DownloadProofs ---------------------------
(***************************************************************************)
(* Theorems about Download, for any number of workers, hosts, descriptors  *)
(* and pages; the last two are about one worker, as shipped.               *)
(***************************************************************************)
EXTENDS Download, TLAPS

\* A worker that has opened something knows its number.
Known == \A w \in Workers :
    /\ HasSocket(w) => sockfd[w] \in Descs
    /\ HasPage(w) => localfp[w] \in Descs
    /\ HasMark(w) \/ HasMap(w) \/ pc[w] = "close2" => fd[w] \in Descs

\* With one worker: the number it closes twice is free in between.
NoHit ==
    /\ ~hit
    /\ \A w \in Workers : pc[w] = "close2" => fds[fd[w]] = Free

\* What RightHost rests on: nobody else resolves a name in between.
RightInv == \A w \in Workers :
    /\ pc[w] = "copy" => hostent = host[w]
    /\ pc[w] = "connect" => addr[w] = host[w]

OneWorker == \A v, w \in Workers : v = w

-----------------------------------------------------------------------------
(* Types *)

\* The initial state is of the types, and nothing is open.
LEMMA InitType ==
    Init => TypeOK /\ Known
<1>1. Init => TypeOK
  <2> SUFFICES ASSUME Init PROVE TypeOK
    OBVIOUS
  <2>1. alive \in BOOLEAN /\ hit \in BOOLEAN
    BY DEF Init
  <2>q. QED
    BY <2>1, DownloadAssumption DEF Init, TypeOK, Files, Objects
<1>2. Init => Known
    BY DEF Init, Known, HasSocket, HasPage, HasMark, HasMap
<1>q. QED
    BY <1>1, <1>2

\* What DoOnce leaves of its locals is of their types.
LEMMA DoneOnceType ==
    ASSUME TypeOK, NEW w \in Workers, NEW from, DoneOnce(w, from)
    PROVE  /\ pc[w] = from
           /\ pc' = [pc EXCEPT ![w] = "analyze"]
           /\ addr' \in [Workers -> Hosts \cup {None}]
           /\ sockfd' \in [Workers -> Descs \cup {None}]
           /\ localfp' \in [Workers -> Descs \cup {None}]
           /\ retry' \in [Workers -> 0..Retries]
           /\ chunks' \in [Workers -> 0..MaxChunks]
<1>1. 0 \in 0..Retries /\ 0 \in 0..MaxChunks
    BY DownloadAssumption
<1>q. QED
    BY <1>1 DEF DoneOnce, Goto, TypeOK

\* A descriptor that is closed is free.
LEMMA CloseType ==
    ASSUME TypeOK, NEW d, Close(d)
    PROVE  fds' \in [Descs -> Objects]
<1>1. Free \in Objects /\ fds \in [Descs -> Objects]
    BY DEF Objects, TypeOK
<1>2. \A f \in [Descs -> Objects] : [f EXCEPT ![d] = Free] \in [Descs -> Objects]
    BY <1>1
<1>q. QED
    BY <1>1, <1>2 DEF Close

\* A descriptor that is opened stands for what was opened.
LEMMA OpensType ==
    ASSUME TypeOK, NEW d \in Descs, NEW object \in Objects, Opens(d, object)
    PROVE  fds' \in [Descs -> Objects]
<1>1. fds \in [Descs -> Objects]
    BY DEF TypeOK
<1>q. QED
    BY <1>1 DEF Opens

\* Every step keeps the types: the early returns forget a real descriptor.
LEMMA StepType ==
    ASSUME TypeOK, Known, [Next]_vars
    PROVE  TypeOK'
<1>1. ASSUME NEW w \in Workers, Take(w) PROVE TypeOK'
    BY <1>1, DownloadAssumption DEF Take, Numbers, Goto, page, local, TypeOK, Files
<1>2. ASSUME NEW w \in Workers, Socket(w) PROVE TypeOK'
    BY <1>2, DownloadAssumption DEF Socket, Goto, Opens, page, local,
       TypeOK, Files, Objects, Readable, Writable, Mapped, Sockets, Sock,
       Write, Read, Mark
<1>3. ASSUME NEW w \in Workers, SocketFails(w) PROVE TypeOK'
    BY <1>3, DoneOnceType DEF SocketFails, page, TypeOK
<1>4. ASSUME NEW w \in Workers, InetAddr(w) PROVE TypeOK'
    BY <1>4, DownloadAssumption DEF InetAddr, Goto, page, local, TypeOK,
       Files
<1>5. ASSUME NEW w \in Workers, GetHostByName(w) PROVE TypeOK'
    BY <1>5, DownloadAssumption DEF GetHostByName, Goto, page, local,
       TypeOK, Files
<1>6. ASSUME NEW w \in Workers, GetHostFails(w) PROVE TypeOK'
    BY <1>6, DoneOnceType DEF GetHostFails, Lose, page, TypeOK, Known,
       HasSocket, HasPage, HasMark, HasMap
<1>7. ASSUME NEW w \in Workers, CopyAddr(w) PROVE TypeOK'
    BY <1>7, DownloadAssumption DEF CopyAddr, Goto, page, local, TypeOK,
       Files
<1>8. ASSUME NEW w \in Workers, Connect(w) PROVE TypeOK'
    BY <1>8, DownloadAssumption DEF Connect, Goto, page, local, TypeOK,
       Files
<1>9. ASSUME NEW w \in Workers, ConnectFails(w) PROVE TypeOK'
    BY <1>9, DoneOnceType, CloseType DEF ConnectFails, page, TypeOK
<1>10. ASSUME NEW w \in Workers, Send(w) PROVE TypeOK'
    BY <1>10, DownloadAssumption DEF Send, Goto, page, local, TypeOK, Files
<1>11. ASSUME NEW w \in Workers, SendFails(w) PROVE TypeOK'
    BY <1>11, DownloadAssumption DEF SendFails, Dies, page, local, TypeOK,
       Files
<1>12. ASSUME NEW w \in Workers, SelectReady(w) PROVE TypeOK'
    BY <1>12, DownloadAssumption DEF SelectReady, Goto, page, local, TypeOK,
       Files
<1>13. ASSUME NEW w \in Workers, SelectTimesOut(w) PROVE TypeOK'
    BY <1>13, DownloadAssumption DEF SelectTimesOut, Goto, page, local,
       TypeOK, Files
<1>14. ASSUME NEW w \in Workers, SelectGivesUp(w) PROVE TypeOK'
    BY <1>14, DoneOnceType DEF SelectGivesUp, Lose, page, TypeOK, Known,
       HasSocket, HasPage, HasMark, HasMap
<1>15. ASSUME NEW w \in Workers, OpenPage(w) PROVE TypeOK'
    BY <1>15, DownloadAssumption, SMTT(30) DEF OpenPage, Goto, Opens, page, local,
       TypeOK, Files, Objects, Readable, Writable, Mapped, Sockets, Sock,
       Write, Read, Mark
<1>16. ASSUME NEW w \in Workers, OpenPageFails(w) PROVE TypeOK'
    BY <1>16, DoneOnceType DEF OpenPageFails, Lose, page, TypeOK, Known,
       HasSocket, HasPage, HasMark, HasMap
<1>17. ASSUME NEW w \in Workers, ReadSome(w) PROVE TypeOK'
    BY <1>17, DownloadAssumption DEF ReadSome, Goto, page, local, TypeOK,
       Files
<1>18. ASSUME NEW w \in Workers, ReadEnd(w) PROVE TypeOK'
    BY <1>18, DownloadAssumption DEF ReadEnd, Goto, page, local, TypeOK,
       Files
<1>19. ASSUME NEW w \in Workers, ReadFails(w) PROVE TypeOK'
    BY <1>19, DownloadAssumption DEF ReadFails, Goto, Dies, page, local,
       TypeOK, Files
<1>20. ASSUME NEW w \in Workers, CreateMark(w) PROVE TypeOK'
  <2>1. PICK d \in Descs :
            /\ Opens(d, Mark(w))
            /\ fd' = [fd EXCEPT ![w] = d]
            /\ lost' = lost \ {d}
    BY <1>20 DEF CreateMark
  <2>2. Mark(w) \in Objects
    BY DEF Objects, Writable
  <2>3. fds' \in [Descs -> Objects]
    BY <2>1, <2>2, OpensType
  <2>4. file[w] \in Files
    BY DEF TypeOK
  <2>q. QED
    BY <1>20, <2>1, <2>3, <2>4, DownloadAssumption DEF CreateMark, Goto,
       page, TypeOK
<1>21. ASSUME NEW w \in Workers, FClose(w) PROVE TypeOK'
    BY <1>21, CloseType, DownloadAssumption DEF FClose, Goto, page, local,
       TypeOK
<1>22. ASSUME NEW w \in Workers, CloseSocket(w) PROVE TypeOK'
    BY <1>22, DoneOnceType, CloseType DEF CloseSocket, page, TypeOK
<1>23. ASSUME NEW w \in Workers, OpenMap(w) PROVE TypeOK'
    BY <1>23, DownloadAssumption, SMTT(30) DEF OpenMap, Goto, Opens, page, local,
       TypeOK, Files, Objects, Readable, Writable, Mapped, Sockets, Sock,
       Write, Read, Mark
<1>24. ASSUME NEW w \in Workers, OpenMapFails(w) PROVE TypeOK'
    BY <1>24, DownloadAssumption DEF OpenMapFails, Goto, PageOver, page,
       local, TypeOK, Files
<1>25. ASSUME NEW w \in Workers, GetLink(w) PROVE TypeOK'
    BY <1>25, DownloadAssumption DEF GetLink, Goto, Dies, page, local,
       TypeOK, Files
<1>26. ASSUME NEW w \in Workers, CloseOnce(w) PROVE TypeOK'
    BY <1>26, CloseType, DownloadAssumption DEF CloseOnce, Goto, page, local,
       TypeOK
<1>27. ASSUME NEW w \in Workers, CloseTwice(w) PROVE TypeOK'
  <2>1. fds' \in [Descs -> Objects] /\ hit' \in BOOLEAN
    BY <1>27 DEF CloseTwice, Close, TypeOK, Objects
  <2>2. /\ host' \in [Workers -> Hosts \cup {None}]
        /\ file' \in [Workers -> Files]
        /\ fd' \in [Workers -> Descs \cup {None}]
    BY <1>27, DownloadAssumption DEF CloseTwice, PageOver, TypeOK, Files
  <2>q. QED
    BY <1>27, <2>1, <2>2 DEF CloseTwice, PageOver, Goto, TypeOK
<1>28. CASE UNCHANGED vars
    BY <1>28, DownloadAssumption DEF vars, TypeOK, Files
<1>29. ASSUME NEW w \in Workers, CreateMarkFails(w) PROVE TypeOK'
    BY <1>29, DownloadAssumption DEF CreateMarkFails, Goto, page, local, TypeOK,
       Files
<1>30. ASSUME NEW w \in Workers, CloseMark(w) PROVE TypeOK'
    BY <1>30, CloseType DEF CloseMark, Goto, page, TypeOK
<1>q. QED
    BY <1>1, <1>2, <1>3, <1>4, <1>5, <1>6, <1>7, <1>8, <1>9, <1>10, <1>11,
       <1>12, <1>13, <1>14, <1>15, <1>16, <1>17, <1>18, <1>19, <1>20, <1>21,
       <1>22, <1>23, <1>24, <1>25, <1>26, <1>27, <1>28, <1>29, <1>30 DEF Next,
       HandOneNode, ConnectWeb, SendRequest, ReceiveResponse, AnalyzePage

\* Every step keeps the numbers known.
LEMMA StepKnown ==
    ASSUME TypeOK, Known, [Next]_vars
    PROVE  Known'
<1>1. ASSUME NEW w \in Workers, Take(w) PROVE Known'
    BY <1>1 DEF Take, Numbers, Goto, page, local, TypeOK, Known, HasSocket, HasPage,
       HasMark, HasMap
<1>2. ASSUME NEW w \in Workers, Socket(w) PROVE Known'
    BY <1>2 DEF Socket, Goto, Opens, page, local, TypeOK, Known, HasSocket,
       HasPage, HasMark, HasMap
<1>3. ASSUME NEW w \in Workers, SocketFails(w) PROVE Known'
    BY <1>3 DEF SocketFails, Goto, DoneOnce, page, local, TypeOK, Known,
       HasSocket, HasPage, HasMark, HasMap
<1>4. ASSUME NEW w \in Workers, InetAddr(w) PROVE Known'
    BY <1>4 DEF InetAddr, Goto, page, local, TypeOK, Known, HasSocket,
       HasPage, HasMark, HasMap
<1>5. ASSUME NEW w \in Workers, GetHostByName(w) PROVE Known'
    BY <1>5 DEF GetHostByName, Goto, page, local, TypeOK, Known, HasSocket,
       HasPage, HasMark, HasMap
<1>6. ASSUME NEW w \in Workers, GetHostFails(w) PROVE Known'
    BY <1>6 DEF GetHostFails, Goto, DoneOnce, Lose, page, local, TypeOK,
       Known, HasSocket, HasPage, HasMark, HasMap
<1>7. ASSUME NEW w \in Workers, CopyAddr(w) PROVE Known'
    BY <1>7 DEF CopyAddr, Goto, page, local, TypeOK, Known, HasSocket,
       HasPage, HasMark, HasMap
<1>8. ASSUME NEW w \in Workers, Connect(w) PROVE Known'
    BY <1>8 DEF Connect, Goto, page, local, TypeOK, Known, HasSocket,
       HasPage, HasMark, HasMap
<1>9. ASSUME NEW w \in Workers, ConnectFails(w) PROVE Known'
    BY <1>9 DEF ConnectFails, Goto, DoneOnce, Close, page, local, TypeOK,
       Known, HasSocket, HasPage, HasMark, HasMap
<1>10. ASSUME NEW w \in Workers, Send(w) PROVE Known'
    BY <1>10 DEF Send, Goto, page, local, TypeOK, Known, HasSocket, HasPage,
       HasMark, HasMap
<1>11. ASSUME NEW w \in Workers, SendFails(w) PROVE Known'
    BY <1>11 DEF SendFails, Dies, page, local, TypeOK, Known, HasSocket,
       HasPage, HasMark, HasMap
<1>12. ASSUME NEW w \in Workers, SelectReady(w) PROVE Known'
    BY <1>12 DEF SelectReady, Goto, page, local, TypeOK, Known, HasSocket,
       HasPage, HasMark, HasMap
<1>13. ASSUME NEW w \in Workers, SelectTimesOut(w) PROVE Known'
    BY <1>13 DEF SelectTimesOut, Goto, page, local, TypeOK, Known,
       HasSocket, HasPage, HasMark, HasMap
<1>14. ASSUME NEW w \in Workers, SelectGivesUp(w) PROVE Known'
    BY <1>14 DEF SelectGivesUp, Goto, DoneOnce, Lose, page, local, TypeOK,
       Known, HasSocket, HasPage, HasMark, HasMap
<1>15. ASSUME NEW w \in Workers, OpenPage(w) PROVE Known'
    BY <1>15 DEF OpenPage, Goto, Opens, page, local, TypeOK, Known,
       HasSocket, HasPage, HasMark, HasMap
<1>16. ASSUME NEW w \in Workers, OpenPageFails(w) PROVE Known'
    BY <1>16 DEF OpenPageFails, Goto, DoneOnce, Lose, page, local, TypeOK,
       Known, HasSocket, HasPage, HasMark, HasMap
<1>17. ASSUME NEW w \in Workers, ReadSome(w) PROVE Known'
    BY <1>17 DEF ReadSome, Goto, page, local, TypeOK, Known, HasSocket,
       HasPage, HasMark, HasMap
<1>18. ASSUME NEW w \in Workers, ReadEnd(w) PROVE Known'
    BY <1>18 DEF ReadEnd, Goto, page, local, TypeOK, Known, HasSocket,
       HasPage, HasMark, HasMap
<1>19. ASSUME NEW w \in Workers, ReadFails(w) PROVE Known'
    BY <1>19 DEF ReadFails, Goto, Dies, page, local, TypeOK, Known,
       HasSocket, HasPage, HasMark, HasMap
<1>20. ASSUME NEW w \in Workers, CreateMark(w) PROVE Known'
    BY <1>20 DEF CreateMark, Goto, Opens, page,
       local, TypeOK, Known, HasSocket,
       HasPage, HasMark, HasMap
<1>21. ASSUME NEW w \in Workers, FClose(w) PROVE Known'
    BY <1>21 DEF FClose, Goto, Close, page, local, TypeOK, Known, HasSocket,
       HasPage, HasMark, HasMap
<1>22. ASSUME NEW w \in Workers, CloseSocket(w) PROVE Known'
    BY <1>22 DEF CloseSocket, Goto, DoneOnce, Close, page, local, TypeOK,
       Known, HasSocket, HasPage, HasMark, HasMap
<1>23. ASSUME NEW w \in Workers, OpenMap(w) PROVE Known'
    BY <1>23 DEF OpenMap, Goto, Opens, page, local, TypeOK, Known,
       HasSocket, HasPage, HasMark, HasMap
<1>24. ASSUME NEW w \in Workers, OpenMapFails(w) PROVE Known'
    BY <1>24 DEF OpenMapFails, Goto, PageOver, page, local, TypeOK, Known,
       HasSocket, HasPage, HasMark, HasMap
<1>25. ASSUME NEW w \in Workers, GetLink(w) PROVE Known'
    BY <1>25 DEF GetLink, Goto, Dies, page, local, TypeOK, Known, HasSocket,
       HasPage, HasMark, HasMap
<1>26. ASSUME NEW w \in Workers, CloseOnce(w) PROVE Known'
    BY <1>26 DEF CloseOnce, Goto, Close, page, local, TypeOK, Known,
       HasSocket, HasPage, HasMark, HasMap
<1>27. ASSUME NEW w \in Workers, CloseTwice(w) PROVE Known'
    BY <1>27 DEF CloseTwice, Goto, Close, PageOver, page, local, TypeOK,
       Known, HasSocket, HasPage, HasMark, HasMap
<1>28. CASE UNCHANGED vars
    BY <1>28 DEF vars, TypeOK, Known, HasSocket, HasPage, HasMark, HasMap
<1>29. ASSUME NEW w \in Workers, CreateMarkFails(w) PROVE Known'
    BY <1>29 DEF CreateMarkFails, Goto, page, local, TypeOK,
       Known, HasSocket, HasPage, HasMark, HasMap
<1>30. ASSUME NEW w \in Workers, CloseMark(w) PROVE Known'
    BY <1>30 DEF CloseMark, Goto, Close, page, local, TypeOK,
       Known, HasSocket, HasPage, HasMark, HasMap
<1>q. QED
    BY <1>1, <1>2, <1>3, <1>4, <1>5, <1>6, <1>7, <1>8, <1>9, <1>10, <1>11,
       <1>12, <1>13, <1>14, <1>15, <1>16, <1>17, <1>18, <1>19, <1>20, <1>21,
       <1>22, <1>23, <1>24, <1>25, <1>26, <1>27, <1>28, <1>29, <1>30 DEF Next,
       HandOneNode, ConnectWeb, SendRequest, ReceiveResponse, AnalyzePage

\* Every variable of the downloads keeps its type (ConnectWeb to
\* AnalyzePage, MainFrm.cpp), for any number of workers.
THEOREM TypeCorrect == Spec => []TypeOK
<1>1. TypeOK /\ Known /\ [Next]_vars => (TypeOK /\ Known)'
    BY StepType, StepKnown
<1>q. QED
    BY <1>1, InitType, PTL DEF Spec

\* So the numbers are known throughout.
LEMMA AlwaysKnown == Spec => []Known
<1>1. TypeOK /\ Known /\ [Next]_vars => (TypeOK /\ Known)'
    BY StepType, StepKnown
<1>q. QED
    BY <1>1, InitType, PTL DEF Spec

-----------------------------------------------------------------------------
(* What is open *)

\* Opening adds a holder, closing frees, and the early returns confess.
LEMMA StepAccounted ==
    ASSUME TypeOK, OpenIsAccounted, [Next]_vars
    PROVE  OpenIsAccounted'
<1>1. ASSUME NEW w \in Workers, Take(w) PROVE OpenIsAccounted'
    BY <1>1 DEF Take, Numbers, Goto, page, local, TypeOK, OpenIsAccounted, Holds,
       HasSocket, HasPage, HasMark, HasMap
<1>2. ASSUME NEW w \in Workers, Socket(w) PROVE OpenIsAccounted'
    BY <1>2 DEF Socket, Goto, Opens, page, local, TypeOK, OpenIsAccounted,
       Holds, HasSocket, HasPage, HasMark, HasMap
<1>3. ASSUME NEW w \in Workers, SocketFails(w) PROVE OpenIsAccounted'
    BY <1>3 DEF SocketFails, Goto, DoneOnce, page, local, TypeOK,
       OpenIsAccounted, Holds, HasSocket, HasPage, HasMark, HasMap
<1>4. ASSUME NEW w \in Workers, InetAddr(w) PROVE OpenIsAccounted'
    BY <1>4 DEF InetAddr, Goto, page, local, TypeOK, OpenIsAccounted, Holds,
       HasSocket, HasPage, HasMark, HasMap
<1>5. ASSUME NEW w \in Workers, GetHostByName(w) PROVE OpenIsAccounted'
    BY <1>5 DEF GetHostByName, Goto, page, local, TypeOK, OpenIsAccounted,
       Holds, HasSocket, HasPage, HasMark, HasMap
<1>6. ASSUME NEW w \in Workers, GetHostFails(w) PROVE OpenIsAccounted'
    BY <1>6 DEF GetHostFails, Goto, DoneOnce, Lose, page, local, TypeOK,
       OpenIsAccounted, Holds, HasSocket, HasPage, HasMark, HasMap
<1>7. ASSUME NEW w \in Workers, CopyAddr(w) PROVE OpenIsAccounted'
    BY <1>7 DEF CopyAddr, Goto, page, local, TypeOK, OpenIsAccounted, Holds,
       HasSocket, HasPage, HasMark, HasMap
<1>8. ASSUME NEW w \in Workers, Connect(w) PROVE OpenIsAccounted'
    BY <1>8 DEF Connect, Goto, page, local, TypeOK, OpenIsAccounted, Holds,
       HasSocket, HasPage, HasMark, HasMap
<1>9. ASSUME NEW w \in Workers, ConnectFails(w) PROVE OpenIsAccounted'
    BY <1>9 DEF ConnectFails, Goto, DoneOnce, Close, page, local, TypeOK,
       OpenIsAccounted, Holds, HasSocket, HasPage, HasMark, HasMap
<1>10. ASSUME NEW w \in Workers, Send(w) PROVE OpenIsAccounted'
    BY <1>10 DEF Send, Goto, page, local, TypeOK, OpenIsAccounted, Holds,
       HasSocket, HasPage, HasMark, HasMap
<1>11. ASSUME NEW w \in Workers, SendFails(w) PROVE OpenIsAccounted'
    BY <1>11 DEF SendFails, Dies, page, local, TypeOK, OpenIsAccounted,
       Holds, HasSocket, HasPage, HasMark, HasMap
<1>12. ASSUME NEW w \in Workers, SelectReady(w) PROVE OpenIsAccounted'
    BY <1>12 DEF SelectReady, Goto, page, local, TypeOK, OpenIsAccounted,
       Holds, HasSocket, HasPage, HasMark, HasMap
<1>13. ASSUME NEW w \in Workers, SelectTimesOut(w) PROVE OpenIsAccounted'
    BY <1>13 DEF SelectTimesOut, Goto, page, local, TypeOK, OpenIsAccounted,
       Holds, HasSocket, HasPage, HasMark, HasMap
<1>14. ASSUME NEW w \in Workers, SelectGivesUp(w) PROVE OpenIsAccounted'
    BY <1>14 DEF SelectGivesUp, Goto, DoneOnce, Lose, page, local, TypeOK,
       OpenIsAccounted, Holds, HasSocket, HasPage, HasMark, HasMap
<1>15. ASSUME NEW w \in Workers, OpenPage(w) PROVE OpenIsAccounted'
    BY <1>15 DEF OpenPage, Goto, Opens, page, local, TypeOK,
       OpenIsAccounted, Holds, HasSocket, HasPage, HasMark, HasMap
<1>16. ASSUME NEW w \in Workers, OpenPageFails(w) PROVE OpenIsAccounted'
    BY <1>16 DEF OpenPageFails, Goto, DoneOnce, Lose, page, local, TypeOK,
       OpenIsAccounted, Holds, HasSocket, HasPage, HasMark, HasMap
<1>17. ASSUME NEW w \in Workers, ReadSome(w) PROVE OpenIsAccounted'
    BY <1>17 DEF ReadSome, Goto, page, local, TypeOK, OpenIsAccounted,
       Holds, HasSocket, HasPage, HasMark, HasMap
<1>18. ASSUME NEW w \in Workers, ReadEnd(w) PROVE OpenIsAccounted'
    BY <1>18 DEF ReadEnd, Goto, page, local, TypeOK, OpenIsAccounted, Holds,
       HasSocket, HasPage, HasMark, HasMap
<1>19. ASSUME NEW w \in Workers, ReadFails(w) PROVE OpenIsAccounted'
    BY <1>19 DEF ReadFails, Goto, Dies, page, local, TypeOK,
       OpenIsAccounted, Holds, HasSocket, HasPage, HasMark, HasMap
<1>20. ASSUME NEW w \in Workers, CreateMark(w) PROVE OpenIsAccounted'
    BY <1>20 DEF CreateMark, Goto, Opens, page,
       local, TypeOK, OpenIsAccounted,
       Holds, HasSocket, HasPage, HasMark, HasMap
<1>21. ASSUME NEW w \in Workers, FClose(w) PROVE OpenIsAccounted'
    BY <1>21 DEF FClose, Goto, Close, page, local, TypeOK, OpenIsAccounted,
       Holds, HasSocket, HasPage, HasMark, HasMap
<1>22. ASSUME NEW w \in Workers, CloseSocket(w) PROVE OpenIsAccounted'
    BY <1>22 DEF CloseSocket, Goto, DoneOnce, Close, page, local, TypeOK,
       OpenIsAccounted, Holds, HasSocket, HasPage, HasMark, HasMap
<1>23. ASSUME NEW w \in Workers, OpenMap(w) PROVE OpenIsAccounted'
    BY <1>23 DEF OpenMap, Goto, Opens, page, local, TypeOK, OpenIsAccounted,
       Holds, HasSocket, HasPage, HasMark, HasMap
<1>24. ASSUME NEW w \in Workers, OpenMapFails(w) PROVE OpenIsAccounted'
    BY <1>24 DEF OpenMapFails, Goto, PageOver, page, local, TypeOK,
       OpenIsAccounted, Holds, HasSocket, HasPage, HasMark, HasMap
<1>25. ASSUME NEW w \in Workers, GetLink(w) PROVE OpenIsAccounted'
    BY <1>25 DEF GetLink, Goto, Dies, page, local, TypeOK, OpenIsAccounted,
       Holds, HasSocket, HasPage, HasMark, HasMap
<1>26. ASSUME NEW w \in Workers, CloseOnce(w) PROVE OpenIsAccounted'
    BY <1>26 DEF CloseOnce, Goto, Close, page, local, TypeOK,
       OpenIsAccounted, Holds, HasSocket, HasPage, HasMark, HasMap
<1>27. ASSUME NEW w \in Workers, CloseTwice(w) PROVE OpenIsAccounted'
    BY <1>27 DEF CloseTwice, Goto, Close, PageOver, page, local, TypeOK,
       OpenIsAccounted, Holds, HasSocket, HasPage, HasMark, HasMap
<1>28. CASE UNCHANGED vars
    BY <1>28 DEF vars, TypeOK, OpenIsAccounted, Holds, HasSocket, HasPage,
       HasMark, HasMap
<1>29. ASSUME NEW w \in Workers, CreateMarkFails(w) PROVE OpenIsAccounted'
    BY <1>29 DEF CreateMarkFails, Goto, page, local, TypeOK,
       OpenIsAccounted, Holds, HasSocket, HasPage, HasMark, HasMap
<1>30. ASSUME NEW w \in Workers, CloseMark(w) PROVE OpenIsAccounted'
    BY <1>30 DEF CloseMark, Goto, Close, page, local, TypeOK,
       OpenIsAccounted, Holds, HasSocket, HasPage, HasMark, HasMap
<1>q. QED
    BY <1>1, <1>2, <1>3, <1>4, <1>5, <1>6, <1>7, <1>8, <1>9, <1>10, <1>11,
       <1>12, <1>13, <1>14, <1>15, <1>16, <1>17, <1>18, <1>19, <1>20, <1>21,
       <1>22, <1>23, <1>24, <1>25, <1>26, <1>27, <1>28, <1>29, <1>30 DEF Next,
       HandOneNode, ConnectWeb, SendRequest, ReceiveResponse, AnalyzePage

\* An open descriptor belongs to a download that will close it, or was
\* forgotten by one of the three early returns of ConnectWeb and
\* ReceiveResponse, even while the threads close one another's descriptors.
THEOREM Accounted == Spec => []OpenIsAccounted
<1>1. Init => OpenIsAccounted
    BY DEF Init, OpenIsAccounted
<1>2. TypeOK /\ OpenIsAccounted /\ [Next]_vars => OpenIsAccounted'
    BY StepAccounted
<1>q. QED
    BY <1>1, <1>2, TypeCorrect, PTL DEF Spec

-----------------------------------------------------------------------------
(* Whose it is *)

\* A new number was free; what a worker closes for the first time is its
\* own and nobody else's; what it closes for the second time is closed
\* already, or hit.
LEMMA StepOwn ==
    ASSUME TypeOK, Known, OwnDescriptor, [Next]_vars
    PROVE  OwnDescriptor'
<1>1. ASSUME NEW w \in Workers, Take(w) PROVE OwnDescriptor'
    BY <1>1 DEF Take, Numbers, Goto, page, local, TypeOK, OwnDescriptor, Known, HasSocket, HasPage, HasMark, HasMap
<1>2. ASSUME NEW w \in Workers, Socket(w) PROVE OwnDescriptor'
    BY <1>2 DEF Socket, Goto, Opens, page, local, TypeOK, OwnDescriptor,
       Known, HasSocket, HasPage, HasMark, HasMap, Sock, Write, Read, Mark,
       Free
<1>3. ASSUME NEW w \in Workers, SocketFails(w) PROVE OwnDescriptor'
    BY <1>3 DEF SocketFails, Goto, DoneOnce, page, local, TypeOK,
       OwnDescriptor, Known, HasSocket, HasPage, HasMark, HasMap
<1>4. ASSUME NEW w \in Workers, InetAddr(w) PROVE OwnDescriptor'
    BY <1>4 DEF InetAddr, Goto, page, local, TypeOK, OwnDescriptor, Known, HasSocket, HasPage, HasMark, HasMap
<1>5. ASSUME NEW w \in Workers, GetHostByName(w) PROVE OwnDescriptor'
    BY <1>5 DEF GetHostByName, Goto, page, local, TypeOK, OwnDescriptor,
       Known, HasSocket, HasPage, HasMark, HasMap
<1>6. ASSUME NEW w \in Workers, GetHostFails(w) PROVE OwnDescriptor'
    BY <1>6 DEF GetHostFails, Goto, DoneOnce, Lose, page, local, TypeOK,
       OwnDescriptor, Known, HasSocket, HasPage, HasMark, HasMap
<1>7. ASSUME NEW w \in Workers, CopyAddr(w) PROVE OwnDescriptor'
    BY <1>7 DEF CopyAddr, Goto, page, local, TypeOK, OwnDescriptor, Known, HasSocket, HasPage, HasMark, HasMap
<1>8. ASSUME NEW w \in Workers, Connect(w) PROVE OwnDescriptor'
    BY <1>8 DEF Connect, Goto, page, local, TypeOK, OwnDescriptor, Known, HasSocket, HasPage, HasMark, HasMap
<1>9. ASSUME NEW w \in Workers, ConnectFails(w) PROVE OwnDescriptor'
    BY <1>9 DEF ConnectFails, Goto, DoneOnce, Close, page, local, TypeOK,
       OwnDescriptor, Known, HasSocket, HasPage, HasMark, HasMap,
       Sock, Write, Read, Mark, Free
<1>10. ASSUME NEW w \in Workers, Send(w) PROVE OwnDescriptor'
    BY <1>10 DEF Send, Goto, page, local, TypeOK, OwnDescriptor, Known, HasSocket, HasPage, HasMark, HasMap
<1>11. ASSUME NEW w \in Workers, SendFails(w) PROVE OwnDescriptor'
    BY <1>11 DEF SendFails, Dies, page, local, TypeOK, OwnDescriptor,
       Known, HasSocket, HasPage, HasMark, HasMap
<1>12. ASSUME NEW w \in Workers, SelectReady(w) PROVE OwnDescriptor'
    BY <1>12 DEF SelectReady, Goto, page, local, TypeOK, OwnDescriptor,
       Known, HasSocket, HasPage, HasMark, HasMap
<1>13. ASSUME NEW w \in Workers, SelectTimesOut(w) PROVE OwnDescriptor'
    BY <1>13 DEF SelectTimesOut, Goto, page, local, TypeOK, OwnDescriptor,
       Known, HasSocket, HasPage, HasMark, HasMap
<1>14. ASSUME NEW w \in Workers, SelectGivesUp(w) PROVE OwnDescriptor'
    BY <1>14 DEF SelectGivesUp, Goto, DoneOnce, Lose, page, local, TypeOK,
       OwnDescriptor, Known, HasSocket, HasPage, HasMark, HasMap
<1>15. ASSUME NEW w \in Workers, OpenPage(w) PROVE OwnDescriptor'
    BY <1>15 DEF OpenPage, Goto, Opens, page, local, TypeOK, OwnDescriptor,
       Known, HasSocket, HasPage, HasMark, HasMap, Sock, Write, Read, Mark,
       Free
<1>16. ASSUME NEW w \in Workers, OpenPageFails(w) PROVE OwnDescriptor'
    BY <1>16 DEF OpenPageFails, Goto, DoneOnce, Lose, page, local, TypeOK,
       OwnDescriptor, Known, HasSocket, HasPage, HasMark, HasMap
<1>17. ASSUME NEW w \in Workers, ReadSome(w) PROVE OwnDescriptor'
    BY <1>17 DEF ReadSome, Goto, page, local, TypeOK, OwnDescriptor,
       Known, HasSocket, HasPage, HasMark, HasMap
<1>18. ASSUME NEW w \in Workers, ReadEnd(w) PROVE OwnDescriptor'
    BY <1>18 DEF ReadEnd, Goto, page, local, TypeOK, OwnDescriptor, Known, HasSocket, HasPage, HasMark, HasMap
<1>19. ASSUME NEW w \in Workers, ReadFails(w) PROVE OwnDescriptor'
    BY <1>19 DEF ReadFails, Goto, Dies, page, local, TypeOK, OwnDescriptor,
       Known, HasSocket, HasPage, HasMark, HasMap
<1>20. ASSUME NEW w \in Workers, CreateMark(w) PROVE OwnDescriptor'
    BY <1>20 DEF CreateMark, Goto, Opens, page,
       local, TypeOK, OwnDescriptor,
       Known, HasSocket, HasPage, HasMark, HasMap, Sock, Write, Read, Mark, Free
<1>21. ASSUME NEW w \in Workers, FClose(w) PROVE OwnDescriptor'
    BY <1>21 DEF FClose, Goto, Close, page, local, TypeOK, OwnDescriptor,
       Known, HasSocket, HasPage, HasMark, HasMap, Sock, Write, Read, Mark,
       Free
<1>22. ASSUME NEW w \in Workers, CloseSocket(w) PROVE OwnDescriptor'
    BY <1>22 DEF CloseSocket, Goto, DoneOnce, Close, page, local, TypeOK,
       OwnDescriptor, Known, HasSocket, HasPage, HasMark, HasMap,
       Sock, Write, Read, Mark, Free
<1>23. ASSUME NEW w \in Workers, OpenMap(w) PROVE OwnDescriptor'
    BY <1>23 DEF OpenMap, Goto, Opens, page, local, TypeOK, OwnDescriptor,
       Known, HasSocket, HasPage, HasMark, HasMap, Sock, Write, Read, Mark,
       Free
<1>24. ASSUME NEW w \in Workers, OpenMapFails(w) PROVE OwnDescriptor'
    BY <1>24 DEF OpenMapFails, Goto, PageOver, page, local, TypeOK,
       OwnDescriptor, Known, HasSocket, HasPage, HasMark, HasMap
<1>25. ASSUME NEW w \in Workers, GetLink(w) PROVE OwnDescriptor'
    BY <1>25 DEF GetLink, Goto, Dies, page, local, TypeOK, OwnDescriptor,
       Known, HasSocket, HasPage, HasMark, HasMap
<1>26. ASSUME NEW w \in Workers, CloseOnce(w) PROVE OwnDescriptor'
    BY <1>26 DEF CloseOnce, Goto, Close, page, local, TypeOK, OwnDescriptor,
       Known, HasSocket, HasPage, HasMark, HasMap, Sock, Write, Read, Mark,
       Free
<1>27. ASSUME NEW w \in Workers, CloseTwice(w) PROVE OwnDescriptor'
  <2>1. CASE hit'
    BY <2>1 DEF OwnDescriptor
  <2>2. CASE ~hit'
    <3>1. ~hit /\ fds[fd[w]] = Free
        BY <1>27, <2>2 DEF CloseTwice
    <3>2. fds' = fds
        BY <1>27, <3>1 DEF CloseTwice, Close, TypeOK
    <3>q. QED
        BY <1>27, <3>1, <3>2 DEF CloseTwice, Goto, PageOver, TypeOK,
           OwnDescriptor, HasSocket, HasPage, HasMark, HasMap
  <2>q. QED
    BY <2>1, <2>2
<1>28. CASE UNCHANGED vars
    BY <1>28 DEF vars, TypeOK, OwnDescriptor, Known,
       HasSocket, HasPage, HasMark, HasMap
<1>29. ASSUME NEW w \in Workers, CreateMarkFails(w) PROVE OwnDescriptor'
    BY <1>29 DEF CreateMarkFails, Goto, page, local, TypeOK,
       OwnDescriptor, Known, HasSocket, HasPage, HasMark, HasMap
<1>30. ASSUME NEW w \in Workers, CloseMark(w) PROVE OwnDescriptor'
    BY <1>30 DEF CloseMark, Goto, Close, page, local, TypeOK,
       OwnDescriptor, Known, HasSocket, HasPage, HasMark, HasMap,
       Sock, Write, Read, Mark, Free
<1>q. QED
    BY <1>1, <1>2, <1>3, <1>4, <1>5, <1>6, <1>7, <1>8, <1>9, <1>10, <1>11,
       <1>12, <1>13, <1>14, <1>15, <1>16, <1>17, <1>18, <1>19, <1>20, <1>21,
       <1>22, <1>23, <1>24, <1>25, <1>26, <1>27, <1>28, <1>29, <1>30 DEF Next,
       HandOneNode, ConnectWeb, SendRequest, ReceiveResponse, AnalyzePage

\* Any number of workers use only what they have opened until the second
\* close of AnalyzePage meets a number that was given out again.
THEOREM OwnUntilHit == Spec => []OwnDescriptor
<1>1. Init => OwnDescriptor
    BY DEF Init, OwnDescriptor, HasSocket, HasPage, HasMark, HasMap
<1>2. TypeOK /\ Known /\ OwnDescriptor /\ [Next]_vars
          => OwnDescriptor'
    BY StepOwn
<1>q. QED
    BY <1>1, <1>2, TypeCorrect, AlwaysKnown, PTL DEF Spec

-----------------------------------------------------------------------------
(* One worker *)

\* Nobody takes the number between the two calls of close.
LEMMA StepNoHit ==
    ASSUME OneWorker, TypeOK, Known, NoHit, [Next]_vars
    PROVE  NoHit'
<1> USE DEF OneWorker
<1>1. ASSUME NEW w \in Workers, Take(w) PROVE NoHit'
    BY <1>1 DEF Take, Numbers, Goto, page, local, TypeOK, Known, NoHit, HasSocket,
       HasPage, HasMark, HasMap
<1>2. ASSUME NEW w \in Workers, Socket(w) PROVE NoHit'
    BY <1>2 DEF Socket, Goto, Opens, page, local, TypeOK, Known, NoHit,
       HasSocket, HasPage, HasMark, HasMap
<1>3. ASSUME NEW w \in Workers, SocketFails(w) PROVE NoHit'
    BY <1>3 DEF SocketFails, Goto, DoneOnce, page, local, TypeOK, Known,
       NoHit, HasSocket, HasPage, HasMark, HasMap
<1>4. ASSUME NEW w \in Workers, InetAddr(w) PROVE NoHit'
    BY <1>4 DEF InetAddr, Goto, page, local, TypeOK, Known, NoHit,
       HasSocket, HasPage, HasMark, HasMap
<1>5. ASSUME NEW w \in Workers, GetHostByName(w) PROVE NoHit'
    BY <1>5 DEF GetHostByName, Goto, page, local, TypeOK, Known, NoHit,
       HasSocket, HasPage, HasMark, HasMap
<1>6. ASSUME NEW w \in Workers, GetHostFails(w) PROVE NoHit'
    BY <1>6 DEF GetHostFails, Goto, DoneOnce, Lose, page, local, TypeOK,
       Known, NoHit, HasSocket, HasPage, HasMark, HasMap
<1>7. ASSUME NEW w \in Workers, CopyAddr(w) PROVE NoHit'
    BY <1>7 DEF CopyAddr, Goto, page, local, TypeOK, Known, NoHit,
       HasSocket, HasPage, HasMark, HasMap
<1>8. ASSUME NEW w \in Workers, Connect(w) PROVE NoHit'
    BY <1>8 DEF Connect, Goto, page, local, TypeOK, Known, NoHit, HasSocket,
       HasPage, HasMark, HasMap
<1>9. ASSUME NEW w \in Workers, ConnectFails(w) PROVE NoHit'
    BY <1>9 DEF ConnectFails, Goto, DoneOnce, Close, page, local, TypeOK,
       Known, NoHit, HasSocket, HasPage, HasMark, HasMap
<1>10. ASSUME NEW w \in Workers, Send(w) PROVE NoHit'
    BY <1>10 DEF Send, Goto, page, local, TypeOK, Known, NoHit, HasSocket,
       HasPage, HasMark, HasMap
<1>11. ASSUME NEW w \in Workers, SendFails(w) PROVE NoHit'
    BY <1>11 DEF SendFails, Dies, page, local, TypeOK, Known, NoHit,
       HasSocket, HasPage, HasMark, HasMap
<1>12. ASSUME NEW w \in Workers, SelectReady(w) PROVE NoHit'
    BY <1>12 DEF SelectReady, Goto, page, local, TypeOK, Known, NoHit,
       HasSocket, HasPage, HasMark, HasMap
<1>13. ASSUME NEW w \in Workers, SelectTimesOut(w) PROVE NoHit'
    BY <1>13 DEF SelectTimesOut, Goto, page, local, TypeOK, Known, NoHit,
       HasSocket, HasPage, HasMark, HasMap
<1>14. ASSUME NEW w \in Workers, SelectGivesUp(w) PROVE NoHit'
    BY <1>14 DEF SelectGivesUp, Goto, DoneOnce, Lose, page, local, TypeOK,
       Known, NoHit, HasSocket, HasPage, HasMark, HasMap
<1>15. ASSUME NEW w \in Workers, OpenPage(w) PROVE NoHit'
    BY <1>15 DEF OpenPage, Goto, Opens, page, local, TypeOK, Known, NoHit,
       HasSocket, HasPage, HasMark, HasMap
<1>16. ASSUME NEW w \in Workers, OpenPageFails(w) PROVE NoHit'
    BY <1>16 DEF OpenPageFails, Goto, DoneOnce, Lose, page, local, TypeOK,
       Known, NoHit, HasSocket, HasPage, HasMark, HasMap
<1>17. ASSUME NEW w \in Workers, ReadSome(w) PROVE NoHit'
    BY <1>17 DEF ReadSome, Goto, page, local, TypeOK, Known, NoHit,
       HasSocket, HasPage, HasMark, HasMap
<1>18. ASSUME NEW w \in Workers, ReadEnd(w) PROVE NoHit'
    BY <1>18 DEF ReadEnd, Goto, page, local, TypeOK, Known, NoHit,
       HasSocket, HasPage, HasMark, HasMap
<1>19. ASSUME NEW w \in Workers, ReadFails(w) PROVE NoHit'
    BY <1>19 DEF ReadFails, Goto, Dies, page, local, TypeOK, Known, NoHit,
       HasSocket, HasPage, HasMark, HasMap
<1>20. ASSUME NEW w \in Workers, CreateMark(w) PROVE NoHit'
    BY <1>20 DEF CreateMark, Goto, Opens, page,
       local, TypeOK, Known, NoHit,
       HasSocket, HasPage, HasMark, HasMap
<1>21. ASSUME NEW w \in Workers, FClose(w) PROVE NoHit'
    BY <1>21 DEF FClose, Goto, Close, page, local, TypeOK, Known, NoHit,
       HasSocket, HasPage, HasMark, HasMap
<1>22. ASSUME NEW w \in Workers, CloseSocket(w) PROVE NoHit'
    BY <1>22 DEF CloseSocket, Goto, DoneOnce, Close, page, local, TypeOK,
       Known, NoHit, HasSocket, HasPage, HasMark, HasMap
<1>23. ASSUME NEW w \in Workers, OpenMap(w) PROVE NoHit'
    BY <1>23 DEF OpenMap, Goto, Opens, page, local, TypeOK, Known, NoHit,
       HasSocket, HasPage, HasMark, HasMap
<1>24. ASSUME NEW w \in Workers, OpenMapFails(w) PROVE NoHit'
    BY <1>24 DEF OpenMapFails, Goto, PageOver, page, local, TypeOK, Known,
       NoHit, HasSocket, HasPage, HasMark, HasMap
<1>25. ASSUME NEW w \in Workers, GetLink(w) PROVE NoHit'
    BY <1>25 DEF GetLink, Goto, Dies, page, local, TypeOK, Known, NoHit,
       HasSocket, HasPage, HasMark, HasMap
<1>26. ASSUME NEW w \in Workers, CloseOnce(w) PROVE NoHit'
    BY <1>26 DEF CloseOnce, Goto, Close, page, local, TypeOK, Known, NoHit,
       HasSocket, HasPage, HasMark, HasMap
<1>27. ASSUME NEW w \in Workers, CloseTwice(w) PROVE NoHit'
    BY <1>27 DEF CloseTwice, Goto, Close, PageOver, page, local, TypeOK,
       Known, NoHit, HasSocket, HasPage, HasMark, HasMap
<1>28. CASE UNCHANGED vars
    BY <1>28 DEF vars, TypeOK, Known, NoHit, HasSocket, HasPage, HasMark, HasMap
<1>29. ASSUME NEW w \in Workers, CreateMarkFails(w) PROVE NoHit'
    BY <1>29 DEF CreateMarkFails, Goto, page, local, TypeOK,
       Known, NoHit, HasSocket, HasPage, HasMark, HasMap
<1>30. ASSUME NEW w \in Workers, CloseMark(w) PROVE NoHit'
    BY <1>30 DEF CloseMark, Goto, Close, page, local, TypeOK,
       Known, NoHit, HasSocket, HasPage, HasMark, HasMap
<1>q. QED
    BY <1>1, <1>2, <1>3, <1>4, <1>5, <1>6, <1>7, <1>8, <1>9, <1>10, <1>11,
       <1>12, <1>13, <1>14, <1>15, <1>16, <1>17, <1>18, <1>19, <1>20, <1>21,
       <1>22, <1>23, <1>24, <1>25, <1>26, <1>27, <1>28, <1>29, <1>30 DEF Next,
       HandOneNode, ConnectWeb, SendRequest, ReceiveResponse, AnalyzePage

\* One worker's second close never meets an open descriptor, so OwnUntilHit
\* holds for it without its condition.
THEOREM OneWorkerNeverHits ==
    ASSUME OneWorker
    PROVE  Spec => []~hit
<1>1. Init => NoHit
    BY DEF Init, NoHit
<1>2. TypeOK /\ Known /\ NoHit /\ [Next]_vars => NoHit'
    BY StepNoHit
<1>3. NoHit => ~hit
    BY DEF NoHit
<1>q. QED
    BY <1>1, <1>2, <1>3, TypeCorrect, AlwaysKnown, PTL DEF Spec

\* With one worker the static result is read as it was written.
LEMMA StepRight ==
    ASSUME OneWorker, TypeOK, RightInv, [Next]_vars
    PROVE  RightInv'
<1> USE DEF OneWorker
<1>1. ASSUME NEW w \in Workers, Take(w) PROVE RightInv'
    BY <1>1 DEF Take, Numbers, Goto, page, local, TypeOK, RightInv
<1>2. ASSUME NEW w \in Workers, Socket(w) PROVE RightInv'
    BY <1>2 DEF Socket, Goto, Opens, page, local, TypeOK, RightInv
<1>3. ASSUME NEW w \in Workers, SocketFails(w) PROVE RightInv'
    BY <1>3 DEF SocketFails, Goto, DoneOnce, page, local, TypeOK, RightInv
<1>4. ASSUME NEW w \in Workers, InetAddr(w) PROVE RightInv'
    BY <1>4 DEF InetAddr, Goto, page, local, TypeOK, RightInv
<1>5. ASSUME NEW w \in Workers, GetHostByName(w) PROVE RightInv'
    BY <1>5 DEF GetHostByName, Goto, page, local, TypeOK, RightInv
<1>6. ASSUME NEW w \in Workers, GetHostFails(w) PROVE RightInv'
    BY <1>6 DEF GetHostFails, Goto, DoneOnce, Lose, page, local, TypeOK,
       RightInv
<1>7. ASSUME NEW w \in Workers, CopyAddr(w) PROVE RightInv'
    BY <1>7 DEF CopyAddr, Goto, page, local, TypeOK, RightInv
<1>8. ASSUME NEW w \in Workers, Connect(w) PROVE RightInv'
    BY <1>8 DEF Connect, Goto, page, local, TypeOK, RightInv
<1>9. ASSUME NEW w \in Workers, ConnectFails(w) PROVE RightInv'
    BY <1>9 DEF ConnectFails, Goto, DoneOnce, Close, page, local, TypeOK,
       RightInv
<1>10. ASSUME NEW w \in Workers, Send(w) PROVE RightInv'
    BY <1>10 DEF Send, Goto, page, local, TypeOK, RightInv
<1>11. ASSUME NEW w \in Workers, SendFails(w) PROVE RightInv'
    BY <1>11 DEF SendFails, Dies, page, local, TypeOK, RightInv
<1>12. ASSUME NEW w \in Workers, SelectReady(w) PROVE RightInv'
    BY <1>12 DEF SelectReady, Goto, page, local, TypeOK, RightInv
<1>13. ASSUME NEW w \in Workers, SelectTimesOut(w) PROVE RightInv'
    BY <1>13 DEF SelectTimesOut, Goto, page, local, TypeOK, RightInv
<1>14. ASSUME NEW w \in Workers, SelectGivesUp(w) PROVE RightInv'
    BY <1>14 DEF SelectGivesUp, Goto, DoneOnce, Lose, page, local, TypeOK,
       RightInv
<1>15. ASSUME NEW w \in Workers, OpenPage(w) PROVE RightInv'
    BY <1>15 DEF OpenPage, Goto, Opens, page, local, TypeOK, RightInv
<1>16. ASSUME NEW w \in Workers, OpenPageFails(w) PROVE RightInv'
    BY <1>16 DEF OpenPageFails, Goto, DoneOnce, Lose, page, local, TypeOK,
       RightInv
<1>17. ASSUME NEW w \in Workers, ReadSome(w) PROVE RightInv'
    BY <1>17 DEF ReadSome, Goto, page, local, TypeOK, RightInv
<1>18. ASSUME NEW w \in Workers, ReadEnd(w) PROVE RightInv'
    BY <1>18 DEF ReadEnd, Goto, page, local, TypeOK, RightInv
<1>19. ASSUME NEW w \in Workers, ReadFails(w) PROVE RightInv'
    BY <1>19 DEF ReadFails, Goto, Dies, page, local, TypeOK, RightInv
<1>20. ASSUME NEW w \in Workers, CreateMark(w) PROVE RightInv'
    BY <1>20 DEF CreateMark, Goto, Opens, page,
       local, TypeOK, RightInv
<1>21. ASSUME NEW w \in Workers, FClose(w) PROVE RightInv'
    BY <1>21 DEF FClose, Goto, Close, page, local, TypeOK, RightInv
<1>22. ASSUME NEW w \in Workers, CloseSocket(w) PROVE RightInv'
    BY <1>22 DEF CloseSocket, Goto, DoneOnce, Close, page, local, TypeOK,
       RightInv
<1>23. ASSUME NEW w \in Workers, OpenMap(w) PROVE RightInv'
    BY <1>23 DEF OpenMap, Goto, Opens, page, local, TypeOK, RightInv
<1>24. ASSUME NEW w \in Workers, OpenMapFails(w) PROVE RightInv'
    BY <1>24 DEF OpenMapFails, Goto, PageOver, page, local, TypeOK, RightInv
<1>25. ASSUME NEW w \in Workers, GetLink(w) PROVE RightInv'
    BY <1>25 DEF GetLink, Goto, Dies, page, local, TypeOK, RightInv
<1>26. ASSUME NEW w \in Workers, CloseOnce(w) PROVE RightInv'
    BY <1>26 DEF CloseOnce, Goto, Close, page, local, TypeOK, RightInv
<1>27. ASSUME NEW w \in Workers, CloseTwice(w) PROVE RightInv'
    BY <1>27 DEF CloseTwice, Goto, Close, PageOver, page, local, TypeOK,
       RightInv
<1>28. CASE UNCHANGED vars
    BY <1>28 DEF vars, TypeOK, RightInv
<1>29. ASSUME NEW w \in Workers, CreateMarkFails(w) PROVE RightInv'
    BY <1>29 DEF CreateMarkFails, Goto, page, local, TypeOK,
       RightInv
<1>30. ASSUME NEW w \in Workers, CloseMark(w) PROVE RightInv'
    BY <1>30 DEF CloseMark, Goto, Close, page, local, TypeOK,
       RightInv
<1>q. QED
    BY <1>1, <1>2, <1>3, <1>4, <1>5, <1>6, <1>7, <1>8, <1>9, <1>10, <1>11,
       <1>12, <1>13, <1>14, <1>15, <1>16, <1>17, <1>18, <1>19, <1>20, <1>21,
       <1>22, <1>23, <1>24, <1>25, <1>26, <1>27, <1>28, <1>29, <1>30 DEF Next,
       HandOneNode, ConnectWeb, SendRequest, ReceiveResponse, AnalyzePage

\* One worker connects to the host of its page: the race of two workers on
\* the static result of gethostbyname is the only way to go wrong.
THEOREM OneWorkerRight ==
    ASSUME OneWorker
    PROVE  Spec => []RightHost
<1>1. Init => RightInv
    BY DEF Init, RightInv
<1>2. TypeOK /\ RightInv /\ [Next]_vars => RightInv'
    BY StepRight
<1>3. RightInv => RightHost
    BY DEF RightInv, RightHost
<1>q. QED
    BY <1>1, <1>2, <1>3, TypeCorrect, PTL DEF Spec
=============================================================================
