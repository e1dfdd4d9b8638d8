--------------------------- MODULE WebQueueProofs ---------------------------
(***************************************************************************)
(* Proofs about WebQueue for any number of workers, nodes and pushes.      *)
(* IInv is inductive: it says what the pointers look like in the middle of *)
(* a push or a pop too, which the properties of WebQueue leave open.       *)
(***************************************************************************)
EXTENDS WebQueue, SequenceTheorems, TLAPS

\* Where a thread may stand.
AddPCs     == {"name", "bump", "push", "ins1", "ins2", "ins3", "ins4", "grow",
               "unlockpush"}
RemovePCs  == {"remove1", "remove2"}
DrainPCs   == {"drain", "release", "exited"} \cup RemovePCs
MainPCs    == {"init", "start"} \cup AddPCs \cup DrainPCs
WorkerPCs  == {"unborn", "loop", "handle", "exited", "first", "shrink",
               "unlockpop"} \cup AddPCs \cup RemovePCs

\* The thread is between pthread_spin_lock and pthread_spin_unlock.
InCritical(t) ==
    \/ pc[t] \in {"ins1", "ins2", "ins3", "ins4", "grow", "unlockpush",
                  "first", "shrink", "unlockpop"}
    \/ t # Main /\ pc[t] \in RemovePCs

LockInv == \A t \in Threads : InCritical(t) <=> lock = t

\* queue_exit runs when every worker is gone.
PhaseInv ==
    /\ pc[Main] \in MainPCs
    /\ \A w \in Workers : pc[w] \in WorkerPCs
    /\ pc[Main] \in DrainPCs => \A w \in Workers : pc[w] = "exited"

\* What the local pointers hold at each place.
ElmInv ==
    \A t \in Threads : IF pc[t] \in AddPCs THEN elm[t] \in Nodes \ {node[t]}
                                           ELSE elm[t] = NULL

NodeInv ==
    \A t \in Threads :
      /\ pc[t] \in RemovePCs =>
            content # <<>> /\ node[t] = content[1]
      /\ pc[t] \in {"shrink", "handle", "release"} => node[t] \in Nodes
      /\ t # Main /\ pc[t] \in AddPCs => node[t] \in Nodes
      /\ t = Main /\ pc[t] \in AddPCs => node[t] = NULL
      /\ pc[t] \in {"init", "unborn", "start", "loop", "first", "exited",
                    "drain"} => node[t] = NULL
      /\ pc[t] = "unlockpop" /\ node[t] = NULL => content = <<>>

Linking   == \E t \in Threads : pc[t] = "ins4"
Unlinking == \E t \in Threads : pc[t] = "remove2"

\* The address that will be c's last link once the store that is under way
\* is over.
PrevInv ==
    \A i \in 1..Len(content) :
        prev[content[i]] = IF i = 1 \/ (i = 2 /\ Unlinking)
                           THEN HEAD ELSE content[i-1]

LastInv ==
    LET n == IF Linking \/ (Unlinking /\ Len(content) = 1)
             THEN Len(content) - 1 ELSE Len(content)
    IN  last = IF n = 0 THEN HEAD ELSE content[n]

\* The node under way to the end of the queue.
NewInv ==
    \A t \in Threads :
      /\ pc[t] \in {"ins2", "ins3"} => next[elm[t]] = NULL
      /\ pc[t] = "ins3" => prev[elm[t]] = last
      /\ pc[t] = "ins4" => content # <<>> /\ content[Len(content)] = elm[t]

SizeInv ==
    pc[Main] \notin DrainPCs =>
      size = IF \E t \in Threads : pc[t] = "grow" \/ pc[t] = "ins4"
             THEN Len(content) - 1
             ELSE IF \E t \in Threads : pc[t] = "shrink"
             THEN Len(content) + 1
             ELSE Len(content)

IInv ==
    /\ TypeOK /\ LockInv /\ PhaseInv /\ ElmInv /\ NodeInv
    /\ Forward(content) /\ PrevInv /\ LastInv /\ NewInv
    /\ OnePlace /\ SizeInv

-----------------------------------------------------------------------------
(* Facts every step may use without citing them: the assumption on the     *)
(* constants, and the definitions that only abbreviate.                    *)

USE WebQueueAssumption
    DEF Threads, Free, Goto, links, locals, Pointers, Addresses, PCs, AddPCs,
        RemovePCs, DrainPCs, MainPCs, WorkerPCs, IInv

LEMMA AppendFacts ==
  ASSUME NEW c \in Seq(Nodes), NEW e \in Nodes
  PROVE  /\ Append(c, e) \in Seq(Nodes)
         /\ Len(Append(c, e)) = Len(c) + 1
         /\ \A i \in 1..Len(c) : Append(c, e)[i] = c[i]
         /\ Append(c, e)[Len(c) + 1] = e
OBVIOUS

LEMMA TailFacts ==
  ASSUME NEW c \in Seq(Nodes), c # <<>>
  PROVE  /\ Tail(c) \in Seq(Nodes)
         /\ Len(c) \in Nat \ {0}
         /\ Len(Tail(c)) = Len(c) - 1
         /\ \A i \in 1..(Len(c) - 1) : Tail(c)[i] = c[i+1]
OBVIOUS

LEMMA FirstIndices ==
  ASSUME NEW n \in Nat, n # 0
  PROVE  1 \in 1..n /\ (n # 1 => 2 \in 1..n)
OBVIOUS

LEMMA Alone ==
  ASSUME IInv, NEW t \in Threads, NEW u \in Threads,
         InCritical(t) \/ pc[t] \in RemovePCs,
         InCritical(u) \/ pc[u] \in RemovePCs
  PROVE  t = u
BY DEF TypeOK, LockInv, PhaseInv, InCritical

LEMMA AddWriteNumberType ==
  ASSUME IInv, NEW t \in Threads, AddWriteNumber(t)
  PROVE  TypeOK'
<1>1. number[t] \in Nat
  BY DEF TypeOK
<1>2. FileNumber' \in Nat
  BY <1>1 DEF AddWriteNumber
<1> QED BY <1>2 DEF TypeOK, AddWriteNumber

LEMMA RemoveBackLinks ==
  ASSUME IInv, NEW t \in Threads, RemoveBack(t)
  PROVE  TypeOK' /\ LastInv'
<1>0. content # <<>> /\ Len(content) \in Nat \ {0} /\ node[t] = content[1]
  BY DEF RemoveBack, NodeInv, TypeOK
<1>1. /\ Len(content) \in Nat /\ 1 \in 1..Len(content)
      /\ Len(content) # 1 => 2 \in 1..Len(content)
      /\ node[t] = content[1] /\ node[t] \in Nodes
  <2>1. content \in Seq(Nodes)
    BY DEF TypeOK
  <2>2. DOMAIN content = 1..Len(content)
    BY <2>1
  <2>3. 1 \in 1..Len(content) /\ (Len(content) # 1 => 2 \in 1..Len(content))
    BY <1>0, FirstIndices
  <2> QED BY <1>0, <2>1, <2>3
<1>2. prev[node[t]] = HEAD
  BY <1>1 DEF PrevInv
<1>3. next[node[t]] = IF Len(content) = 1 THEN NULL ELSE content[2]
  BY <1>1 DEF Forward
<1>4. Len(content) # 1 => content[2] \in Nodes
  BY <1>1 DEF TypeOK
<1>5. ~Linking /\ ~Linking' /\ ~Unlinking /\ Unlinking'
  BY Alone DEF Linking, Unlinking, RemoveBack, InCritical, TypeOK
<1>6. TypeOK'
  BY <1>1, <1>2, <1>3, <1>4 DEF TypeOK, RemoveBack
<1>7. LastInv'
  <2>1. CASE Len(content) = 1
    BY <1>2, <1>3, <1>5, <2>1 DEF LastInv, RemoveBack
  <2>2. CASE Len(content) # 1
    BY <1>1, <1>3, <1>4, <1>5, <2>2 DEF LastInv, RemoveBack
  <2> QED BY <2>1, <2>2
<1> QED BY <1>6, <1>7

LEMMA RemoveLinkMoves ==
  ASSUME IInv, NEW t \in Threads, RemoveLink(t)
  PROVE  Forward(content)' /\ LastInv' /\ Accounted'
<1>0. content # <<>> /\ Len(content) \in Nat \ {0} /\ node[t] = content[1]
  BY DEF RemoveLink, NodeInv, TypeOK
<1>1. /\ Len(content) \in Nat /\ 1 \in 1..Len(content)
      /\ Len(content) # 1 => 2 \in 1..Len(content)
      /\ node[t] = content[1] /\ node[t] \in Nodes
  <2>1. content \in Seq(Nodes)
    BY DEF TypeOK
  <2>2. DOMAIN content = 1..Len(content)
    BY <2>1
  <2>3. 1 \in 1..Len(content) /\ (Len(content) # 1 => 2 \in 1..Len(content))
    BY <1>0, FirstIndices
  <2> QED BY <1>0, <2>1, <2>3
<1>2. content' = Tail(content)
  BY DEF RemoveLink
<1>3. first' = next[content[1]] /\ next' = next
  BY <1>1 DEF RemoveLink, StoreAt, PrevInv
<1>4. ~Linking /\ ~Linking' /\ Unlinking /\ ~Unlinking'
  BY Alone DEF Linking, Unlinking, RemoveLink, InCritical, TypeOK
<1>5. /\ Len(content') = Len(content) - 1
      /\ \A i \in 1..(Len(content) - 1) : content'[i] = content[i+1]
  BY <1>0, <1>2, TailFacts DEF TypeOK
<1>6. Forward(content)'
  <2>0. \A i \in 1..Len(content) : next[content[i]] =
           IF i = Len(content) THEN NULL ELSE content[i+1]
    BY DEF Forward
  <2>1. first' = IF content' = <<>> THEN NULL ELSE content'[1]
    <3>1. CASE Len(content) = 1
      BY <1>1, <1>2, <1>3, <2>0, <3>1 DEF TypeOK
    <3>2. CASE Len(content) # 1
      <4>1. /\ Len(content') \in Nat /\ Len(content') # 0
            /\ content'[1] = content[2]
        BY <1>0, <1>1, <1>5, <3>2
      <4>2. content' # <<>>
        BY <4>1
      <4> QED BY <1>1, <1>3, <2>0, <3>2, <4>1, <4>2
    <3> QED BY <3>1, <3>2
  <2>2. ASSUME NEW i \in 1..Len(content') 
        PROVE next'[content'[i]] =
                 IF i = Len(content') THEN NULL ELSE content'[i+1]
    BY <1>1, <1>3, <1>5, <2>0
  <2> QED BY <2>1, <2>2 DEF Forward
<1>7. LastInv'
  BY <1>1, <1>4, <1>5 DEF LastInv, RemoveLink, TypeOK
<1>8. Accounted'
  <2>1. Queued' = Queued \ {node[t]}
    <3>1. /\ DOMAIN content = 1..Len(content)
          /\ DOMAIN content' = 1..(Len(content) - 1)
      BY <1>0, <1>2, <1>5, TailFacts DEF TypeOK
    <3>2. ASSUME NEW i \in 1..Len(content), i # 1
          PROVE  i - 1 \in DOMAIN content' /\ content[i] = content'[i-1]
      <4>1. i - 1 \in 1..(Len(content) - 1) /\ (i - 1) + 1 = i
        BY <1>1, <3>2
      <4> QED BY <1>5, <3>1, <4>1
    <3>3. ASSUME NEW i \in DOMAIN content'
           PROVE  /\ i+1 \in DOMAIN content
                  /\ content'[i] = content[i+1] /\ content[i+1] # node[t]
      BY <1>1, <1>5, <3>1 DEF OnePlace, NoRepeat
    <3> QED BY <1>1, <3>1, <3>2, <3>3 DEF Queued
  <2>2. \A u \in Threads, n \in Nodes :
         Holds(u, n)' <=> Holds(u, n) \/ (u = t /\ n = node[t])
    BY DEF Holds, RemoveLink, TypeOK, ElmInv
  <2>3. node[t] \in Queued
    BY <1>1 DEF Queued
  <2> QED BY <1>1, <2>1, <2>2, <2>3 DEF Accounted, RemoveLink, OnePlace
<1> QED BY <1>6, <1>7, <1>8

LEMMA InsertLinkMoves ==
  ASSUME IInv, NEW t \in Threads, InsertLink(t)
  PROVE  TypeOK' /\ HeldAlone' /\ Accounted'
<1>1. elm[t] \in Nodes /\ content' = Append(content, elm[t])
  BY DEF InsertLink, ElmInv
<1>2. Queued' = Queued \cup {elm[t]}
  <2>1. /\ DOMAIN content = 1..Len(content) /\ Len(content) \in Nat
        /\ DOMAIN content' = 1..(Len(content) + 1)
        /\ \A i \in 1..Len(content) : content'[i] = content[i]
        /\ content'[Len(content) + 1] = elm[t]
    BY <1>1, AppendFacts DEF TypeOK
  <2> QED BY <2>1 DEF Queued
<1>3. Holds(t, elm[t])
  BY DEF Holds, InsertLink
<1>4. \A u \in Threads, n \in Nodes :
         Holds(u, n)' <=> Holds(u, n) /\ ~(u = t /\ n = elm[t])
  <2>1. node[t] # elm[t]
    BY DEF InsertLink, ElmInv
  <2> QED BY <2>1 DEF Holds, InsertLink, TypeOK, HeldAlone, OnePlace
<1>5. HeldAlone'
  BY <1>1, <1>2, <1>3, <1>4 DEF HeldAlone, OnePlace
<1>6. Accounted'
  BY <1>1, <1>2, <1>3, <1>4 DEF HeldAlone, Accounted, OnePlace, InsertLink
<1>7. TypeOK'
  <2>1. content' \in Seq(Nodes)
    BY <1>1, AppendFacts DEF TypeOK
  <2>2. first' \in Pointers /\ next' \in [Nodes -> Pointers]
    BY <1>1 DEF InsertLink, StoreAt, TypeOK
  <2> QED BY <2>1, <2>2 DEF TypeOK, InsertLink
<1> QED BY <1>5, <1>6, <1>7

-----------------------------------------------------------------------------
(* Each action preserves the inductive invariant. *)

LEMMA AddMallocStep ==
  ASSUME IInv, NEW t \in Threads, AddMalloc(t)
  PROVE  IInv'
<1>1. TypeOK'
  BY DEF AddMalloc, CallSite, TypeOK
<1>2. LockInv' /\ PhaseInv'
  BY DEF AddMalloc, CallSite, TypeOK, LockInv, InCritical, PhaseInv
<1>3. ElmInv'
  BY DEF AddMalloc, CallSite, TypeOK, ElmInv, OnePlace, Accounted, Holds
<1>4. NodeInv'
  BY DEF AddMalloc, CallSite, TypeOK, NodeInv
<1>5. Forward(content)' /\ PrevInv' /\ LastInv' /\ NewInv'
  BY DEF AddMalloc, CallSite, TypeOK, Forward, PrevInv, Unlinking, LastInv,
         Linking, NewInv
<1>6. NoRepeat' /\ HeldAlone' /\ Accounted'
  <2>1. NoRepeat'
    BY DEF AddMalloc, CallSite, OnePlace, NoRepeat, TypeOK
  <2>2. HeldAlone'
    BY DEF AddMalloc, CallSite, OnePlace, HeldAlone, Accounted, Holds, Queued,
           TypeOK,
           PhaseInv
  <2>3. Accounted'
    BY DEF AddMalloc, CallSite, OnePlace, Accounted, HeldAlone, Holds,
           Queued, TypeOK, PhaseInv
  <2> QED BY <2>1, <2>2, <2>3
<1>7. SizeInv'
  BY DEF AddMalloc, CallSite, TypeOK, SizeInv
<1> QED BY <1>1, <1>2, <1>3, <1>4, <1>5, <1>6, <1>7 DEF OnePlace

LEMMA AddReadNumberStep ==
  ASSUME IInv, NEW t \in Threads, AddReadNumber(t)
  PROVE  IInv'
<1>1. TypeOK'
  BY DEF AddReadNumber, TypeOK
<1>2. LockInv' /\ PhaseInv'
  BY DEF AddReadNumber, TypeOK, LockInv, InCritical, PhaseInv
<1>3. ElmInv' /\ NodeInv'
  BY DEF AddReadNumber, TypeOK, ElmInv, NodeInv
<1>4. Forward(content)' /\ PrevInv' /\ LastInv' /\ NewInv'
  BY DEF AddReadNumber, TypeOK, Forward, PrevInv, Unlinking, LastInv,
         Linking, NewInv
<1>5. NoRepeat' /\ HeldAlone' /\ Accounted'
  <2>1. NoRepeat'
    BY DEF AddReadNumber, OnePlace, NoRepeat, TypeOK
  <2>2. HeldAlone'
    BY DEF AddReadNumber, OnePlace, HeldAlone, Holds, Queued, TypeOK
  <2>3. Accounted'
    BY DEF AddReadNumber, OnePlace, Accounted, HeldAlone, Holds, Queued,
           TypeOK
  <2> QED BY <2>1, <2>2, <2>3
<1>6. SizeInv'
  BY DEF AddReadNumber, TypeOK, SizeInv
<1> QED BY <1>1, <1>2, <1>3, <1>4, <1>5, <1>6 DEF OnePlace

LEMMA AddWriteNumberStep ==
  ASSUME IInv, NEW t \in Threads, AddWriteNumber(t)
  PROVE  IInv'
<1>1. TypeOK'
  BY AddWriteNumberType
<1>2. LockInv' /\ PhaseInv'
  BY DEF AddWriteNumber, TypeOK, LockInv, InCritical, PhaseInv
<1>3. ElmInv' /\ NodeInv'
  BY DEF AddWriteNumber, TypeOK, ElmInv, NodeInv
<1>4. Forward(content)' /\ PrevInv' /\ LastInv' /\ NewInv'
  BY DEF AddWriteNumber, TypeOK, Forward, PrevInv, Unlinking, LastInv,
         Linking, NewInv
<1>5. NoRepeat'
  BY DEF AddWriteNumber, OnePlace, NoRepeat, TypeOK
<1>6. HeldAlone'
  BY DEF AddWriteNumber, OnePlace, HeldAlone, Holds, Queued, TypeOK
<1>7. Accounted'
  BY DEF AddWriteNumber, OnePlace, Accounted, Holds, Queued, TypeOK
<1>8. SizeInv'
  BY DEF AddWriteNumber, TypeOK, SizeInv
<1> QED BY <1>1, <1>2, <1>3, <1>4, <1>5, <1>6, <1>7, <1>8 DEF OnePlace

LEMMA PushLockStep ==
  ASSUME IInv, NEW t \in Threads, PushLock(t)
  PROVE  IInv'
<1>1. TypeOK'
  BY DEF PushLock, Lock, TypeOK
<1>2. LockInv' /\ PhaseInv'
  BY DEF PushLock, Lock, TypeOK, LockInv, InCritical, PhaseInv
<1>3. ElmInv' /\ NodeInv'
  BY DEF PushLock, Lock, TypeOK, ElmInv, NodeInv
<1>4. Forward(content)' /\ PrevInv' /\ LastInv' /\ NewInv'
  BY DEF PushLock, Lock, TypeOK, Forward, PrevInv, Unlinking, LastInv,
         Linking, NewInv
<1>5. NoRepeat' /\ HeldAlone' /\ Accounted'
  <2>1. NoRepeat'
    BY DEF PushLock, Lock, OnePlace, NoRepeat, TypeOK
  <2>2. HeldAlone'
    BY DEF PushLock, Lock, OnePlace, HeldAlone, Holds, Queued, TypeOK
  <2>3. Accounted'
    BY DEF PushLock, Lock, OnePlace, Accounted, HeldAlone, Holds, Queued,
           TypeOK
  <2> QED BY <2>1, <2>2, <2>3
<1>6. SizeInv'
  BY DEF PushLock, Lock, TypeOK, SizeInv
<1> QED BY <1>1, <1>2, <1>3, <1>4, <1>5, <1>6 DEF OnePlace

LEMMA InsertNextStep ==
  ASSUME IInv, NEW t \in Threads, InsertNext(t)
  PROVE  IInv'
<1>1. TypeOK'
  BY DEF InsertNext, TypeOK
<1>2. LockInv' /\ PhaseInv'
  BY DEF InsertNext, TypeOK, LockInv, InCritical, PhaseInv
<1>3. ElmInv' /\ NodeInv'
  BY DEF InsertNext, TypeOK, ElmInv, NodeInv
<1>4. Forward(content)' /\ PrevInv' /\ LastInv' /\ NewInv'
  BY DEF InsertNext, TypeOK, Forward, ElmInv, NewInv, LastInv, PrevInv,
         Linking, Unlinking, OnePlace, HeldAlone, Holds, Queued
<1>5. NoRepeat' /\ HeldAlone' /\ Accounted'
  <2>1. NoRepeat'
    BY DEF InsertNext, OnePlace, NoRepeat, TypeOK
  <2>2. HeldAlone'
    BY DEF InsertNext, OnePlace, HeldAlone, Holds, Queued, TypeOK
  <2>3. Accounted'
    BY DEF InsertNext, OnePlace, Accounted, HeldAlone, Holds, Queued, TypeOK
  <2> QED BY <2>1, <2>2, <2>3
<1>6. SizeInv'
  BY DEF InsertNext, TypeOK, SizeInv
<1> QED BY <1>1, <1>2, <1>3, <1>4, <1>5, <1>6 DEF OnePlace

LEMMA InsertPrevStep ==
  ASSUME IInv, NEW t \in Threads, InsertPrev(t)
  PROVE  IInv'
<1>1. TypeOK'
  BY DEF InsertPrev, TypeOK
<1>2. LockInv' /\ PhaseInv'
  BY DEF InsertPrev, TypeOK, LockInv, InCritical, PhaseInv
<1>3. ElmInv' /\ NodeInv'
  BY DEF InsertPrev, TypeOK, ElmInv, NodeInv
<1>4. Forward(content)' /\ PrevInv' /\ LastInv' /\ NewInv'
  BY DEF InsertPrev, TypeOK, Forward, PrevInv, Unlinking, ElmInv, NewInv,
         LastInv, Linking, OnePlace, HeldAlone, Holds, Queued
<1>5. NoRepeat' /\ HeldAlone' /\ Accounted'
  <2>1. NoRepeat'
    BY DEF InsertPrev, OnePlace, NoRepeat, TypeOK
  <2>2. HeldAlone'
    BY DEF InsertPrev, OnePlace, HeldAlone, Holds, Queued, TypeOK
  <2>3. Accounted'
    BY DEF InsertPrev, OnePlace, Accounted, HeldAlone, Holds, Queued, TypeOK
  <2> QED BY <2>1, <2>2, <2>3
<1>6. SizeInv'
  BY DEF InsertPrev, TypeOK, SizeInv
<1> QED BY <1>1, <1>2, <1>3, <1>4, <1>5, <1>6 DEF OnePlace

LEMMA InsertLinkStep ==
  ASSUME IInv, NEW t \in Threads, InsertLink(t)
  PROVE  IInv'
<1>1. TypeOK' /\ HeldAlone' /\ Accounted'
  BY InsertLinkMoves
<1>2. LockInv' /\ PhaseInv'
  BY DEF InsertLink, StoreAt, TypeOK, LockInv, InCritical, PhaseInv
<1>3. ElmInv' /\ NodeInv'
  BY DEF InsertLink, StoreAt, TypeOK, ElmInv, NodeInv, LockInv, InCritical,
         PhaseInv
<1>4. /\ elm[t] \in Nodes /\ elm[t] \notin Queued /\ pc[t] = "ins3"
      /\ next[elm[t]] = NULL /\ prev[elm[t]] = last
  BY DEF InsertLink, ElmInv, NewInv, OnePlace, HeldAlone, Holds
<1>5. \A u \in Threads :
         u # t => pc[u] \notin {"ins2", "ins3", "ins4", "remove2"}
  BY <1>4 DEF LockInv, InCritical, PhaseInv
<1>6. ~Unlinking /\ ~Linking /\ Linking' /\ ~Unlinking'
  BY <1>4, <1>5 DEF InsertLink, Linking, Unlinking, TypeOK
<1>7. last = IF Len(content) = 0 THEN HEAD ELSE content[Len(content)]
  BY <1>6 DEF LastInv
<1>8. /\ Len(content) \in Nat /\ Len(content') = Len(content) + 1
      /\ \A i \in 1..Len(content) :
            /\ content'[i] = content[i] /\ content[i] \in Nodes
            /\ content[i] # elm[t]
      /\ content'[Len(content) + 1] = elm[t]
  BY <1>4, AppendFacts DEF InsertLink, TypeOK, Queued
<1>9. NoRepeat'
  <2>1. DOMAIN content = 1..Len(content)
        /\ DOMAIN content' = 1..(Len(content) + 1)
    BY <1>1, <1>8 DEF TypeOK
  <2>q. QED
    BY <1>8, <2>1 DEF NoRepeat, OnePlace
<1>10. Forward(content)'
  <2>1. CASE Len(content) = 0
    <3>1. content = <<>> /\ Len(content') = 1
        BY <1>8, <2>1 DEF TypeOK
    <3>2. last = HEAD /\ first' = elm[t] /\ next' = next
        BY <1>7, <2>1 DEF InsertLink, StoreAt
    <3>3. content' # <<>> /\ content'[1] = elm[t]
        BY <1>8, <2>1, <3>1
    <3>4. \A i \in 1..Len(content') : i = 1
        BY <3>1
    <3>q. QED
        BY <1>4, <3>1, <3>2, <3>3, <3>4 DEF Forward
  <2>2. CASE Len(content) # 0
    <3>1. content # <<>> /\ Len(content) \in 1..Len(content)
        BY <1>8, <2>2 DEF TypeOK
    <3>2. last = content[Len(content)] /\ last \in Nodes
        BY <1>7, <1>8, <2>2, <3>1
    <3>3. first' = first /\ next' = [next EXCEPT ![last] = elm[t]]
        BY <3>2 DEF InsertLink, StoreAt
    <3>4. next'[elm[t]] = NULL /\ next'[last] = elm[t]
        BY <1>4, <1>8, <3>1, <3>2, <3>3 DEF TypeOK
    <3>5. ASSUME NEW i \in 1..Len(content), i # Len(content)
          PROVE  next'[content[i]] = content[i+1]
      <4>1. content[i] # last
        BY <3>1, <3>2, <3>5, <1>8 DEF OnePlace, NoRepeat, TypeOK
      <4>q. QED
        BY <4>1, <3>3, <3>5, <1>8 DEF Forward, TypeOK
    <3>6. first' = content'[1]
        BY <1>8, <2>2, <3>1, <3>3 DEF Forward
    <3>q. QED
      <4>1. content' # <<>>
        BY <1>8, <2>2
      <4>2. ASSUME NEW i \in 1..Len(content')
            PROVE  next'[content'[i]] =
                      IF i = Len(content') THEN NULL ELSE content'[i+1]
        <5>1. CASE i = Len(content) + 1
            BY <1>8, <3>4, <5>1
        <5>2. CASE i = Len(content)
            BY <1>8, <3>1, <3>2, <3>4, <5>2
        <5>3. CASE i \in 1..Len(content) /\ i # Len(content)
          <6>1. i + 1 \in 1..Len(content) /\ i # Len(content')
            BY <1>8, <5>3
          <6>q. QED
            BY <1>8, <3>5, <5>3, <6>1
        <5>q. QED
            BY <1>8, <5>1, <5>2, <5>3
      <4>q. QED
        BY <4>1, <4>2, <3>6 DEF Forward
  <2>q. QED
    BY <2>1, <2>2
<1>11. PrevInv'
  BY <1>4, <1>6, <1>7, <1>8 DEF InsertLink, PrevInv
<1>12. LastInv' /\ NewInv'
  BY <1>4, <1>5, <1>6, <1>7, <1>8, <1>1
  DEF InsertLink, LastInv, NewInv, TypeOK
<1>13. SizeInv'
  BY DEF InsertLink, StoreAt, TypeOK, SizeInv, LockInv, InCritical, PhaseInv
<1> QED
  BY <1>1, <1>2, <1>3, <1>9, <1>10, <1>11, <1>12, <1>13 DEF OnePlace

LEMMA InsertLastStep ==
  ASSUME IInv, NEW t \in Threads, InsertLast(t)
  PROVE  IInv'
<1>1. TypeOK'
  BY DEF InsertLast, TypeOK, ElmInv, NodeInv
<1>2. LockInv' /\ PhaseInv'
  BY DEF InsertLast, TypeOK, LockInv, InCritical, PhaseInv
<1>3. ElmInv' /\ NodeInv'
  BY DEF InsertLast, TypeOK, ElmInv, NodeInv
<1>4. Forward(content)' /\ PrevInv' /\ LastInv' /\ NewInv'
  BY DEF InsertLast, TypeOK, Forward, PrevInv, Unlinking, LastInv, Linking,
         LockInv, InCritical, PhaseInv, NewInv
<1>5. NoRepeat' /\ HeldAlone' /\ Accounted'
  <2>1. NoRepeat'
    BY DEF InsertLast, OnePlace, NoRepeat, TypeOK
  <2>2. HeldAlone'
    BY DEF InsertLast, OnePlace, HeldAlone, Holds, Queued, TypeOK
  <2>3. Accounted'
    BY DEF InsertLast, OnePlace, Accounted, HeldAlone, Holds, Queued, TypeOK
  <2> QED BY <2>1, <2>2, <2>3
<1>6. SizeInv'
  BY DEF InsertLast, TypeOK, SizeInv
<1> QED BY <1>1, <1>2, <1>3, <1>4, <1>5, <1>6 DEF OnePlace

LEMMA GrowStep ==
  ASSUME IInv, NEW t \in Threads, Grow(t)
  PROVE  IInv'
<1>1. TypeOK'
  BY DEF Grow, TypeOK
<1>2. LockInv' /\ PhaseInv'
  BY DEF Grow, TypeOK, LockInv, InCritical, PhaseInv
<1>3. ElmInv' /\ NodeInv'
  BY DEF Grow, TypeOK, ElmInv, NodeInv
<1>4. Forward(content)' /\ PrevInv' /\ LastInv' /\ NewInv'
  BY DEF Grow, TypeOK, Forward, PrevInv, Unlinking, LastInv, Linking, NewInv
<1>5. NoRepeat' /\ HeldAlone' /\ Accounted'
  <2>1. NoRepeat'
    BY DEF Grow, OnePlace, NoRepeat, TypeOK
  <2>2. HeldAlone'
    BY DEF Grow, OnePlace, HeldAlone, Holds, Queued, TypeOK
  <2>3. Accounted'
    BY SMTT(30) DEF Grow, OnePlace, Accounted, HeldAlone, Holds, Queued, TypeOK
  <2> QED BY <2>1, <2>2, <2>3
<1>6. SizeInv'
  BY DEF Grow, TypeOK, SizeInv, LockInv, InCritical, PhaseInv
<1> QED BY <1>1, <1>2, <1>3, <1>4, <1>5, <1>6 DEF OnePlace

LEMMA PushUnlockStep ==
  ASSUME IInv, NEW t \in Threads, PushUnlock(t)
  PROVE  IInv'
<1>1. TypeOK'
  BY DEF PushUnlock, Return, Unlock, TypeOK
<1>2. LockInv' /\ PhaseInv'
  BY DEF PushUnlock, Return, Unlock, TypeOK, LockInv, InCritical, PhaseInv
<1>3. ElmInv' /\ NodeInv'
  BY DEF PushUnlock, Return, Unlock, TypeOK, ElmInv, NodeInv
<1>4. Forward(content)' /\ PrevInv' /\ LastInv' /\ NewInv'
  BY DEF PushUnlock, Return, TypeOK, Forward, PrevInv, Unlinking, LastInv,
         Linking, NewInv
<1>5. NoRepeat' /\ HeldAlone' /\ Accounted'
  <2>1. NoRepeat'
    BY DEF PushUnlock, Return, OnePlace, NoRepeat, TypeOK
  <2>2. HeldAlone'
    BY DEF PushUnlock, Return, OnePlace, HeldAlone, Holds, Queued, TypeOK
  <2>3. Accounted'
    BY DEF PushUnlock, Return, OnePlace, Accounted, HeldAlone, Holds,
           Queued, TypeOK
  <2> QED BY <2>1, <2>2, <2>3
<1>6. SizeInv'
  BY DEF PushUnlock, Return, Unlock, TypeOK, SizeInv
<1> QED BY <1>1, <1>2, <1>3, <1>4, <1>5, <1>6 DEF OnePlace

LEMMA PopLockStep ==
  ASSUME IInv, NEW t \in Threads, PopLock(t), t # Main
  PROVE  IInv'
<1>1. TypeOK'
  BY DEF PopLock, Lock, TypeOK
<1>2. LockInv' /\ PhaseInv'
  BY DEF PopLock, Lock, TypeOK, LockInv, InCritical, PhaseInv
<1>3. ElmInv' /\ NodeInv'
  BY DEF PopLock, Lock, TypeOK, ElmInv, NodeInv
<1>4. Forward(content)' /\ PrevInv' /\ LastInv' /\ NewInv'
  BY DEF PopLock, Lock, TypeOK, Forward, PrevInv, Unlinking, LastInv,
         Linking, NewInv
<1>5. NoRepeat' /\ HeldAlone' /\ Accounted'
  <2>1. NoRepeat'
    BY DEF PopLock, Lock, OnePlace, NoRepeat, TypeOK
  <2>2. HeldAlone'
    BY DEF PopLock, Lock, OnePlace, HeldAlone, Holds, Queued, TypeOK
  <2>3. Accounted'
    <3>1. \A u \in Threads, n \in Nodes : Holds(u, n)' <=> Holds(u, n)
        BY DEF PopLock, Lock, Holds, TypeOK
    <3>q. QED
        BY <3>1 DEF PopLock, Lock, OnePlace, Accounted, Queued
  <2> QED BY <2>1, <2>2, <2>3
<1>6. SizeInv'
  BY DEF PopLock, Lock, TypeOK, SizeInv
<1> QED BY <1>1, <1>2, <1>3, <1>4, <1>5, <1>6 DEF OnePlace

LEMMA PopFirstStep ==
  ASSUME IInv, NEW t \in Threads, PopFirst(t), t # Main
  PROVE  IInv'
<1>1. TypeOK'
  BY DEF PopFirst, TypeOK
<1>2. LockInv' /\ PhaseInv'
  BY DEF PopFirst, TypeOK, LockInv, InCritical, PhaseInv
<1>3. ElmInv' /\ NodeInv'
  BY DEF PopFirst, TypeOK, ElmInv, NodeInv, Forward
<1>4. Forward(content)' /\ PrevInv' /\ LastInv' /\ NewInv'
  BY DEF PopFirst, TypeOK, Forward, PrevInv, Unlinking, LastInv, Linking,
         NewInv
<1>5. NoRepeat'
  BY DEF PopFirst, OnePlace, NoRepeat, TypeOK
<1>6. HeldAlone'
  BY DEF PopFirst, OnePlace, HeldAlone, Holds, Queued, TypeOK
<1>7. Accounted'
  BY DEF PopFirst, OnePlace, Accounted, Holds, Queued, TypeOK, ElmInv,
         NodeInv
<1>8. SizeInv'
  BY DEF PopFirst, TypeOK, SizeInv
<1> QED BY <1>1, <1>2, <1>3, <1>4, <1>5, <1>6, <1>7, <1>8 DEF OnePlace

LEMMA RemoveBackStep ==
  ASSUME IInv, NEW t \in Threads, RemoveBack(t)
  PROVE  IInv'
<1>1. TypeOK' /\ LastInv'
  BY RemoveBackLinks
<1>2. LockInv' /\ PhaseInv'
  BY DEF RemoveBack, TypeOK, LockInv, InCritical, PhaseInv
<1>3. ElmInv' /\ NodeInv'
  BY DEF RemoveBack, TypeOK, ElmInv, NodeInv
<1>4. Forward(content)'
  BY DEF RemoveBack, TypeOK, Forward
<1>5. PrevInv'
  <2> DEFINE n == content[1]
  <2>1. Len(content) \in Nat \ {0} /\ node[t] = n /\ content' = content
    BY DEF RemoveBack, NodeInv, TypeOK
  <2>2. 1 \in 1..Len(content) /\ prev[n] = HEAD /\ n \in Nodes
    BY <2>1 DEF PrevInv, TypeOK
  <2>3. Unlinking'
    BY DEF RemoveBack, TypeOK, Unlinking
  <2>4. next[n] = IF Len(content) = 1 THEN NULL ELSE content[2]
    BY <2>1, <2>2 DEF Forward
  <2>5. CASE Len(content) = 1
    <3>1. prev' = prev
        BY <2>1, <2>4, <2>5 DEF RemoveBack
    <3>2. \A i \in 1..Len(content) : i = 1
        BY <2>5
    <3>q. QED
        BY <3>1, <3>2, <2>1, <2>2 DEF PrevInv
  <2>6. CASE Len(content) # 1
    <3>1. 2 \in 1..Len(content) /\ content[2] \in Nodes
      <4>1. 2 \in 1..Len(content)
        BY <2>1, <2>6, FirstIndices
      <4>q. QED
        BY <4>1 DEF TypeOK
    <3>2. prev' = [prev EXCEPT ![content[2]] = HEAD]
        BY <2>1, <2>2, <2>4, <2>6, <3>1 DEF RemoveBack
    <3>3. \A i \in 1..Len(content) :
              content[i] \in Nodes /\ (content[i] = content[2] => i = 2)
        BY <2>1, <3>1 DEF OnePlace, NoRepeat, TypeOK
    <3>4. ASSUME NEW i \in 1..Len(content)
          PROVE  prev'[content[i]] = IF i = 2 THEN HEAD ELSE prev[content[i]]
        BY <3>1, <3>2, <3>3 DEF TypeOK
    <3>q. QED
        BY <3>4, <2>1, <2>2, <2>3 DEF PrevInv
  <2>q. QED
    BY <2>5, <2>6
<1>6. NewInv'
  BY DEF RemoveBack, TypeOK, NewInv, LockInv, InCritical, PhaseInv
<1>7. NoRepeat' /\ HeldAlone' /\ Accounted'
  <2>1. NoRepeat'
    BY DEF RemoveBack, OnePlace, NoRepeat, TypeOK
  <2>2. HeldAlone'
    BY DEF RemoveBack, OnePlace, HeldAlone, Holds, Queued, TypeOK
  <2>3. Accounted'
    BY DEF RemoveBack, OnePlace, Accounted, HeldAlone, Holds, Queued, TypeOK
  <2> QED BY <2>1, <2>2, <2>3
<1>8. SizeInv'
  BY DEF RemoveBack, TypeOK, SizeInv
<1> QED BY <1>1, <1>2, <1>3, <1>4, <1>5, <1>6, <1>7, <1>8 DEF OnePlace

LEMMA RemoveLinkStep ==
  ASSUME IInv, NEW t \in Threads, RemoveLink(t)
  PROVE  IInv'
<1>1. Forward(content)' /\ LastInv' /\ Accounted'
  BY RemoveLinkMoves
<1>2. TypeOK'
  <2>1. content # <<>> /\ node[t] = content[1] /\ Len(content) \in Nat \ {0}
    BY DEF RemoveLink, NodeInv, TypeOK
  <2>2. prev[node[t]] = HEAD /\ node[t] \in Nodes
    BY <2>1 DEF PrevInv, TypeOK
  <2>3. first' = next[node[t]] /\ next' = next
    BY <2>2 DEF RemoveLink, StoreAt
  <2>4. content' \in Seq(Nodes)
    BY <2>1, TailFacts DEF RemoveLink, TypeOK
  <2>q. QED
    BY <2>2, <2>3, <2>4 DEF RemoveLink, TypeOK
<1>3. LockInv' /\ PhaseInv'
  BY DEF RemoveLink, StoreAt, TypeOK, LockInv, InCritical, PhaseInv
<1>4. ElmInv'
  BY DEF RemoveLink, StoreAt, TypeOK, ElmInv
<1>5. NodeInv'
  BY DEF RemoveLink, StoreAt, TypeOK, NodeInv, LockInv, InCritical, PhaseInv
<1>6. PrevInv' /\ NewInv'
  BY DEF RemoveLink, StoreAt, TypeOK, PrevInv, Unlinking, LockInv,
         InCritical, PhaseInv, NewInv
<1>7. NoRepeat' /\ HeldAlone'
  BY DEF RemoveLink, OnePlace, NoRepeat, TypeOK, HeldAlone, Holds, Queued,
         ElmInv, NodeInv, Forward
<1>8. SizeInv'
  BY DEF RemoveLink, TypeOK, SizeInv, LockInv, InCritical, NodeInv
<1> QED BY <1>1, <1>2, <1>3, <1>4, <1>5, <1>6, <1>7, <1>8 DEF OnePlace

LEMMA ShrinkStep ==
  ASSUME IInv, NEW t \in Threads, Shrink(t), t # Main
  PROVE  IInv'
<1>1. TypeOK'
  BY DEF Shrink, TypeOK
<1>2. LockInv' /\ PhaseInv'
  BY DEF Shrink, TypeOK, LockInv, InCritical, PhaseInv
<1>3. ElmInv' /\ NodeInv'
  BY DEF Shrink, TypeOK, ElmInv, NodeInv
<1>4. Forward(content)' /\ PrevInv' /\ LastInv' /\ NewInv'
  BY DEF Shrink, TypeOK, Forward, PrevInv, Unlinking, LastInv, Linking,
         NewInv
<1>5. NoRepeat' /\ HeldAlone' /\ Accounted'
  <2>1. NoRepeat'
    BY DEF Shrink, OnePlace, NoRepeat, TypeOK
  <2>2. HeldAlone'
    BY DEF Shrink, OnePlace, HeldAlone, Holds, Queued, TypeOK
  <2>3. Accounted'
    BY DEF Shrink, OnePlace, Accounted, HeldAlone, Holds, Queued, TypeOK
  <2> QED BY <2>1, <2>2, <2>3
<1>6. SizeInv'
  BY DEF Shrink, TypeOK, SizeInv, LockInv, InCritical, PhaseInv
<1> QED BY <1>1, <1>2, <1>3, <1>4, <1>5, <1>6 DEF OnePlace

LEMMA PopUnlockStep ==
  ASSUME IInv, NEW t \in Threads, PopUnlock(t), t # Main
  PROVE  IInv'
<1>1. TypeOK'
  BY DEF PopUnlock, Unlock, TypeOK
<1>2. LockInv' /\ PhaseInv'
  BY DEF PopUnlock, Unlock, TypeOK, LockInv, InCritical, PhaseInv
<1>3. ElmInv' /\ NodeInv'
  BY DEF PopUnlock, Unlock, TypeOK, ElmInv, NodeInv
<1>4. Forward(content)' /\ PrevInv' /\ LastInv' /\ NewInv'
  BY DEF PopUnlock, Unlock, TypeOK, Forward, PrevInv, Unlinking, LastInv,
         Linking, NewInv
<1>5. NoRepeat'
  BY DEF PopUnlock, Unlock, OnePlace, NoRepeat, TypeOK
<1>6. HeldAlone'
  BY DEF PopUnlock, Unlock, OnePlace, HeldAlone, Holds, Queued, TypeOK
<1>7. Accounted'
  BY DEF PopUnlock, Unlock, OnePlace, Accounted, Holds, Queued, TypeOK
<1>8. SizeInv'
  BY DEF PopUnlock, Unlock, TypeOK, SizeInv
<1> QED BY <1>1, <1>2, <1>3, <1>4, <1>5, <1>6, <1>7, <1>8 DEF OnePlace

LEMMA FreeNodeStep ==
  ASSUME IInv, NEW t \in Threads, FreeNode(t), t # Main
  PROVE  IInv'
<1>1. TypeOK'
  BY DEF FreeNode, TypeOK
<1>2. LockInv' /\ PhaseInv'
  BY DEF FreeNode, TypeOK, LockInv, InCritical, PhaseInv
<1>3. ElmInv' /\ NodeInv'
  BY DEF FreeNode, TypeOK, ElmInv, NodeInv
<1>4. Forward(content)' /\ PrevInv' /\ LastInv' /\ NewInv'
  BY DEF FreeNode, TypeOK, Forward, PrevInv, Unlinking, LastInv, Linking,
         NewInv
<1>5. NoRepeat' /\ HeldAlone' /\ Accounted'
  <2>1. NoRepeat'
    BY DEF FreeNode, OnePlace, NoRepeat, TypeOK
  <2>2. HeldAlone'
    BY DEF FreeNode, OnePlace, HeldAlone, Holds, Queued, TypeOK
  <2>3. Accounted'
    BY DEF FreeNode, OnePlace, Accounted, HeldAlone, Holds, Queued, TypeOK
  <2> QED BY <2>1, <2>2, <2>3
<1>6. SizeInv'
  BY DEF FreeNode, TypeOK, SizeInv
<1> QED BY <1>1, <1>2, <1>3, <1>4, <1>5, <1>6 DEF OnePlace

LEMMA LeaveStep ==
  ASSUME IInv, NEW t \in Threads, Leave(t), t # Main
  PROVE  IInv'
<1>1. TypeOK'
  BY DEF Leave, TypeOK
<1>2. LockInv' /\ PhaseInv'
  BY DEF Leave, TypeOK, LockInv, InCritical, PhaseInv
<1>3. ElmInv' /\ NodeInv'
  BY DEF Leave, TypeOK, ElmInv, NodeInv
<1>4. Forward(content)' /\ PrevInv' /\ LastInv' /\ NewInv'
  BY DEF Leave, TypeOK, Forward, PrevInv, Unlinking, LastInv, Linking, NewInv
<1>5. NoRepeat' /\ HeldAlone' /\ Accounted'
  <2>1. NoRepeat'
    BY DEF Leave, OnePlace, NoRepeat, TypeOK
  <2>2. HeldAlone'
    BY DEF Leave, OnePlace, HeldAlone, Holds, Queued, TypeOK
  <2>3. Accounted'
    BY DEF Leave, OnePlace, Accounted, HeldAlone, Holds, Queued, TypeOK
  <2> QED BY <2>1, <2>2, <2>3
<1>6. SizeInv'
  BY DEF Leave, TypeOK, SizeInv
<1> QED BY <1>1, <1>2, <1>3, <1>4, <1>5, <1>6 DEF OnePlace

LEMMA StartWorkerStep ==
  ASSUME IInv, NEW t \in Threads, StartWorker(t), t # Main
  PROVE  IInv'
<1>1. TypeOK'
  BY DEF StartWorker, TypeOK
<1>2. LockInv' /\ PhaseInv'
  BY DEF StartWorker, TypeOK, LockInv, InCritical, PhaseInv
<1>3. ElmInv' /\ NodeInv'
  BY DEF StartWorker, TypeOK, ElmInv, NodeInv
<1>4. Forward(content)' /\ PrevInv' /\ LastInv' /\ NewInv'
  BY DEF StartWorker, TypeOK, Forward, PrevInv, Unlinking, LastInv, Linking,
         NewInv
<1>5. NoRepeat' /\ HeldAlone' /\ Accounted'
  <2>1. NoRepeat'
    BY DEF StartWorker, OnePlace, NoRepeat, TypeOK
  <2>2. HeldAlone'
    BY DEF StartWorker, OnePlace, HeldAlone, Holds, Queued, TypeOK
  <2>3. Accounted'
    BY DEF StartWorker, OnePlace, Accounted, HeldAlone, Holds, Queued,
           TypeOK
  <2> QED BY <2>1, <2>2, <2>3
<1>6. SizeInv'
  BY DEF StartWorker, TypeOK, SizeInv
<1> QED BY <1>1, <1>2, <1>3, <1>4, <1>5, <1>6 DEF OnePlace

LEMMA RootMallocFailsStep ==
  ASSUME IInv, RootMallocFails
  PROVE  IInv'
<1>1. TypeOK'
  BY DEF RootMallocFails, TypeOK
<1>2. LockInv' /\ PhaseInv'
  BY DEF RootMallocFails, TypeOK, LockInv, InCritical, PhaseInv
<1>3. ElmInv' /\ NodeInv'
  BY DEF RootMallocFails, TypeOK, ElmInv, NodeInv
<1>4. Forward(content)' /\ PrevInv' /\ LastInv' /\ NewInv'
  BY DEF RootMallocFails, TypeOK, Forward, PrevInv, Unlinking, LastInv,
         Linking, NewInv
<1>5. NoRepeat'
  BY DEF RootMallocFails, OnePlace, NoRepeat, TypeOK
<1>6. HeldAlone'
  BY DEF RootMallocFails, OnePlace, HeldAlone, Holds, Queued, TypeOK
<1>7. Accounted'
  <2>1. \A u \in Threads, n \in Nodes : Holds(u, n)' <=> Holds(u, n)
    BY DEF RootMallocFails, Holds, TypeOK
  <2> QED BY <2>1 DEF RootMallocFails, OnePlace, Accounted, Queued
<1>8. SizeInv'
  BY DEF RootMallocFails, TypeOK, SizeInv
<1> QED BY <1>1, <1>2, <1>3, <1>4, <1>5, <1>6, <1>7, <1>8 DEF OnePlace

LEMMA JoinAllStep ==
  ASSUME IInv, JoinAll
  PROVE  IInv'
<1>1. TypeOK'
  BY DEF JoinAll, TypeOK
<1>2. LockInv' /\ PhaseInv'
  BY DEF JoinAll, TypeOK, LockInv, InCritical, PhaseInv
<1>3. ElmInv' /\ NodeInv'
  BY DEF JoinAll, TypeOK, ElmInv, NodeInv
<1>4. Forward(content)' /\ PrevInv' /\ LastInv' /\ NewInv'
  BY DEF JoinAll, TypeOK, Forward, PrevInv, Unlinking, LastInv, Linking,
         NewInv
<1>5. NoRepeat'
  BY DEF JoinAll, OnePlace, NoRepeat, TypeOK
<1>6. HeldAlone'
  BY DEF JoinAll, OnePlace, HeldAlone, Holds, Queued, TypeOK
<1>7. Accounted'
  <2>1. \A u \in Threads, n \in Nodes : Holds(u, n)' <=> Holds(u, n)
    BY DEF JoinAll, Holds, TypeOK
  <2> QED BY <2>1 DEF JoinAll, OnePlace, Accounted, Queued
<1>8. SizeInv'
  BY DEF JoinAll, TypeOK, SizeInv
<1> QED BY <1>1, <1>2, <1>3, <1>4, <1>5, <1>6, <1>7, <1>8 DEF OnePlace

LEMMA DrainFirstStep ==
  ASSUME IInv, DrainFirst
  PROVE  IInv'
<1>1. TypeOK'
  BY DEF DrainFirst, TypeOK
<1>2. LockInv' /\ PhaseInv'
  BY DEF DrainFirst, TypeOK, LockInv, InCritical, PhaseInv
<1>3. ElmInv' /\ NodeInv'
  BY DEF DrainFirst, TypeOK, ElmInv, NodeInv, Forward
<1>4. Forward(content)' /\ PrevInv' /\ LastInv' /\ NewInv'
  BY DEF DrainFirst, TypeOK, Forward, PrevInv, Unlinking, LastInv, Linking,
         NewInv
<1>5. NoRepeat' /\ HeldAlone' /\ Accounted'
  <2>1. NoRepeat'
    BY DEF DrainFirst, OnePlace, NoRepeat, TypeOK
  <2>2. HeldAlone'
    BY DEF DrainFirst, OnePlace, HeldAlone, Holds, Queued, TypeOK, NodeInv
  <2>3. Accounted'
    BY DEF DrainFirst, OnePlace, Accounted, HeldAlone, Holds, Queued,
           TypeOK, NodeInv
  <2> QED BY <2>1, <2>2, <2>3
<1>6. SizeInv'
  BY DEF DrainFirst, TypeOK, SizeInv
<1> QED BY <1>1, <1>2, <1>3, <1>4, <1>5, <1>6 DEF OnePlace

LEMMA DrainFreeStep ==
  ASSUME IInv, DrainFree
  PROVE  IInv'
<1>1. TypeOK'
  BY DEF DrainFree, TypeOK
<1>2. LockInv' /\ PhaseInv'
  BY DEF DrainFree, TypeOK, LockInv, InCritical, PhaseInv
<1>3. ElmInv' /\ NodeInv'
  BY DEF DrainFree, TypeOK, ElmInv, NodeInv
<1>4. Forward(content)' /\ PrevInv' /\ LastInv' /\ NewInv'
  BY DEF DrainFree, TypeOK, Forward, PrevInv, Unlinking, LastInv, Linking,
         NewInv
<1>5. NoRepeat' /\ HeldAlone' /\ Accounted'
  <2>1. NoRepeat'
    BY DEF DrainFree, OnePlace, NoRepeat, TypeOK
  <2>2. HeldAlone'
    BY DEF DrainFree, OnePlace, HeldAlone, Holds, Queued, TypeOK, PhaseInv,
           NodeInv
  <2>3. Accounted'
    BY DEF DrainFree, OnePlace, Accounted, HeldAlone, Holds, Queued, TypeOK,
           PhaseInv, NodeInv
  <2> QED BY <2>1, <2>2, <2>3
<1>6. SizeInv'
  BY DEF DrainFree, TypeOK, SizeInv
<1> QED BY <1>1, <1>2, <1>3, <1>4, <1>5, <1>6 DEF OnePlace

-----------------------------------------------------------------------------
(* The inductive invariant holds, and with it the properties. *)

LEMMA InitStep ==
  ASSUME Init
  PROVE  IInv
<1>1. \A t \in Threads : pc[t] \in {"init", "unborn"} /\ node[t] = NULL
                            /\ elm[t] = NULL
  BY DEF Init
<1>2. /\ content = <<>> /\ Len(content) = 0 /\ Queued = {}
      /\ first = NULL /\ last = HEAD /\ size = 0 /\ allocated = {}
  BY DEF Init, Queued
<1>3. TypeOK
  BY DEF Init, TypeOK
<1>4. LockInv /\ PhaseInv
  BY DEF Init, LockInv, PhaseInv, InCritical
<1>5. ElmInv /\ NodeInv /\ NewInv
  BY <1>1 DEF ElmInv, NodeInv, NewInv
<1>6. Forward(content) /\ PrevInv /\ LastInv
  BY <1>1, <1>2 DEF Forward, PrevInv, LastInv, Linking, Unlinking
<1>7. OnePlace
  BY <1>1, <1>2 DEF OnePlace, NoRepeat, HeldAlone, Accounted, Holds
<1>8. SizeInv
  BY <1>1, <1>2 DEF SizeInv
<1> QED BY <1>3, <1>4, <1>5, <1>6, <1>7, <1>8

LEMMA NextStep ==
  ASSUME IInv, Next
  PROVE  IInv'
<1>1. ASSUME NEW t \in Threads, Add(t)
      PROVE  IInv'
  BY <1>1, AddMallocStep, AddReadNumberStep, AddWriteNumberStep DEF Add
<1>2. ASSUME NEW t \in Threads, Push(t)
      PROVE  IInv'
  BY <1>2, PushLockStep, InsertNextStep, InsertPrevStep, InsertLinkStep,
     InsertLastStep, GrowStep, PushUnlockStep DEF Push
<1>3. ASSUME NEW t \in Threads, Remove(t)
      PROVE  IInv'
  BY <1>3, RemoveBackStep, RemoveLinkStep DEF Remove
<1>4. ASSUME NEW t \in Workers, Pop(t)
      PROVE  IInv'
  BY <1>3, <1>4, PopLockStep, PopFirstStep, ShrinkStep, PopUnlockStep DEF Pop
<1>5. ASSUME NEW t \in Workers, WorkerNext(t)
      PROVE  IInv'
  BY <1>1, <1>2, <1>4, <1>5, FreeNodeStep, LeaveStep DEF WorkerNext
<1>6. ASSUME MainNext
      PROVE  IInv'
  BY <1>1, <1>2, <1>3, <1>6, RootMallocFailsStep, StartWorkerStep,
     JoinAllStep, DrainFirstStep, DrainFreeStep DEF MainNext
<1> QED BY <1>5, <1>6 DEF Next

LEMMA StutterStep ==
  ASSUME IInv, UNCHANGED vars
  PROVE  IInv'
<1>1. TypeOK'
  BY DEF vars, TypeOK
<1>2. LockInv' /\ PhaseInv'
  BY DEF vars, LockInv, PhaseInv, InCritical
<1>3. ElmInv' /\ NodeInv' /\ NewInv'
  BY DEF vars, ElmInv, NodeInv, NewInv
<1>4. Forward(content)' /\ PrevInv' /\ LastInv'
  BY DEF vars, Forward, PrevInv, LastInv, Linking, Unlinking
<1>5. OnePlace'
  BY DEF vars, OnePlace, NoRepeat, HeldAlone, Accounted, Holds, Queued
<1>6. SizeInv'
  BY DEF vars, SizeInv
<1> QED BY <1>1, <1>2, <1>3, <1>4, <1>5, <1>6

\* IInv holds in every state that any number of workers can reach.
THEOREM Inductive == Spec => []IInv
<1>1. Init => IInv
  BY InitStep
<1>2. IInv /\ [Next]_vars => IInv'
  BY NextStep, StutterStep
<1> QED BY <1>1, <1>2, PTL DEF Spec

\* Every variable, and every pointer, keeps a value of its type.
THEOREM TypeCorrect == Spec => []TypeOK
<1>1. IInv => TypeOK
  OBVIOUS
<1> QED BY <1>1, Inductive, PTL

\* pthread_spin_lock keeps queue_node_push and queue_node_pop apart: of all
\* the threads at most one is inside the critical section.
MutualExclusion ==
    \A t, u \in Threads : InCritical(t) /\ InCritical(u) => t = u

THEOREM LockExcludes == Spec => []MutualExclusion
<1>1. IInv => MutualExclusion
  BY DEF LockInv, MutualExclusion
<1> QED BY <1>1, Inductive, PTL

\* Between two critical sections the TAILQ pointers spell the queue, forward
\* and backward.
THEOREM PointersAgree == Spec => []WellLinked
<1>1. ASSUME IInv, lock = Free, pc[Main] \notin {"remove1", "remove2"}
      PROVE  Forward(content) /\ Backward(content)
  <2>1. ~Linking /\ ~Unlinking
    BY <1>1 DEF LockInv, InCritical, Linking, Unlinking, PhaseInv
  <2>2. Len(content) \in Nat /\ (content = <<>> <=> Len(content) = 0)
    BY <1>1 DEF TypeOK
  <2> QED BY <1>1, <2>1, <2>2 DEF Backward, PrevInv, LastInv
<1>2. IInv => WellLinked
  BY <1>1 DEF WellLinked
<1> QED BY <1>2, Inductive, PTL

\* Outside the critical sections queue_s.size counts the queued nodes.
THEOREM SizeCounts == Spec => []SizeIsLength
<1>1. ASSUME IInv, lock = Free,
             pc[Main] \in {"init", "name", "bump", "push", "start"}
      PROVE  size = Len(content)
  <2>1. \A t \in Threads : pc[t] \notin {"ins4", "grow", "shrink"}
    BY <1>1 DEF LockInv, InCritical
  <2> QED BY <1>1, <2>1 DEF SizeInv
<1>2. IInv => SizeIsLength
  BY <1>1 DEF SizeIsLength
<1> QED BY <1>2, Inductive, PTL

\* A heap block is queued once, or held by one thread, or free: no node is
\* freed twice, used after it was freed, or lost.
THEOREM NodesInOnePlace == Spec => []OnePlace
<1>1. IInv => OnePlace
  OBVIOUS
<1> QED BY <1>1, Inductive, PTL

-----------------------------------------------------------------------------
(* WebQueue implements FifoQueue: the store that links a node in is the    *)
(* Put, the store that links it out the Take, the read of a NULL head the  *)
(* Miss; every other step leaves the abstract queue as it is.              *)

Answers == [t \in Threads |-> AnswerOf(t)]

\* A step that changes neither the history nor any answer is a stutter.
LEMMA SameAnswers ==
  ASSUME \A t \in Threads : AnswerOf(t)' = AnswerOf(t)
  PROVE  Answers' = Answers
BY DEF Answers

LEMMA OneAnswer ==
  ASSUME NEW t \in Threads, NEW a,
         \A u \in Threads : AnswerOf(u)' = IF u = t THEN a ELSE AnswerOf(u)
  PROVE  Answers' = [Answers EXCEPT ![t] = a]
BY DEF Answers

LEMMA InsertLinkIsPut ==
  ASSUME IInv, NEW t \in Threads, InsertLink(t)
  PROVE  Fifo!Put(elm[t])
<1>1. /\ elm[t] \in Nodes /\ node[t] # elm[t] /\ pc[t] = "ins3"
      /\ content' = Append(content, elm[t])
  BY DEF InsertLink, ElmInv
<1>2. Holds(t, elm[t]) /\ elm[t] \notin Queued
  BY <1>1 DEF Holds, HeldAlone, OnePlace
<1>3. ASSUME NEW u \in Threads
      PROVE  AnswerOf(u) # elm[t]
  <2>1. node[u] = elm[t] /\ pc[u] \notin RemovePCs => u = t
    BY <1>1, <1>2 DEF Holds, HeldAlone, OnePlace
  <2> QED BY <1>1, <2>1 DEF AnswerOf
<1>4. elm[t] \notin Fifo!Queued \cup Fifo!Taken
  BY <1>2, <1>3 DEF Fifo!Queued, Fifo!Taken, Queued
<1>5. \A u \in Threads : AnswerOf(u)' = AnswerOf(u)
  BY DEF InsertLink, AnswerOf, TypeOK
<1>6. Answers' = Answers
  BY <1>5, SameAnswers
<1> QED BY <1>1, <1>4, <1>6 DEF Fifo!Put, Answers

LEMMA RemoveLinkIsTake ==
  ASSUME IInv, NEW t \in Threads, RemoveLink(t)
  PROVE  Fifo!Take(t)
<1>1. /\ pc[t] = "remove2" /\ content # <<>> /\ node[t] = Head(content)
      /\ content' = Tail(content)
  BY DEF RemoveLink, NodeInv, TypeOK
<1>2. AnswerOf(t) = NULL
  BY <1>1 DEF AnswerOf
<1>3. \A u \in Threads :
         AnswerOf(u)' = IF u = t THEN Head(content) ELSE AnswerOf(u)
  BY <1>1 DEF RemoveLink, AnswerOf, TypeOK
<1>4. Answers' = [Answers EXCEPT ![t] = Head(content)]
  BY <1>3, OneAnswer
<1>5. Answers[t] = NULL
  BY <1>2 DEF Answers
<1> QED BY <1>1, <1>4, <1>5 DEF Fifo!Take, Answers

LEMMA PopFirstIsMiss ==
  ASSUME IInv, NEW t \in Threads, t # Main, PopFirst(t), first = NULL
  PROVE  Fifo!Miss(t)
<1>1. content = <<>> /\ content' = content
  BY DEF PopFirst, Forward, TypeOK
<1>2. AnswerOf(t) = NULL
  BY DEF PopFirst, AnswerOf, NodeInv
<1>3. \A u \in Threads : AnswerOf(u)' = IF u = t THEN HEAD ELSE AnswerOf(u)
  BY DEF PopFirst, AnswerOf, TypeOK
<1>4. Answers' = [Answers EXCEPT ![t] = HEAD]
  BY <1>3, OneAnswer
<1>5. Answers[t] = NULL
  BY <1>2 DEF Answers
<1> QED BY <1>1, <1>4, <1>5 DEF Fifo!Miss, Answers

LEMMA GiveBackIsFinish ==
  ASSUME IInv, NEW t \in Threads,
         \/ FreeNode(t)
         \/ PopUnlock(t) /\ node[t] = NULL
         \/ DrainFree /\ t = Main
  PROVE  Fifo!Finish(t)
<1>1. content' = content
  BY DEF FreeNode, PopUnlock, DrainFree
<1>2. AnswerOf(t) # NULL
  BY DEF FreeNode, PopUnlock, DrainFree, AnswerOf, NodeInv
<1>3. \A u \in Threads : AnswerOf(u)' = IF u = t THEN NULL ELSE AnswerOf(u)
  BY DEF FreeNode, PopUnlock, DrainFree, AnswerOf, TypeOK
<1>4. Answers' = [Answers EXCEPT ![t] = NULL]
  BY <1>3, OneAnswer
<1>5. Answers[t] # NULL
  BY <1>2 DEF Answers
<1> QED BY <1>1, <1>4, <1>5 DEF Fifo!Finish, Answers

LEMMA PushIsStutter ==
  ASSUME IInv, NEW t \in Threads,
         \/ Add(t) \/ PushLock(t) \/ InsertNext(t) \/ InsertPrev(t)
         \/ InsertLast(t) \/ Grow(t) \/ PushUnlock(t)
  PROVE  content' = content /\ Answers' = Answers
<1>1. content' = content /\ node' = node
  BY DEF Add, AddMalloc, AddReadNumber, AddWriteNumber, PushLock, InsertNext,
         InsertPrev, InsertLast, Grow, PushUnlock
<1>2. /\ \A u \in Threads : u # t => pc'[u] = pc[u]
      /\ {pc[t], pc'[t]} \cap {"unlockpop", "remove1", "remove2"} = {}
  BY DEF Add, AddMalloc, AddReadNumber, AddWriteNumber, PushLock, InsertNext,
         InsertPrev, InsertLast, Grow, PushUnlock, CallSite, Return, TypeOK
<1>3. \A u \in Threads : AnswerOf(u)' = AnswerOf(u)
  BY <1>1, <1>2 DEF AnswerOf
<1> QED BY <1>1, <1>3, SameAnswers

LEMMA PopIsStutter ==
  ASSUME IInv, NEW t \in Threads,
         \/ PopLock(t) \/ Shrink(t) \/ RemoveBack(t) \/ Leave(t)
         \/ PopFirst(t) /\ first # NULL
         \/ PopUnlock(t) /\ node[t] # NULL
  PROVE  content' = content /\ Answers' = Answers
<1>1. content' = content
  BY DEF PopLock, Shrink, RemoveBack, Leave, PopFirst, PopUnlock
<1>2. \A u \in Threads : AnswerOf(u)' = AnswerOf(u)
  BY DEF PopLock, Shrink, RemoveBack, Leave, PopFirst, PopUnlock, AnswerOf,
         TypeOK, NodeInv
<1> QED BY <1>1, <1>2, SameAnswers

LEMMA MainIsStutter ==
  ASSUME IInv,
         \/ RootMallocFails \/ JoinAll \/ DrainFirst
         \/ \E w \in Workers : StartWorker(w)
  PROVE  content' = content /\ Answers' = Answers
<1>1. content' = content
  BY DEF RootMallocFails, JoinAll, DrainFirst, StartWorker
<1>2. \A u \in Threads : AnswerOf(u)' = AnswerOf(u)
  BY DEF RootMallocFails, JoinAll, DrainFirst, StartWorker, AnswerOf, TypeOK,
         NodeInv
<1> QED BY <1>1, <1>2, SameAnswers

LEMMA FifoStep ==
  ASSUME IInv, Next
  PROVE  Fifo!FifoNext \/ UNCHANGED Fifo!fifoVars
<1> DEFINE Stutter == content' = content /\ Answers' = Answers
<1>1. ASSUME NEW t \in Threads, Add(t) \/ Push(t)
      PROVE  (Fifo!Put(elm[t]) /\ elm[t] \in Nodes) \/ Stutter
  BY <1>1, InsertLinkIsPut, PushIsStutter DEF Push, InsertLink, ElmInv
<1>2. ASSUME NEW t \in Threads, Remove(t)
      PROVE  Fifo!Take(t) \/ Stutter
  BY <1>2, RemoveLinkIsTake, PopIsStutter DEF Remove
<1>3. ASSUME NEW t \in Workers, Pop(t) \/ FreeNode(t) \/ Leave(t)
      PROVE  Fifo!Take(t) \/ Fifo!Miss(t) \/ Fifo!Finish(t) \/ Stutter
  BY <1>2, <1>3, PopFirstIsMiss, PopIsStutter, GiveBackIsFinish DEF Pop
<1>4. ASSUME RootMallocFails \/ JoinAll \/ DrainFirst \/ DrainFree
               \/ \E w \in Workers : StartWorker(w)
      PROVE  Fifo!Finish(Main) \/ Stutter
  BY <1>4, MainIsStutter, GiveBackIsFinish
<1>5. Fifo!FifoNext \/ Stutter
  BY <1>1, <1>2, <1>3, <1>4
     DEF Next, MainNext, WorkerNext, Fifo!FifoNext
<1> QED BY <1>5 DEF Fifo!fifoVars, Answers

LEMMA FifoStart ==
  ASSUME Init
  PROVE  Fifo!FifoInit
<1>1. \A t \in Threads : AnswerOf(t) = NULL
  BY DEF Init, AnswerOf
<1> QED BY <1>1 DEF Fifo!FifoInit, Init

LEMMA FifoStutter ==
  ASSUME UNCHANGED vars
  PROVE  UNCHANGED Fifo!fifoVars
<1>1. \A t \in Threads : AnswerOf(t)' = AnswerOf(t)
  BY DEF vars, AnswerOf
<1> QED BY <1>1, SameAnswers DEF vars, Fifo!fifoVars, Answers

\* The pointers, the lock and the order of the stores implement an atomic
\* FIFO queue: what a pop returns is the oldest node of the queue, and NULL
\* only if the queue was empty.
THEOREM Refinement == Spec => ImplementsFifo
<1>1. Init => Fifo!FifoInit
  BY FifoStart
<1>2. IInv /\ [Next]_vars => [Fifo!FifoNext]_(Fifo!fifoVars)
  BY FifoStep, FifoStutter
<1> QED BY <1>1, <1>2, Inductive, PTL DEF Spec, ImplementsFifo, Fifo!FifoSpec

-----------------------------------------------------------------------------
(* What queue_exit leaves. *)

\* main returns from queue_exit when it has read a NULL head.
Drained == pc[Main] = "exited" => content = <<>>

LEMMA DrainedStep ==
  ASSUME IInv, Drained, Next
  PROVE  Drained'
<1>1. CASE pc[Main] = "exited"
  <2>1. \A w \in Workers : pc[w] = "exited"
    BY <1>1 DEF PhaseInv
  <2>2. ~MainNext
    BY <1>1, <2>1
       DEF MainNext, Add, AddMalloc, AddReadNumber, AddWriteNumber,
           RootMallocFails, Push, PushLock, InsertNext, InsertPrev,
           InsertLink, InsertLast, Grow, PushUnlock, StartWorker, JoinAll,
           DrainFirst, Remove, RemoveBack, RemoveLink, DrainFree, CallSite
  <2>3. ASSUME NEW w \in Workers
        PROVE  ~WorkerNext(w)
    BY <2>1
       DEF WorkerNext, Add, AddMalloc, AddReadNumber, AddWriteNumber, Push,
           PushLock, InsertNext, InsertPrev, InsertLink, InsertLast, Grow,
           PushUnlock, Pop, PopLock, PopFirst, Remove, RemoveBack,
           RemoveLink, Shrink, PopUnlock, FreeNode, Leave, CallSite
  <2> QED BY <2>2, <2>3 DEF Next
<1>2. CASE pc[Main] # "exited"
  <2>1. DrainFirst => Drained'
    BY DEF DrainFirst, Forward, Drained, TypeOK
  <2>2. ASSUME NEW w \in Workers, WorkerNext(w)
        PROVE  pc'[Main] = pc[Main]
    BY <2>2
       DEF WorkerNext, Add, AddMalloc, AddReadNumber, AddWriteNumber, Push,
           PushLock, InsertNext, InsertPrev, InsertLink, InsertLast, Grow,
           PushUnlock, Pop, PopLock, PopFirst, Remove, RemoveBack,
           RemoveLink, Shrink, PopUnlock, FreeNode, Leave, TypeOK
  <2>3. MainNext => DrainFirst \/ pc'[Main] # "exited"
    BY <1>2
       DEF MainNext, Add, AddMalloc, AddReadNumber, AddWriteNumber,
           RootMallocFails, Push, PushLock, InsertNext, InsertPrev,
           InsertLink, InsertLast, Grow, PushUnlock, StartWorker, JoinAll,
           Remove, RemoveBack, RemoveLink, DrainFree, Return, TypeOK
  <2> QED BY <1>2, <2>1, <2>2, <2>3 DEF Next, Drained
<1> QED BY <1>1, <1>2

\* Every block malloc gave has been freed when main returns.
THEOREM NothingLeaks == Spec => []NothingLeaked
<1>1. Init => Drained
  BY DEF Init, Drained
<1>2. IInv /\ Drained /\ [Next]_vars => Drained'
  <2>1. ASSUME Drained, UNCHANGED vars
        PROVE  Drained'
    BY <2>1 DEF Drained, vars
  <2> QED BY <2>1, DrainedStep
<1>3. ASSUME IInv, Drained, pc[Main] = "exited"
      PROVE  allocated = {}
  <2>1. content = <<>> /\ \A w \in Workers : pc[w] = "exited"
    BY <1>3 DEF Drained, PhaseInv
  <2>2. Queued = {}
    BY <2>1 DEF Queued
  <2>3. \A t \in Threads, n \in Nodes : ~Holds(t, n)
    BY <1>3, <2>1 DEF Holds, NodeInv, ElmInv
  <2> QED BY <1>3, <2>2, <2>3 DEF OnePlace, Accounted, TypeOK
<1>4. IInv /\ Drained => NothingLeaked
  BY <1>3 DEF NothingLeaked
<1> QED BY <1>1, <1>2, <1>4, Inductive, PTL DEF Spec
=============================================================================
