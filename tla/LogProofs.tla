------------------------------ MODULE LogProofs ------------------------------
(* Lines stay whole, for any number of threads, of lines and of ticks. *)
EXTENDS Log, TLAPS

PCs  == {"idle", "localtime", "front", "file", "title", "body", "unlock", "aborted"}
Held == {"localtime", "front", "file", "title", "body", "unlock"}
Parts == Threads \X {"title", "body"}

\* A thread inside Logf holds the mutex, and the one that has written a title
\* and no text yet is the one whose title comes last.
LinesInv ==
    /\ pc \in [Threads -> PCs]
    /\ written \in Seq(Parts)
    /\ \A th \in Threads : pc[th] \in Held => m_Lock = th
    /\ \A th \in Threads :
          pc[th] = "body" <=> written # <<>> /\ written[Len(written)] = <<th, "title">>
    /\ LinesWhole

LEMMA AppendFacts ==
  ASSUME NEW seq \in Seq(Parts), NEW e \in Parts
  PROVE  /\ Append(seq, e) \in Seq(Parts) /\ Append(seq, e) # <<>>
         /\ Len(Append(seq, e)) = Len(seq) + 1 /\ Len(seq) \in Nat
         /\ DOMAIN Append(seq, e) = 1..(Len(seq) + 1) /\ DOMAIN seq = 1..Len(seq)
         /\ Append(seq, e)[Len(seq) + 1] = e
         /\ \A i \in 1..Len(seq) : Append(seq, e)[i] = seq[i]
OBVIOUS

LEMMA TitleKeeps == ASSUME LinesInv, NEW th \in Threads, WriteTitle(th) PROVE LinesInv'
<1> DEFINE e == <<th, "title">>
<1>1. /\ pc[th] = "title" /\ pc' = [pc EXCEPT ![th] = "body"]
      /\ written' = Append(written, e) /\ m_Lock' = m_Lock /\ e \in Parts
  BY DEF WriteTitle, Goto, Parts
<1>2. \A u \in Threads : pc[u] # "body"
  BY <1>1 DEF LinesInv, Held
<1>3. written # <<>> => written[Len(written)][2] = "body"
  <2> SUFFICES ASSUME written # <<>> PROVE written[Len(written)][2] = "body"
    OBVIOUS
  <2>1. written[Len(written)] \in Parts
    BY DEF LinesInv
  <2>2. PICK u \in Threads, part \in {"title", "body"} : written[Len(written)] = <<u, part>>
    BY <2>1 DEF Parts
  <2> QED
    BY <1>2, <2>2 DEF LinesInv
<1>4. LinesWhole'
  <2>1. \A i \in 1..Len(written) : written[i] \in Parts
    BY DEF LinesInv
  <2> QED
    BY <1>1, <1>3, <2>1, AppendFacts DEF LinesInv, LinesWhole
<1>5. \A u \in Threads : pc'[u] = "body" <=> u = th
  BY <1>1, <1>2 DEF LinesInv
<1>6. written' # <<>> /\ written'[Len(written')] = e /\ written' \in Seq(Parts)
  BY <1>1, AppendFacts DEF LinesInv
<1> QED
  BY <1>1, <1>4, <1>5, <1>6 DEF LinesInv, PCs, Held

LEMMA BodyKeeps == ASSUME LinesInv, NEW th \in Threads, WriteBody(th) PROVE LinesInv'
<1> DEFINE e == <<th, "body">>
<1>1. /\ pc[th] = "body" /\ pc' = [pc EXCEPT ![th] = "unlock"]
      /\ written' = Append(written, e) /\ m_Lock' = m_Lock /\ e \in Parts
  BY DEF WriteBody, Goto, Parts
<1>2. \A u \in Threads : u # th => pc[u] # "body"
  BY <1>1 DEF LinesInv, Held
<1>3. written # <<>> /\ written[Len(written)] = <<th, "title">> /\ Len(written) \in Nat \ {0}
  BY <1>1 DEF LinesInv
<1>4. LinesWhole'
  <2> DEFINE n == Len(written)
  <2>1. /\ DOMAIN written' = 1..(n + 1) /\ Len(written') = n + 1 /\ n \in Nat \ {0}
        /\ DOMAIN written = 1..n /\ written'[n + 1] = e
        /\ \A i \in 1..n : written'[i] = written[i]
    BY <1>1, <1>3, AppendFacts DEF LinesInv
  <2> HIDE DEF n
  <2> SUFFICES ASSUME NEW i \in 1..(n + 1)
               PROVE IF written'[i][2] = "title"
                     THEN i < n + 1 => written'[i + 1] = <<written'[i][1], "body">>
                     ELSE i > 1 /\ written'[i - 1] = <<written'[i][1], "title">>
    BY <2>1 DEF LinesWhole
  <2>2. CASE i = n + 1
    <3>1. written'[i] = e /\ i - 1 = n /\ written'[n] = <<th, "title">> /\ i > 1
      BY <1>3, <2>1, <2>2 DEF n
    <3> QED
      BY <3>1
  <2>3. CASE i = n
    <3>1. written'[i] = <<th, "title">> /\ written'[i + 1] = e
      BY <1>3, <2>1, <2>3 DEF n
    <3> QED
      BY <3>1
  <2>4. CASE i \in 1..(n - 1)
    <3>1. written'[i] = written[i] /\ written'[i + 1] = written[i + 1]
          /\ (i > 1 => written'[i - 1] = written[i - 1]) /\ i < n
      BY <2>1, <2>4
    <3>2. IF written[i][2] = "title"
          THEN i < n => written[i + 1] = <<written[i][1], "body">>
          ELSE i > 1 /\ written[i - 1] = <<written[i][1], "title">>
      <4>1. i \in DOMAIN written /\ n = Len(written)
        BY <2>1, <2>4 DEF n
      <4>2. IF written[i][2] = "title"
            THEN i < Len(written) => written[i + 1] = <<written[i][1], "body">>
            ELSE i > 1 /\ written[i - 1] = <<written[i][1], "title">>
        BY <4>1, Zenon DEF LinesInv, LinesWhole
      <4> QED
        BY <4>1, <4>2
    <3> QED
      BY <3>1, <3>2
  <2> QED
    BY <2>1, <2>2, <2>3, <2>4
<1>5. \A u \in Threads : pc'[u] # "body"
  BY <1>1, <1>2 DEF LinesInv
<1>6. written' # <<>> /\ written'[Len(written')] = e /\ written' \in Seq(Parts)
  BY <1>1, AppendFacts DEF LinesInv
<1> QED
  BY <1>1, <1>4, <1>5, <1>6 DEF LinesInv, PCs, Held

LEMMA LinesInvStep == LinesInv /\ [Next]_vars => LinesInv'
<1> SUFFICES ASSUME LinesInv, [Next]_vars PROVE LinesInv'
  OBVIOUS
<1>1. CASE Clock \/ UNCHANGED vars
  BY <1>1 DEF Clock, vars, LinesInv, LinesWhole
<1>2. ASSUME NEW th \in Threads, Logf(th) PROVE LinesInv'
  <2>1. CASE LogLock(th)
    <3>1. /\ UNCHANGED written /\ m_Lock = Nobody /\ m_Lock' = th /\ pc[th] = "idle"
          /\ pc' = [pc EXCEPT ![th] = "localtime"]
      BY <2>1 DEF LogLock, Goto
    <3>2. \A u \in Threads : pc[u] \notin Held
      BY <3>1, LogAssumption DEF LinesInv
    <3> QED
      BY <3>1, <3>2 DEF LinesInv, LinesWhole, PCs, Held
  <2>2. CASE LocalTime(th) \/ FrontTime(th) \/ GetFile(th)
    <3>1. /\ UNCHANGED <<written, m_Lock>>
          /\ \/ pc[th] = "localtime" /\ pc' = [pc EXCEPT ![th] = "front"]
             \/ pc[th] = "front" /\ pc' = [pc EXCEPT ![th] = "file"]
             \/ pc[th] = "file" /\ pc' = [pc EXCEPT ![th] = "title"]
             \/ pc[th] = "file" /\ pc' = [pc EXCEPT ![th] = "aborted"]
      BY <2>2 DEF LocalTime, FrontTime, GetFile, Goto
    <3> QED
      BY <3>1 DEF LinesInv, LinesWhole, PCs, Held
  <2>3. CASE WriteTitle(th)
    BY <2>3, TitleKeeps
  <2>4. CASE WriteBody(th)
    BY <2>4, BodyKeeps
  <2>5. CASE LogUnlock(th)
    BY <2>5 DEF LogUnlock, Goto, LinesInv, LinesWhole, PCs, Held
  <2> QED
    BY <1>2, <2>1, <2>2, <2>3, <2>4, <2>5 DEF Logf
<1> QED
  BY <1>1, <1>2 DEF Next

\* For any number of threads: the mutex keeps the title and the text of a line
\* together, whoever else logs, and also when the process ends in between.
THEOREM LinesStayWhole == Spec => []LinesWhole
<1>1. Init => LinesInv
  BY DEF Init, LinesInv, LinesWhole, PCs, Held, Parts
<1>2. LinesInv => LinesWhole
  BY DEF LinesInv
<1> QED
  BY <1>1, <1>2, LinesInvStep, PTL DEF Spec

=============================================================================
