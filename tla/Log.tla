-------------------------------- MODULE Log --------------------------------
(***************************************************************************)
(* CLog, the log shared by all threads: Logf writes one line, a time stamp *)
(* and a text, under a mutex; GetFileFp, called inside, opens the file on  *)
(* the first line and means to change it every day.                        *)
(*                                                                         *)
(* localtime returns a pointer to ONE static struct tm, so GetFileFp's     *)
(* "local" and "front_local" are the same storage: the variable tm.        *)
(***************************************************************************)
EXTENDS Naturals, Sequences

CONSTANTS Threads,
          DayLength,   \* the ticks of a day
          LastTick,    \* bound: the clock stops here
          MaxLines     \* bound: the lines written in a run

Nobody == "nobody"

ASSUME LogAssumption ==
    /\ Nobody \notin Threads
    /\ DayLength \in Nat \ {0}
    /\ LastTick \in Nat
    /\ MaxLines \in Nat

NoFile == {}         \* m_File is NULL; otherwise the set of the file's date
Day(time) == time \div DayLength

VARIABLES now,      \* the clock behind time(NULL)
          tm,       \* localtime's static result
          m_Time, m_File, m_Lock, szContentTitle,
          t,        \* the local of GetFileFp, for the holder of the mutex
          pc,       \* where each thread is in Logf
          called,   \* history: when the thread entered the mutex
          written   \* history: what was written, to whichever file

vars == <<now, tm, m_Time, m_File, m_Lock, szContentTitle, t, pc, called,
          written>>

-----------------------------------------------------------------------------
\* The constructors set everything but m_Time: it is what the heap held.
Init ==
    /\ now \in 0..LastTick
    /\ tm = now
    /\ m_Time \in 0..LastTick
    /\ m_File = NoFile
    /\ m_Lock = Nobody
    /\ szContentTitle = 0
    /\ t = now
    /\ pc = [th \in Threads |-> "idle"]
    /\ called = now
    /\ written = <<>>

Alive == \A th \in Threads : pc[th] # "aborted"

Goto(th, from, to) ==
    /\ Alive
    /\ pc[th] = from
    /\ pc' = [pc EXCEPT ![th] = to]

Clock ==
    /\ Alive
    /\ now < LastTick
    /\ now' = now + 1
    /\ UNCHANGED <<tm, m_Time, m_File, m_Lock, szContentTitle, t, pc, called,
                   written>>

\* Mutant: Logf without pthread_mutex_lock.
LogUnlocked(th) ==
    /\ Len(written) < 2 * MaxLines
    /\ Goto(th, "idle", "localtime")
    /\ m_Lock' = th
    /\ called' = now
    /\ UNCHANGED <<now, tm, m_Time, m_File, szContentTitle, t, written>>

LogLock(th) ==              \* Logf: pthread_mutex_lock
    /\ Len(written) < 2 * MaxLines
    /\ m_Lock = Nobody
    /\ Goto(th, "idle", "localtime")
    /\ m_Lock' = th
    /\ called' = now
    /\ UNCHANGED <<now, tm, m_Time, m_File, szContentTitle, t, written>>

LocalTime(th) ==            \* t = time(NULL); local = localtime(&t)
    /\ Goto(th, "localtime", "front")
    /\ t' = now
    /\ tm' = now
    /\ UNCHANGED <<now, m_Time, m_File, m_Lock, szContentTitle, called,
                   written>>

FrontTime(th) ==            \* front_local = localtime(&m_Time); the title
    /\ Goto(th, "front", "file")
    /\ tm' = m_Time
    /\ szContentTitle' = m_Time
    /\ UNCHANGED <<now, m_Time, m_File, m_Lock, t, called, written>>

\* The two dates GetFileFp compares; local also names the file.
local       == tm
front_local == tm

\* The rest of GetFileFp.  fopen may fail, and then Logf's assertion ends the
\* process.
GetFile(th) ==
    LET opens == m_File = NoFile \/ Day(local) # Day(front_local)
    IN  /\ \/ Goto(th, "file", "title")
           \/ opens /\ Goto(th, "file", "aborted")
        /\ m_Time' = IF opens THEN t ELSE m_Time
        /\ m_File' = IF opens THEN {Day(local)} ELSE m_File
        /\ UNCHANGED <<now, tm, m_Lock, szContentTitle, t, called, written>>

WriteTitle(th) ==
    /\ Goto(th, "title", "body")
    /\ written' = Append(written, <<th, "title">>)
    /\ UNCHANGED <<now, tm, m_Time, m_File, m_Lock, szContentTitle, t,
                   called>>

WriteBody(th) ==
    /\ Goto(th, "body", "unlock")
    /\ written' = Append(written, <<th, "body">>)
    /\ UNCHANGED <<now, tm, m_Time, m_File, m_Lock, szContentTitle, t,
                   called>>

LogUnlock(th) ==            \* and the end of Logf
    /\ Goto(th, "unlock", "idle")
    /\ m_Lock' = Nobody
    /\ UNCHANGED <<now, tm, m_Time, m_File, szContentTitle, t, called,
                   written>>

Logf(th) ==
    \/ LogLock(th) \/ LocalTime(th) \/ FrontTime(th) \/ GetFile(th)
    \/ WriteTitle(th) \/ WriteBody(th) \/ LogUnlock(th)

Next == Clock \/ \E th \in Threads : Logf(th)

Spec == Init /\ [][Next]_vars

-----------------------------------------------------------------------------
(* Properties *)

\* Lines of different threads never mix: in the order of the writes, every
\* title is followed by the text of the same thread.
LinesWhole ==
    \A i \in DOMAIN written :
        IF written[i][2] = "title"
        THEN i < Len(written) => written[i+1] = <<written[i][1], "body">>
        ELSE i > 1 /\ written[i-1] = <<written[i][1], "title">>

\* What the comment in Logf says of the title: it is the time, taken between
\* the start of the call and the write.  (Stated from the second line on: the
\* first one depends on what the heap held.)
StampIsTheTime ==
    \A th \in Threads :
        pc[th] = "title" /\ written # <<>> => szContentTitle \in called..now

=============================================================================
