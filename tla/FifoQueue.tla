------------------------------ MODULE FifoQueue ------------------------------
(***************************************************************************)
(* What the crawler's web queue promises: one FIFO queue shared by         *)
(* threads, in which a put and a take each happen at one instant.  A node  *)
(* is in one place at a time: in the queue, or with the one thread that    *)
(* took it, or nowhere.  WebQueue, the queue as it is programmed with      *)
(* TAILQ pointers and a spin lock, implements this module.                 *)
(***************************************************************************)
EXTENDS Sequences

CONSTANTS Threads,  \* the threads that share the queue
          Nodes,    \* the queue nodes that may exist
          Nothing,  \* the answer of a thread that has asked for nothing
          Empty     \* the answer "there is no node"; neither is a node

VARIABLES items,    \* the queued nodes, oldest first
          answer    \* what the last take of a thread gave it

fifoVars == <<items, answer>>

Queued == {items[i] : i \in DOMAIN items}
Taken  == {answer[t] : t \in Threads}

-----------------------------------------------------------------------------
FifoInit ==
    /\ items = <<>>
    /\ answer = [t \in Threads |-> Nothing]

\* A node that is in nobody's hands becomes the youngest of the queue.
Put(n) ==
    /\ n \notin Queued \cup Taken
    /\ items' = Append(items, n)
    /\ UNCHANGED answer

\* A thread takes the oldest node ...
Take(t) ==
    /\ answer[t] = Nothing
    /\ items # <<>>
    /\ answer' = [answer EXCEPT ![t] = Head(items)]
    /\ items' = Tail(items)

\* ... or learns that there is none at this instant.
Miss(t) ==
    /\ answer[t] = Nothing
    /\ items = <<>>
    /\ answer' = [answer EXCEPT ![t] = Empty]
    /\ UNCHANGED items

\* The thread has done with the answer; a taken node ceases to exist.
Finish(t) ==
    /\ answer[t] # Nothing
    /\ answer' = [answer EXCEPT ![t] = Nothing]
    /\ UNCHANGED items

FifoNext ==
    \/ \E n \in Nodes : Put(n)
    \/ \E t \in Threads : Take(t) \/ Miss(t) \/ Finish(t)

FifoSpec == FifoInit /\ [][FifoNext]_fifoVars

=============================================================================
