------------------------------ MODULE TaskPool ------------------------------
(***************************************************************************)
(* What a scheduler of this library promises to its clients, without its   *)
(* counters, locks and fibers.  A pool of threads serves one queue of      *)
(* tasks.  A task may name the only thread allowed to run it.  Each thread *)
(* takes the oldest task it may run, works on it, and gives it back; the   *)
(* pool may be told to close, and a thread leaves only when no work is     *)
(* left and none can appear.                                               *)
(*                                                                         *)
(* Scheduler.tla is shown to implement this module.                        *)
(***************************************************************************)
EXTENDS Naturals, Sequences, SequencesExt

CONSTANTS
  Workers,      \* the threads of the pool
  Jobs,         \* what can be queued
  NoJob,        \* what a thread without work holds
  MayRun(_, _)  \* MayRun(t, k): thread t is allowed to run job k

VARIABLES
  queue,        \* submitted jobs nobody has taken, oldest first
  running,      \* running[t]: the job thread t works on
  closing,      \* the pool has been told to close
  gone          \* threads that have decided to leave

poolVars == <<queue, running, closing, gone>>

\* No job waits and no thread works on one: since only the owner (before it
\* closes the pool) and running jobs submit, nothing can appear any more.
Drained == closing /\ queue = <<>> /\ \A t \in Workers : running[t] = NoJob

PoolInit ==
  /\ queue = <<>>
  /\ running = [t \in Workers |-> NoJob]
  /\ closing = FALSE
  /\ gone = {}

\* A job enters at the end of the queue: from the owner of a pool that is not
\* closing, or from a job that is being worked on.
Submit ==
  /\ ~closing \/ \E t \in Workers : running[t] # NoJob
  /\ \E k \in Jobs : queue' = Append(queue, k)
  /\ UNCHANGED <<running, closing, gone>>

\* Thread t takes the oldest job it may run.
Take(t) ==
  /\ running[t] = NoJob
  /\ t \notin gone
  /\ \E i \in 1..Len(queue) :
       /\ MayRun(t, queue[i])
       /\ \A j \in 1..(i - 1) : ~MayRun(t, queue[j])
       /\ running' = [running EXCEPT ![t] = queue[i]]
       /\ queue' = RemoveAt(queue, i)
  /\ UNCHANGED <<closing, gone>>

GiveBack(t) ==
  /\ running[t] # NoJob
  /\ running' = [running EXCEPT ![t] = NoJob]
  /\ UNCHANGED <<queue, closing, gone>>

Close ==
  /\ closing' = TRUE
  /\ UNCHANGED <<queue, running, gone>>

\* A thread leaves only a drained pool.
Leave(t) ==
  /\ Drained
  /\ gone' = gone \cup {t}
  /\ UNCHANGED <<queue, running, closing>>

PoolNext ==
  \/ Submit
  \/ Close
  \/ \E t \in Workers : Take(t) \/ GiveBack(t) \/ Leave(t)

PoolSpec == PoolInit /\ [][PoolNext]_poolVars
=============================================================================
