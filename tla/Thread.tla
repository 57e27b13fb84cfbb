------------------------------- MODULE Thread -------------------------------
(***************************************************************************)
(* Thread and Semaphore (thread.h, thread.cpp), as Scheduler::start() and  *)
(* Scheduler::stop() use them: the constructor creates a POSIX thread and  *)
(* waits on the semaphore that the new thread signals, start() constructs  *)
(* one Thread after the other while it holds m_mutex, stop() joins them.   *)
(*                                                                         *)
(* Semaphore::wait() waits until count is 0 and then decrements it;        *)
(* signal() increments it.  Nothing else changes count, so a waiter that   *)
(* finds it at 1 waits for good.                                           *)
(*                                                                         *)
(* A definition X_Y just before X is X with a plausible bug Y; it is used  *)
(* only to confirm that the properties notice the bug.                     *)
(***************************************************************************)
EXTENDS Integers, FiniteSets

CONSTANTS
  N           \* m_threadCount

ASSUME NAssumption == N \in Nat \ {0}

Workers == 1..N

VARIABLES
  mainPc,     \* where the thread that calls start() and stop() is
  i,          \* the loop variable of start() and of stop()
  locked,     \* start() holds m_mutex
  m_stopping,
  count,      \* count[w]: the semaphore of thread w
  m_id,       \* m_id[w]: has the new thread written m_id, or is it still -1?
  m_threadIds,\* what start() has recorded: for each thread, whether the id was valid
  m_thread,   \* m_thread[w]: the handle is set (created and not joined)
  workerPc    \* where thread w is

vars == <<mainPc, i, locked, m_stopping, count, m_id, m_threadIds, m_thread, workerPc>>

\* The types of the variables; a semaphore is signalled once and waited for once.
TypeOK ==
  /\ mainPc \in {"idle", "create", "wait", "record", "started", "threw", "swap", "join", "stopped"}
  /\ i \in 1..(N + 1)
  /\ locked \in BOOLEAN /\ m_stopping \in BOOLEAN
  /\ count \in [Workers -> {-1, 0, 1}]
  /\ m_id \in [Workers -> BOOLEAN]
  /\ m_threadIds \in [Workers -> {"none", "valid", "invalid"}]
  /\ m_thread \in [Workers -> BOOLEAN]
  /\ workerPc \in [Workers -> {"none", "born", "named", "signalled", "loop", "exited"}]

Init ==
  /\ mainPc = "idle" /\ i = 1 /\ locked = FALSE /\ m_stopping = FALSE
  /\ count = [w \in Workers |-> 0]
  /\ m_id = [w \in Workers |-> FALSE] /\ m_threadIds = [w \in Workers |-> "none"]
  /\ m_thread = [w \in Workers |-> FALSE]
  /\ workerPc = [w \in Workers |-> "none"]

-----------------------------------------------------------------------------
(* Scheduler::start().                                                      *)

Start_Unlocked ==
  /\ mainPc = "idle"
  /\ mainPc' = "create"
  /\ UNCHANGED <<i, locked, m_stopping, count, m_id, m_threadIds, m_thread, workerPc>>

Start ==
  /\ mainPc = "idle"
  /\ locked' = TRUE
  /\ mainPc' = "create"
  /\ UNCHANGED <<i, m_stopping, count, m_id, m_threadIds, m_thread, workerPc>>

\* The constructor of Thread: pthread_create ...
Create ==
  /\ mainPc = "create" /\ i <= N
  /\ m_thread' = [m_thread EXCEPT ![i] = TRUE]
  /\ workerPc' = [workerPc EXCEPT ![i] = "born"]
  /\ mainPc' = "wait"
  /\ UNCHANGED <<i, locked, m_stopping, count, m_id, m_threadIds>>

\* ... which may fail: the exception leaves start() and releases m_mutex ...
CreateFails ==
  /\ mainPc = "create" /\ i <= N
  /\ locked' = FALSE
  /\ mainPc' = "threw"
  /\ UNCHANGED <<i, m_stopping, count, m_id, m_threadIds, m_thread, workerPc>>

\* ... and m_semaphore.wait().
wait ==
  /\ mainPc = "wait" /\ count[i] = 0
  /\ count' = [count EXCEPT ![i] = @ - 1]
  /\ mainPc' = "record"
  /\ UNCHANGED <<i, locked, m_stopping, m_id, m_threadIds, m_thread, workerPc>>

\* m_threadIds.push_back(getId()), on to the next thread.
Record ==
  /\ mainPc = "record"
  /\ m_threadIds' = [m_threadIds EXCEPT ![i] = IF m_id[i] THEN "valid" ELSE "invalid"]
  /\ i' = i + 1
  /\ mainPc' = "create"
  /\ UNCHANGED <<locked, m_stopping, count, m_id, m_thread, workerPc>>

StartReturned_KeepsLock ==
  /\ mainPc = "create" /\ i = N + 1
  /\ mainPc' = "started"
  /\ UNCHANGED <<i, locked, m_stopping, count, m_id, m_threadIds, m_thread, workerPc>>

StartReturned ==
  /\ mainPc = "create" /\ i = N + 1
  /\ locked' = FALSE
  /\ mainPc' = "started"
  /\ UNCHANGED <<i, m_stopping, count, m_id, m_threadIds, m_thread, workerPc>>

-----------------------------------------------------------------------------
(* Scheduler::stop(): m_threads is swapped out under m_mutex, then joined.  *)

Stop ==
  /\ mainPc = "started"
  /\ m_stopping' = TRUE
  /\ mainPc' = "swap"
  /\ UNCHANGED <<i, locked, count, m_id, m_threadIds, m_thread, workerPc>>

Swap ==
  /\ mainPc = "swap"
  /\ i' = 1
  /\ mainPc' = "join"
  /\ UNCHANGED <<locked, m_stopping, count, m_id, m_threadIds, m_thread, workerPc>>

join ==
  /\ mainPc = "join" /\ i <= N
  /\ m_thread[i] => workerPc[i] = "exited"
  /\ m_thread' = [m_thread EXCEPT ![i] = FALSE]
  /\ i' = i + 1
  /\ UNCHANGED <<mainPc, locked, m_stopping, count, m_id, m_threadIds, workerPc>>

StopReturned ==
  /\ mainPc = "join" /\ i = N + 1
  /\ mainPc' = "stopped"
  /\ UNCHANGED <<i, locked, m_stopping, count, m_id, m_threadIds, m_thread, workerPc>>

-----------------------------------------------------------------------------
(* Thread::run() on thread w.                                               *)

WriteId(w) ==
  /\ workerPc[w] = "born"
  /\ m_id' = [m_id EXCEPT ![w] = TRUE]
  /\ workerPc' = [workerPc EXCEPT ![w] = "named"]
  /\ UNCHANGED <<mainPc, i, locked, m_stopping, count, m_threadIds, m_thread>>

signal(w) ==
  /\ workerPc[w] = "named"
  /\ count' = [count EXCEPT ![w] = @ + 1]
  /\ workerPc' = [workerPc EXCEPT ![w] = "signalled"]
  /\ UNCHANGED <<mainPc, i, locked, m_stopping, m_id, m_threadIds, m_thread>>

\* cb() is Scheduler::run, which takes m_mutex to look for a task.
EnterLoop(w) ==
  /\ workerPc[w] = "signalled"
  /\ ~locked
  /\ workerPc' = [workerPc EXCEPT ![w] = "loop"]
  /\ UNCHANGED <<mainPc, i, locked, m_stopping, count, m_id, m_threadIds, m_thread>>

Exit(w) ==
  /\ workerPc[w] = "loop"
  /\ m_stopping
  /\ workerPc' = [workerPc EXCEPT ![w] = "exited"]
  /\ UNCHANGED <<mainPc, i, locked, m_stopping, count, m_id, m_threadIds, m_thread>>

-----------------------------------------------------------------------------
Starting == Start \/ Create \/ CreateFails \/ wait \/ Record \/ StartReturned
Stopping == Stop \/ Swap \/ join \/ StopReturned
Run(w) == WriteId(w) \/ signal(w) \/ EnterLoop(w) \/ Exit(w)

Next == Starting \/ Stopping \/ \E w \in Workers : Run(w)

Spec == Init /\ [][Next]_vars

\* The operating system schedules every thread; pthread_create need not fail.
Fairness == WF_vars(Starting) /\ WF_vars(Stopping) /\ \A w \in Workers : WF_vars(Run(w))

FairSpec == Spec /\ Fairness

-----------------------------------------------------------------------------
(* Properties.                                                              *)

\* No worker passes m_mutex, and so none takes a task, while start() is still
\* filling m_threads: the vector it then publishes is complete or start() threw.
LoopAfterStart ==
  (\E w \in Workers : workerPc[w] \in {"loop", "exited"}) =>
    \/ mainPc = "threw"
    \/ \A w \in Workers : workerPc[w] # "none" /\ m_threadIds[w] # "none"

\* Once start() has returned, stop() returns.
JoinReturns == mainPc = "started" ~> mainPc = "stopped"

\* The constructor waits until the thread function has initialised (the comment on
\* its wait()), which it does and signals: so start() comes to an end.
StartReturns == mainPc = "create" ~> mainPc \in {"started", "threw"}
=============================================================================
