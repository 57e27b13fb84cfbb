------------------------------ MODULE Scheduler ------------------------------
(***************************************************************************)
(* The M:N fiber scheduler (scheduler.h, scheduler.cpp) with the part of   *)
(* Fiber (fiber.cpp) that its run() loop relies on: the state of a fiber,  *)
(* resume(), yield(), the end of MainFunc(), and the per-fiber m_mutex.    *)
(*                                                                         *)
(* Every worker thread executes run(): scan the queue under m_mutex, run   *)
(* the task it found inside a fiber, otherwise resume its idle fiber.      *)
(* With use_caller the thread that owns the scheduler joins the pool, but  *)
(* only inside stop().  A step of this module is a critical section of     *)
(* m_mutex, an operation on an atomic counter, or a stretch of code that   *)
(* touches no shared state.  tickle() does nothing in this class.          *)
(*                                                                         *)
(* A definition X_Y just before X is X with a plausible bug Y; it is used  *)
(* only to confirm that the properties notice the bug.                     *)
(***************************************************************************)
EXTENDS Naturals, FiniteSets, Sequences, SequencesExt

CONSTANTS
  Pool,       \* the threads start() creates
  Root,       \* the thread that owns the scheduler (m_rootThread)
  UseCaller,  \* m_useCaller: does Root work too?
  Fibers,     \* fiber objects that can come into being
  AnyThread,        \* thread = -1: the task may run anywhere
  None,       \* nullptr
  MaxPosts    \* bound: calls of schedulerLock in one behaviour

Threads == Pool \cup (IF UseCaller THEN {Root} ELSE {})

\* assert(threads > 0) in the constructor; -1 is no thread id, nullptr no fiber.
ASSUME SchedulerAssumption ==
  /\ IsFiniteSet(Pool)
  /\ Root \notin Pool
  /\ UseCaller \in BOOLEAN
  /\ Threads # {}
  /\ AnyThread \notin Threads
  /\ None \notin Fibers \cup Threads
  /\ MaxPosts \in Nat

\* A queued task names the fiber it runs in.  For a std::function task this is
\* the fiber run() will make for it, whose state is "CB" until then.
Tasks == [fiber : Fibers, thread : Threads \cup {AnyThread}]
NoTask == [fiber |-> None, thread |-> AnyThread]

VARIABLES
  m_tasks,             \* queue of tasks, guarded by m_mutex
  m_activeThreadCount, \* atomic
  m_idleThreadCount,   \* atomic
  m_stopping,          \* set by stop()
  m_state,             \* m_state[f]: Fiber::State, or "NONE" / "CB" before the fiber exists
  holder,              \* holder[f]: the thread that holds f->m_mutex, or None
  pc,                  \* pc[t]: where thread t is in run()
  task,                \* task[t]: run()'s local variable
  idleState,           \* idleState[t]: state of run()'s idle_fiber
  mainPc,              \* where the owner of the scheduler is
  posts                \* calls of schedulerLock so far

counters == <<m_activeThreadCount, m_idleThreadCount>>
vars == <<m_tasks, m_activeThreadCount, m_idleThreadCount, m_stopping, m_state,
          holder, pc, task, idleState, mainPc, posts>>

\* Places of run() between taking a task and m_activeThreadCount--.
ActivePc == {"fiber", "cb", "body", "unlock", "dec"}
\* Places between m_idleThreadCount++ and m_idleThreadCount--.
IdlePc == {"idle", "idleDec"}
PcNames == ActivePc \cup IdlePc \cup {"off", "scan", "noTask", "exited"}
MainPcNames == {"new", "up", "resume", "inRun", "join", "stopped"}

\* The types of the variables: in particular the counters never underflow.
TypeOK ==
  /\ m_tasks \in Seq(Tasks)
  /\ m_activeThreadCount \in Nat
  /\ m_idleThreadCount \in Nat
  /\ m_stopping \in BOOLEAN
  /\ m_state \in [Fibers -> {"NONE", "CB", "READY", "RUNNING", "TERM"}]
  /\ holder \in [Fibers -> Threads \cup {None}]
  /\ pc \in [Threads -> PcNames]
  /\ task \in [Threads -> Tasks \cup {NoTask}]
  /\ idleState \in [Threads -> {"READY", "RUNNING", "TERM"}]
  /\ mainPc \in MainPcNames
  /\ posts \in Nat

Stopping_IgnoresQueue == m_stopping /\ m_activeThreadCount = 0
Stopping_IgnoresActive == m_stopping /\ m_tasks = <<>>

\* stopping(), evaluated under m_mutex.
Stopping == m_stopping /\ m_tasks = <<>> /\ m_activeThreadCount = 0

Init ==
  /\ m_tasks = <<>>
  /\ m_activeThreadCount = 0
  /\ m_idleThreadCount = 0
  /\ m_stopping = FALSE
  /\ m_state = [f \in Fibers |-> "NONE"]
  /\ holder = [f \in Fibers |-> None]
  /\ pc = [t \in Threads |-> "off"]
  /\ task = [t \in Threads |-> NoTask]
  /\ idleState = [t \in Threads |-> "READY"]
  /\ mainPc = "new"
  /\ posts = 0

-----------------------------------------------------------------------------
(* schedulerLock(fc, thread).  The caller passes a function (which will run *)
(* in a fiber of its own), a new fiber, or a fiber that already exists, in  *)
(* whatever state that is: a fiber is commonly posted before it yields.     *)

schedulerLock ==
  /\ posts < MaxPosts
  /\ posts' = posts + 1
  /\ \E f \in Fibers, thread \in Threads \cup {AnyThread} :
       /\ m_tasks' = Append(m_tasks, [fiber |-> f, thread |-> thread])
       /\ \/ /\ m_state[f] = "NONE"
             /\ \E s \in {"CB", "READY"} : m_state' = [m_state EXCEPT ![f] = s]
          \/ /\ m_state[f] \in {"READY", "RUNNING", "TERM"}
             /\ UNCHANGED m_state

(* The owner: start(), then tasks, then stop().                             *)

MainPosts ==
  /\ mainPc \in {"new", "up"}
  /\ schedulerLock
  /\ UNCHANGED <<counters, m_stopping, holder, pc, task, idleState, mainPc>>

\* start() holds m_mutex throughout, so the threads scan only after it.
Start ==
  /\ mainPc = "new"
  /\ ~m_stopping
  /\ pc' = [t \in Threads |-> IF t \in Pool THEN "scan" ELSE pc[t]]
  /\ mainPc' = "up"
  /\ UNCHANGED <<m_tasks, counters, m_stopping, m_state, holder, task, idleState, posts>>

Stop ==
  /\ mainPc = "up"
  /\ ~Stopping
  /\ m_stopping' = TRUE
  /\ mainPc' = IF UseCaller THEN "resume" ELSE "join"
  /\ UNCHANGED <<m_tasks, counters, m_state, holder, pc, task, idleState, posts>>

\* m_schedulerFiber->resume(): the owner enters run().
ResumeRoot ==
  /\ mainPc = "resume"
  /\ mainPc' = "inRun"
  /\ pc' = [pc EXCEPT ![Root] = "scan"]
  /\ UNCHANGED <<m_tasks, counters, m_stopping, m_state, holder, task, idleState, posts>>

RootDone ==
  /\ mainPc = "inRun"
  /\ pc[Root] = "exited"
  /\ mainPc' = "join"
  /\ UNCHANGED <<m_tasks, counters, m_stopping, m_state, holder, pc, task, idleState, posts>>

Join ==
  /\ mainPc = "join"
  /\ \A t \in Pool : pc[t] = "exited"
  /\ mainPc' = "stopped"
  /\ UNCHANGED <<m_tasks, counters, m_stopping, m_state, holder, pc, task, idleState, posts>>

\* A further stop() returns at once: stopping() holds.
StopAgain == mainPc = "stopped" /\ Stopping /\ UNCHANGED vars

-----------------------------------------------------------------------------
(* run() on thread t.                                                       *)

Eligible(t, k) == k.thread \in {AnyThread, t}

ScanTakes_Newest(t) ==
  /\ pc[t] = "scan"
  /\ \E i \in 1..Len(m_tasks) :
       /\ Eligible(t, m_tasks[i])
       /\ \A j \in (i + 1)..Len(m_tasks) : ~Eligible(t, m_tasks[j])
       /\ task' = [task EXCEPT ![t] = m_tasks[i]]
       /\ m_tasks' = RemoveAt(m_tasks, i)
       /\ pc' = [pc EXCEPT ![t] = IF m_state[m_tasks[i].fiber] = "CB" THEN "cb" ELSE "fiber"]
  /\ m_activeThreadCount' = m_activeThreadCount + 1
  /\ UNCHANGED <<m_idleThreadCount, m_stopping, m_state, holder, idleState, mainPc, posts>>

ScanTakes_OnlyHead(t) ==
  /\ pc[t] = "scan"
  /\ m_tasks # <<>> /\ Eligible(t, Head(m_tasks))
  /\ task' = [task EXCEPT ![t] = Head(m_tasks)]
  /\ m_tasks' = Tail(m_tasks)
  /\ pc' = [pc EXCEPT ![t] = IF m_state[Head(m_tasks).fiber] = "CB" THEN "cb" ELSE "fiber"]
  /\ m_activeThreadCount' = m_activeThreadCount + 1
  /\ UNCHANGED <<m_idleThreadCount, m_stopping, m_state, holder, idleState, mainPc, posts>>

\* The critical section: take the first task that may run here.
ScanTakes(t) ==
  /\ pc[t] = "scan"
  /\ \E i \in 1..Len(m_tasks) :
       /\ Eligible(t, m_tasks[i])
       /\ \A j \in 1..(i - 1) : ~Eligible(t, m_tasks[j])
       /\ task' = [task EXCEPT ![t] = m_tasks[i]]
       /\ m_tasks' = RemoveAt(m_tasks, i)
       /\ pc' = [pc EXCEPT ![t] = IF m_state[m_tasks[i].fiber] = "CB" THEN "cb" ELSE "fiber"]
  /\ m_activeThreadCount' = m_activeThreadCount + 1
  /\ UNCHANGED <<m_idleThreadCount, m_stopping, m_state, holder, idleState, mainPc, posts>>

ScanFindsNone(t) ==
  /\ pc[t] = "scan"
  /\ \A i \in 1..Len(m_tasks) : ~Eligible(t, m_tasks[i])
  /\ pc' = [pc EXCEPT ![t] = "noTask"]
  /\ UNCHANGED <<m_tasks, counters, m_stopping, m_state, holder, task, idleState, mainPc, posts>>

LockFiber_NoMutex(t) ==
  LET f == task[t].fiber IN
  /\ pc[t] = "fiber"
  /\ pc' = [pc EXCEPT ![t] = IF m_state[f] = "TERM" THEN "unlock" ELSE "body"]
  /\ m_state' = [m_state EXCEPT ![f] = IF @ = "TERM" THEN @ ELSE "RUNNING"]
  /\ UNCHANGED <<m_tasks, counters, m_stopping, holder, task, idleState, mainPc, posts>>

\* lock_guard(task.fiber->m_mutex); resume() unless the fiber has ended.
LockFiber(t) ==
  LET f == task[t].fiber IN
  /\ pc[t] = "fiber"
  /\ holder[f] = None
  /\ holder' = [holder EXCEPT ![f] = t]
  /\ \/ /\ m_state[f] = "TERM"
        /\ pc' = [pc EXCEPT ![t] = "unlock"]
        /\ UNCHANGED m_state
     \/ /\ m_state[f] # "TERM"
        /\ pc' = [pc EXCEPT ![t] = "body"]
        /\ m_state' = [m_state EXCEPT ![f] = "RUNNING"]
  /\ UNCHANGED <<m_tasks, counters, m_stopping, task, idleState, mainPc, posts>>

\* A function gets a fiber of its own, which is locked and resumed.
RunCb(t) ==
  LET f == task[t].fiber IN
  /\ pc[t] = "cb"
  /\ holder' = [holder EXCEPT ![f] = t]
  /\ m_state' = [m_state EXCEPT ![f] = "RUNNING"]
  /\ pc' = [pc EXCEPT ![t] = "body"]
  /\ UNCHANGED <<m_tasks, counters, m_stopping, task, idleState, mainPc, posts>>

\* The task's own code may call schedulerLock, yield(), or return.
TaskPosts(t) ==
  /\ pc[t] = "body"
  /\ schedulerLock
  /\ UNCHANGED <<counters, m_stopping, holder, pc, task, idleState, mainPc>>

Yield(t) ==
  /\ pc[t] = "body"
  /\ m_state' = [m_state EXCEPT ![task[t].fiber] = "READY"]
  /\ pc' = [pc EXCEPT ![t] = "unlock"]
  /\ UNCHANGED <<m_tasks, counters, m_stopping, holder, task, idleState, mainPc, posts>>

Finish(t) ==
  /\ pc[t] = "body"
  /\ m_state' = [m_state EXCEPT ![task[t].fiber] = "TERM"]
  /\ pc' = [pc EXCEPT ![t] = "unlock"]
  /\ UNCHANGED <<m_tasks, counters, m_stopping, holder, task, idleState, mainPc, posts>>

Unlock_Leaks(t) ==
  /\ pc[t] = "unlock"
  /\ pc' = [pc EXCEPT ![t] = "dec"]
  /\ UNCHANGED <<m_tasks, counters, m_stopping, m_state, holder, task, idleState, mainPc, posts>>

Unlock(t) ==
  /\ pc[t] = "unlock"
  /\ holder' = [holder EXCEPT ![task[t].fiber] = None]
  /\ pc' = [pc EXCEPT ![t] = "dec"]
  /\ UNCHANGED <<m_tasks, counters, m_stopping, m_state, task, idleState, mainPc, posts>>

Dec(t) ==
  /\ pc[t] = "dec"
  /\ m_activeThreadCount' = m_activeThreadCount - 1
  /\ task' = [task EXCEPT ![t] = NoTask]
  /\ pc' = [pc EXCEPT ![t] = "scan"]
  /\ UNCHANGED <<m_tasks, m_idleThreadCount, m_stopping, m_state, holder, idleState, mainPc, posts>>

\* Without a task: leave run() if the idle fiber has ended, else resume it.
Break(t) ==
  /\ pc[t] = "noTask"
  /\ idleState[t] = "TERM"
  /\ pc' = [pc EXCEPT ![t] = "exited"]
  /\ UNCHANGED <<m_tasks, counters, m_stopping, m_state, holder, task, idleState, mainPc, posts>>

EnterIdle_Uncounted(t) ==
  /\ pc[t] = "noTask"
  /\ idleState[t] # "TERM"
  /\ idleState' = [idleState EXCEPT ![t] = "RUNNING"]
  /\ pc' = [pc EXCEPT ![t] = "idle"]
  /\ UNCHANGED <<m_tasks, counters, m_stopping, m_state, holder, task, mainPc, posts>>

EnterIdle(t) ==
  /\ pc[t] = "noTask"
  /\ idleState[t] # "TERM"
  /\ m_idleThreadCount' = m_idleThreadCount + 1
  /\ idleState' = [idleState EXCEPT ![t] = "RUNNING"]
  /\ pc' = [pc EXCEPT ![t] = "idle"]
  /\ UNCHANGED <<m_tasks, m_activeThreadCount, m_stopping, m_state, holder, task, mainPc, posts>>

\* idle(): one test of stopping(), then yield() or the end of the fiber.
idle(t) ==
  /\ pc[t] = "idle"
  /\ idleState' = [idleState EXCEPT ![t] = IF Stopping THEN "TERM" ELSE "READY"]
  /\ pc' = [pc EXCEPT ![t] = "idleDec"]
  /\ UNCHANGED <<m_tasks, counters, m_stopping, m_state, holder, task, mainPc, posts>>

LeaveIdle(t) ==
  /\ pc[t] = "idleDec"
  /\ m_idleThreadCount' = m_idleThreadCount - 1
  /\ pc' = [pc EXCEPT ![t] = "scan"]
  /\ UNCHANGED <<m_tasks, m_activeThreadCount, m_stopping, m_state, holder, task, idleState, mainPc, posts>>

-----------------------------------------------------------------------------
Serve(t) ==
  \/ ScanTakes(t) \/ ScanFindsNone(t)
  \/ LockFiber(t) \/ RunCb(t) \/ Unlock(t) \/ Dec(t)
  \/ Break(t) \/ EnterIdle(t) \/ idle(t) \/ LeaveIdle(t)

Body(t) == TaskPosts(t) \/ Yield(t) \/ Finish(t)

StopProceeds == ResumeRoot \/ RootDone \/ Join

Next ==
  \/ MainPosts \/ Start \/ Stop \/ StopProceeds \/ StopAgain
  \/ \E t \in Threads : Serve(t) \/ Body(t)

Spec == Init /\ [][Next]_vars

\* Threads are scheduled by the operating system, and the code of a task comes
\* to an end or yields.  Nothing obliges the owner to post or to call stop().
Fairness ==
  /\ WF_vars(StopProceeds)
  /\ \A t \in Threads : WF_vars(Serve(t)) /\ WF_vars(Yield(t) \/ Finish(t))

FairSpec == Spec /\ Fairness

-----------------------------------------------------------------------------
(* Properties.                                                              *)

\* assert(m_state == READY) in Fiber::resume() never fails: when a thread gets
\* the mutex of the fiber it is to run, no other thread is inside that fiber,
\* although the fiber may have been posted while it was still running.
ResumeAssert ==
  \A t \in Threads :
    pc[t] = "fiber" /\ holder[task[t].fiber] = None => m_state[task[t].fiber] \in {"READY", "TERM"}

\* Two threads are never on the stack of one fiber at the same time.
FiberOnOneThread ==
  \A t, u \in Threads :
    pc[t] = "body" /\ pc[u] = "body" /\ task[t].fiber = task[u].fiber => t = u

\* assert(stopping() == true) in the destructor: when stop() returns, all the
\* tasks have been taken and worked on, and no thread is left in run().
StopDrains ==
  mainPc = "stopped" =>
    /\ m_tasks = <<>> /\ m_activeThreadCount = 0
    /\ \A t \in Threads : pc[t] = "exited"

\* A thread decides to leave (its idle fiber has ended) only when nothing is
\* queued and nobody works, whatever happens after its own test of stopping().
NoEarlyLeave ==
  \A t \in Threads : idleState[t] = "TERM" => Stopping

\* Once stopping() is true it stays true: no task that runs or is queued
\* afterwards can resurrect the scheduler while its threads leave.
QuiesceStable == [][Stopping => Stopping']_vars

\* The pool implements its abstract specification: every task is taken once, in
\* order among those a thread may run, and threads leave only a drained pool.
AbstractPool == INSTANCE TaskPool WITH
  Workers <- Threads,
  Jobs <- Tasks,
  NoJob <- NoTask,
  MayRun <- Eligible,
  queue <- m_tasks,
  running <- task,
  closing <- m_stopping,
  gone <- {t \in Threads : idleState[t] = "TERM"}

ImplementsPool == AbstractPool!PoolSpec

\* stop() returns: every thread sees stopping() and leaves run().
StopReturns == m_stopping ~> mainPc = "stopped"

\* A task that can run in the pool does not stay in the queue for ever.
TasksAreTaken ==
  \A f \in Fibers, thr \in Pool \cup {AnyThread} :
    mainPc # "new" /\ (\E i \in 1..Len(m_tasks) : m_tasks[i] = [fiber |-> f, thread |-> thr])
      ~> ~\E i \in 1..Len(m_tasks) : m_tasks[i] = [fiber |-> f, thread |-> thr]
-----------------------------------------------------------------------------
(* The inductive invariant behind the safety properties.                    *)

Count(at, places) == Cardinality({t \in Threads : at[t] \in places})

\* The atomic counters say how many threads are where.
CountersExact ==
  /\ m_activeThreadCount = Count(pc, ActivePc)
  /\ m_idleThreadCount = Count(pc, IdlePc)

\* run()'s local task is set exactly while the thread counts as active.
TaskHeld == \A t \in Threads : task[t] \in Tasks <=> pc[t] \in ActivePc

\* A fiber's mutex is held by the thread that is between its lock and unlock.
LockHeld ==
  \A f \in Fibers, t \in Threads :
    holder[f] = t <=> pc[t] \in {"body", "unlock"} /\ task[t].fiber = f

\* RUNNING is the state of the fibers some thread is inside of.
RunningMatches ==
  \A f \in Fibers :
    m_state[f] = "RUNNING" <=> \E t \in Threads : pc[t] = "body" /\ task[t].fiber = f

\* A function's fiber is made once: it is queued once or held by one thread.
CallbackOnce ==
  /\ \A i \in 1..Len(m_tasks) :
       /\ m_state[m_tasks[i].fiber] # "NONE"
       /\ m_state[m_tasks[i].fiber] = "CB" =>
            \A j \in 1..Len(m_tasks) : m_tasks[j].fiber = m_tasks[i].fiber => i = j
  /\ \A t \in Threads :
       /\ pc[t] \in ActivePc \ {"cb"} => m_state[task[t].fiber] \in {"READY", "RUNNING", "TERM"}
       /\ pc[t] = "cb" =>
            /\ m_state[task[t].fiber] = "CB"
            /\ \A i \in 1..Len(m_tasks) : m_tasks[i].fiber # task[t].fiber
            /\ \A u \in Threads : pc[u] = "cb" /\ task[u].fiber = task[t].fiber => u = t

\* Where the owner and the threads can be at the same time.
OwnerOrder ==
  /\ m_stopping <=> mainPc \notin {"new", "up"}
  /\ mainPc = "new" => \A t \in Threads : pc[t] = "off"
  /\ mainPc \in {"resume", "inRun"} => UseCaller
  /\ UseCaller /\ mainPc \in {"new", "up", "resume"} => pc[Root] = "off"
  /\ UseCaller /\ mainPc \in {"join", "stopped"} => pc[Root] = "exited"
  /\ mainPc = "stopped" => \A t \in Pool : pc[t] = "exited"
  /\ \A t \in Threads :
       /\ pc[t] = "exited" => idleState[t] = "TERM"
       /\ pc[t] = "idle" => idleState[t] = "RUNNING"

\* All of it together: what every step of the scheduler preserves.
IndInv ==
  /\ TypeOK /\ CountersExact /\ TaskHeld /\ LockHeld /\ RunningMatches
  /\ CallbackOnce /\ OwnerOrder /\ NoEarlyLeave

=============================================================================
