------------------------------ MODULE IOManager ------------------------------
(***************************************************************************)
(* The event loop of IOManager (ioscheduler.cpp) on top of run() and       *)
(* stop() of its base class: how posts, timers and file descriptors wake   *)
(* the threads that sleep in epoll_wait, and when those threads decide to  *)
(* leave.                                                                  *)
(*                                                                         *)
(* Scheduler.tla has the fibers, their mutexes and tasks tied to a thread; *)
(* here a task is only counted (the library itself posts with thread = -1  *)
(* everywhere).  Timers are counted too: pending ones that are not due,    *)
(* due ones that listExpiredCb has not collected, and those the set did    *)
(* not take.  An event is a descriptor of which one direction is used;     *)
(* IOEvents.tla has both.  A step is a critical section, an access to an   *)
(* atomic, or a system call.                                               *)
(*                                                                         *)
(* A definition X_Y just before X is X with a plausible bug Y; it is used  *)
(* only to confirm that the properties notice the bug.                     *)
(***************************************************************************)
EXTENDS Naturals, FiniteSets, Sequences

CONSTANTS
  PoolThreads,   \* threads start() may create
  Root,          \* the thread that owns the manager
  Configs,       \* the arguments of the constructor: the pool, and whether Root works too
  Events,     \* (descriptor, direction) pairs the tasks use
  Pipe,       \* the read end of m_tickleFds, among what epoll reports
  PipeCapacity,  \* bytes the pipe holds (65536 on Linux)
  MaxWork        \* bound: tasks, timers and events the clients create

Workers == PoolThreads \cup {Root}

ASSUME IOManagerAssumption ==
  /\ IsFiniteSet(PoolThreads) /\ Root \notin PoolThreads
  /\ Configs \subseteq [pool : SUBSET PoolThreads, useCaller : BOOLEAN]
  /\ \A c \in Configs : c.useCaller \/ c.pool # {}
  /\ IsFiniteSet(Events) /\ Pipe \notin Events /\ PipeCapacity \in Nat
  /\ MaxWork \in Nat

VARIABLES
  config,              \* an element of Configs, never changed
  m_tasks,             \* number of queued tasks
  m_activeThreadCount,
  m_idleThreadCount,
  m_stopping,
  armed, due,          \* timers in m_timers: not yet due, due
  tied,                \* timers m_timers did not take: another had the same m_next
  m_tickled,           \* TimerManager::m_tickled
  event,               \* event[e]: "none", "armed", "ready" (epoll would report it) or "reported"
  held, wants,         \* held[t], wants[t]: the event whose fd_ctx->mutex t holds between steps,
                       \*   and the one whose mutex a task on t waits for, if any
  m_pendingEvenCount,
  bytes,               \* unread bytes in the pipe
  edge,                \* a byte was written to the pipe and epoll has not reported it
  blocked,             \* who waits in write() for room in the pipe
  pc,                  \* where thread t is in run() or idle()
  cbs,                 \* cbs[t]: callbacks t has collected and not posted
  evs,                 \* evs[t]: what epoll_wait has given to t, in the order of the array
  idleDone,            \* idleDone[t]: t's idle fiber is TERM
  mainPc,              \* where the owner is
  stopTickles,         \* calls of tickle() stop() has still to make
  work, done           \* tasks, timers and events created, and those a task has been run for

sched == <<m_tasks, m_activeThreadCount, m_idleThreadCount, m_stopping>>
timers == <<armed, due, tied, m_tickled>>
events == <<event, held, wants, m_pendingEvenCount>>
pipe == <<bytes, edge, blocked>>
local == <<cbs, evs, idleDone>>
owner == <<mainPc, stopTickles>>
bounds == <<work, done>>
vars == <<config, sched, timers, events, pipe, pc, local, owner, bounds>>

Pool == config.pool
UseCaller == config.useCaller
Threads == Pool \cup (IF UseCaller THEN {Root} ELSE {})

PcNames == {"off", "scan", "scanTickle", "run", "runTickle", "runLock", "cancelPush", "cancelTickle", "dec", "noTask",
            "stop1", "stop2", "stop3", "next", "wait", "expire", "post", "postTickle",
            "dispatch", "dispatchTickle", "dispatchDec", "idleDec", "exited"}
MainPcNames == {"up", "upTickle", "tickling", "resume", "inRun", "join", "stopped"}

TypeOK ==
  /\ config \in Configs
  /\ m_tasks \in Nat /\ m_activeThreadCount \in Nat /\ m_idleThreadCount \in Nat
  /\ m_stopping \in BOOLEAN
  /\ armed \in Nat /\ due \in Nat /\ tied \in Nat /\ m_tickled \in BOOLEAN
  /\ event \in [Events -> {"none", "armed", "ready", "reported"}]
  /\ held \in [Threads -> SUBSET Events] /\ wants \in [Threads -> SUBSET Events]
  /\ m_pendingEvenCount \in Nat
  /\ bytes \in 0..PipeCapacity /\ edge \in BOOLEAN /\ blocked \in SUBSET (Threads \cup {Root})
  /\ pc \in [Threads -> PcNames]
  /\ cbs \in [Threads -> Nat]
  /\ evs \in [Threads -> Seq(Events \cup {Pipe})]
  /\ idleDone \in [Threads -> BOOLEAN]
  /\ mainPc \in MainPcNames /\ stopTickles \in Nat /\ work \in Nat /\ done \in Nat

\* The constructor ends with start(): the pool is running.
Init ==
  /\ config \in Configs
  /\ m_tasks = 0 /\ m_activeThreadCount = 0 /\ m_idleThreadCount = 0 /\ m_stopping = FALSE
  /\ armed = 0 /\ due = 0 /\ tied = 0 /\ m_tickled = FALSE
  /\ event = [e \in Events |-> "none"] /\ m_pendingEvenCount = 0
  /\ held = [t \in Threads |-> {}] /\ wants = [t \in Threads |-> {}]
  /\ bytes = 0 /\ edge = FALSE /\ blocked = {}
  /\ pc = [t \in Threads |-> IF t \in Pool THEN "scan" ELSE "off"]
  /\ cbs = [t \in Threads |-> 0] /\ evs = [t \in Threads |-> <<>>]
  /\ idleDone = [t \in Threads |-> FALSE]
  /\ mainPc = "up" /\ stopTickles = 0 /\ work = 0 /\ done = 0

-----------------------------------------------------------------------------
(* Pieces the handlers share.                                               *)

Free(e) == \A t \in Threads : e \notin held[t]

\* The arrays epoll_wait may fill with S, and what an array holds.
Arrays(S) == {s \in [1..Cardinality(S) -> S] : \A e \in S : \E i \in DOMAIN s : s[i] = e}
Holds(s) == {s[i] : i \in 1..Len(s)}

Goto(t, place) == pc' = [pc EXCEPT ![t] = place]

\* schedulerLock up to the end of its critical section; an empty queue is what
\* makes the caller call tickle() next.
Push == m_tasks' = m_tasks + 1
NeedTickle == m_tasks = 0

\* tickle() of w: nothing if no thread is idle, or a byte into the pipe once there
\* is room for it.  The write end of the pipe blocks.
tickle(w) ==
  \/ m_idleThreadCount = 0 /\ w \notin blocked /\ UNCHANGED pipe
  \/ /\ m_idleThreadCount > 0 \/ w \in blocked
     /\ bytes < PipeCapacity
     /\ bytes' = bytes + 1 /\ edge' = TRUE /\ blocked' = blocked \ {w}
Blocks(w) ==
  /\ m_idleThreadCount > 0 /\ bytes = PipeCapacity /\ w \notin blocked
  /\ blocked' = blocked \cup {w}
  /\ UNCHANGED <<bytes, edge>>

noTimers == armed + due = 0

Scheduler_stopping == m_stopping /\ m_tasks = 0 /\ m_activeThreadCount = 0

ClientWork == work < MaxWork /\ work' = work + 1

\* addTimer: insert under the lock, which does nothing when a timer of the set has the same
\* m_next (tie); tickle() if that place is the first and no notification is outstanding.
addTimer(atFront, tie) ==
  /\ noTimers => atFront /\ ~tie
  /\ \/ ~tie /\ armed' = armed + 1 /\ UNCHANGED tied
     \/ tie /\ tied' = tied + 1 /\ UNCHANGED armed
  /\ m_tickled' = (m_tickled \/ atFront)
  /\ UNCHANGED due
NotifyFront(atFront) == atFront /\ ~m_tickled

-----------------------------------------------------------------------------
(* The owner.  It posts tasks and timers, then destroys the manager, which  *)
(* begins with stop().                                                      *)

MainPosts ==
  /\ mainPc = "up" /\ ClientWork
  /\ Push
  /\ mainPc' = IF NeedTickle THEN "upTickle" ELSE "up"
  /\ UNCHANGED <<m_activeThreadCount, m_idleThreadCount, m_stopping, timers, events, pipe, pc, local, stopTickles, done>>

MainAddsTimer ==
  /\ mainPc = "up" /\ ClientWork
  /\ \E atFront, tie \in BOOLEAN :
       /\ addTimer(atFront, tie)
       /\ mainPc' = IF NotifyFront(atFront) THEN "upTickle" ELSE "up"
  /\ UNCHANGED <<sched, events, pipe, pc, local, stopTickles, done>>

MainTickles ==
  /\ mainPc = "upTickle"
  /\ tickle(Root)
  /\ mainPc' = "up"
  /\ UNCHANGED <<sched, timers, events, pc, local, stopTickles, bounds>>

\* stop(): its test of stopping() is false but clears m_tickled on the way.
Stop ==
  /\ mainPc = "up"
  /\ m_stopping' = TRUE
  /\ m_tickled' = FALSE
  /\ stopTickles' = Cardinality(Threads)
  /\ mainPc' = "tickling"
  /\ UNCHANGED <<m_tasks, m_activeThreadCount, m_idleThreadCount, armed, due, tied, events, pipe, pc, local, bounds>>

StopTickles ==
  /\ mainPc = "tickling" /\ stopTickles > 0
  /\ tickle(Root)
  /\ stopTickles' = stopTickles - 1
  /\ UNCHANGED <<sched, timers, events, pc, local, mainPc, bounds>>

MainBlocks ==
  /\ mainPc = "upTickle" \/ (mainPc = "tickling" /\ stopTickles > 0)
  /\ Blocks(Root)
  /\ UNCHANGED <<sched, timers, events, pc, local, owner, bounds>>

StopGoesOn ==
  /\ mainPc = "tickling" /\ stopTickles = 0
  /\ mainPc' = IF UseCaller THEN "inRun" ELSE "join"
  /\ pc' = [t \in Threads |-> IF t = Root THEN "scan" ELSE pc[t]]
  /\ UNCHANGED <<sched, timers, events, pipe, local, stopTickles, bounds>>

RootDone ==
  /\ mainPc = "inRun" /\ pc[Root] = "exited"
  /\ mainPc' = "join"
  /\ UNCHANGED <<sched, timers, events, pipe, pc, local, stopTickles, bounds>>

Join_Early ==
  /\ mainPc = "join"
  /\ mainPc' = "stopped"
  /\ UNCHANGED <<sched, timers, events, pipe, pc, local, stopTickles, bounds>>

Join ==
  /\ mainPc = "join" /\ \A t \in Pool : pc[t] = "exited"
  /\ mainPc' = "stopped"
  /\ UNCHANGED <<sched, timers, events, pipe, pc, local, stopTickles, bounds>>

Stopped == mainPc = "stopped" /\ UNCHANGED vars

-----------------------------------------------------------------------------
(* run() on thread t.                                                       *)

ScanTakes(t) ==
  /\ pc[t] = "scan" /\ m_tasks > 0
  /\ m_tasks' = m_tasks - 1
  /\ m_activeThreadCount' = m_activeThreadCount + 1
  /\ Goto(t, IF m_tasks > 1 THEN "scanTickle" ELSE "run")
  /\ UNCHANGED <<m_idleThreadCount, m_stopping, timers, events, pipe, local, owner, bounds>>

ScanFindsNone(t) ==
  /\ pc[t] = "scan" /\ m_tasks = 0
  /\ Goto(t, "noTask")
  /\ UNCHANGED <<sched, timers, events, pipe, local, owner, bounds>>

\* The call of tickle() that follows a critical section, on any path.
Tickles(t) ==
  /\ \/ pc[t] = "scanTickle" /\ Goto(t, "run")
     \/ pc[t] = "runTickle" /\ Goto(t, "run")
     \/ pc[t] = "postTickle" /\ Goto(t, "post")
     \/ pc[t] = "dispatchTickle" /\ Goto(t, "dispatchDec")
  /\ tickle(t)
  /\ UNCHANGED <<sched, timers, events, local, owner, bounds>>

TickleBlocks(t) ==
  /\ pc[t] \in {"scanTickle", "runTickle", "cancelTickle", "postTickle", "dispatchTickle"}
  /\ Blocks(t)
  /\ UNCHANGED <<sched, timers, events, pc, local, owner, bounds>>

Dec(t) ==
  /\ pc[t] = "dec"
  /\ m_activeThreadCount' = m_activeThreadCount - 1
  /\ Goto(t, "scan")
  /\ UNCHANGED <<m_tasks, m_idleThreadCount, m_stopping, timers, events, pipe, local, owner, bounds>>

Break(t) ==
  /\ pc[t] = "noTask" /\ idleDone[t]
  /\ Goto(t, "exited")
  /\ UNCHANGED <<sched, timers, events, pipe, local, owner, bounds>>

EnterIdle(t) ==
  /\ pc[t] = "noTask" /\ ~idleDone[t]
  /\ m_idleThreadCount' = m_idleThreadCount + 1
  /\ Goto(t, "stop1")
  /\ UNCHANGED <<m_tasks, m_activeThreadCount, m_stopping, timers, events, pipe, local, owner, bounds>>

LeaveIdle(t) ==
  /\ pc[t] = "idleDec"
  /\ m_idleThreadCount' = m_idleThreadCount - 1
  /\ Goto(t, "scan")
  /\ UNCHANGED <<m_tasks, m_activeThreadCount, m_stopping, timers, events, pipe, local, owner, bounds>>

-----------------------------------------------------------------------------
(* What the code of a task may do before it returns or yields.              *)

TaskPosts(t) ==
  /\ pc[t] = "run" /\ ClientWork
  /\ Push
  /\ Goto(t, IF NeedTickle THEN "runTickle" ELSE "run")
  /\ UNCHANGED <<m_activeThreadCount, m_idleThreadCount, m_stopping, timers, events, pipe, local, owner, done>>

TaskAddsTimer(t) ==
  /\ pc[t] = "run" /\ ClientWork
  /\ \E atFront, tie \in BOOLEAN :
       /\ addTimer(atFront, tie)
       /\ Goto(t, IF NotifyFront(atFront) THEN "runTickle" ELSE "run")
  /\ UNCHANGED <<sched, events, pipe, local, owner, done>>

\* addEvent: register with epoll, count, remember the waiter.
addEvent(t, e) ==
  /\ pc[t] = "run" /\ ClientWork
  /\ event[e] = "none" /\ Free(e)
  /\ event' = [event EXCEPT ![e] = "armed"]
  /\ m_pendingEvenCount' = m_pendingEvenCount + 1
  /\ UNCHANGED <<sched, timers, held, wants, pipe, pc, local, owner, done>>

cancelEvent_Unchecked(t, e) ==
  /\ pc[t] = "run" /\ Free(e)
  /\ event' = [event EXCEPT ![e] = "none"]
  /\ m_pendingEvenCount' = m_pendingEvenCount - 1
  /\ held' = [held EXCEPT ![t] = {e}]
  /\ Goto(t, "cancelPush")
  /\ UNCHANGED <<sched, timers, wants, pipe, local, owner, bounds>>

\* cancelEvent: uncount first, then hand the waiter to the scheduler, with fd_ctx->mutex
\* held until tickle() has returned.
cancelEvent(t, e) ==
  /\ pc[t] = "run"
  /\ event[e] # "none" /\ Free(e)
  /\ event' = [event EXCEPT ![e] = "none"]
  /\ m_pendingEvenCount' = m_pendingEvenCount - 1
  /\ held' = [held EXCEPT ![t] = {e}]
  /\ Goto(t, "cancelPush")
  /\ UNCHANGED <<sched, timers, wants, pipe, local, owner, bounds>>

CancelPushes(t) ==
  /\ pc[t] = "cancelPush"
  /\ Push
  /\ IF NeedTickle
     THEN Goto(t, "cancelTickle") /\ UNCHANGED held
     ELSE Goto(t, "run") /\ held' = [held EXCEPT ![t] = {}]
  /\ UNCHANGED <<m_activeThreadCount, m_idleThreadCount, m_stopping, timers, event, wants, m_pendingEvenCount,
                 pipe, local, owner, bounds>>

CancelTickles(t) ==
  /\ pc[t] = "cancelTickle"
  /\ tickle(t)
  /\ held' = [held EXCEPT ![t] = {}]
  /\ Goto(t, "run")
  /\ UNCHANGED <<sched, timers, event, wants, m_pendingEvenCount, local, owner, bounds>>

\* addEvent or cancelEvent while another thread holds the mutex: the task waits for it, and
\* goes on then.
TaskWaits(t, e) ==
  /\ pc[t] = "run" /\ ~Free(e)
  /\ wants' = [wants EXCEPT ![t] = {e}]
  /\ Goto(t, "runLock")
  /\ UNCHANGED <<sched, timers, event, held, m_pendingEvenCount, pipe, local, owner, bounds>>

TaskLocks(t) ==
  /\ pc[t] = "runLock" /\ \A e \in wants[t] : Free(e)
  /\ wants' = [wants EXCEPT ![t] = {}]
  /\ Goto(t, "run")
  /\ UNCHANGED <<sched, timers, event, held, m_pendingEvenCount, pipe, local, owner, bounds>>

TaskEnds(t) ==
  /\ pc[t] = "run"
  /\ done' = done + 1
  /\ Goto(t, "dec")
  /\ UNCHANGED <<sched, timers, events, pipe, local, owner, work>>

-----------------------------------------------------------------------------
(* idle() on thread t.                                                      *)

\* IOManager::stopping() reads the timers, then the count of events, then
\* asks the base class, each at its own moment.
StoppingTimers(t) ==
  /\ pc[t] = "stop1"
  /\ m_tickled' = FALSE
  /\ Goto(t, IF noTimers THEN "stop2" ELSE "next")
  /\ UNCHANGED <<sched, armed, due, tied, events, pipe, local, owner, bounds>>

StoppingEvents(t) ==
  /\ pc[t] = "stop2"
  /\ Goto(t, IF m_pendingEvenCount = 0 THEN "stop3" ELSE "next")
  /\ UNCHANGED <<sched, timers, events, pipe, local, owner, bounds>>

StoppingBase(t) ==
  /\ pc[t] = "stop3"
  /\ idleDone' = [idleDone EXCEPT ![t] = Scheduler_stopping]
  /\ Goto(t, IF Scheduler_stopping THEN "idleDec" ELSE "next")
  /\ UNCHANGED <<sched, timers, events, pipe, cbs, evs, owner, bounds>>

\* getNextTimer() gives a timeout, which is cut to 5000 ms: whatever it is, the
\* epoll_wait that follows comes to an end.
NextTimeout(t) ==
  /\ pc[t] = "next"
  /\ m_tickled' = FALSE
  /\ Goto(t, "wait")
  /\ UNCHANGED <<sched, armed, due, tied, events, pipe, local, owner, bounds>>

Reportable == edge \/ \E e \in Events : event[e] = "ready"

EpollReports_OnlyPipe(t) ==
  /\ pc[t] = "wait" /\ Reportable
  /\ edge' = FALSE
  /\ evs' = [evs EXCEPT ![t] = IF edge THEN <<Pipe>> ELSE <<>>]
  /\ event' = [e \in Events |-> IF event[e] = "ready" THEN "reported" ELSE event[e]]
  /\ Goto(t, "expire")
  /\ UNCHANGED <<sched, timers, held, wants, m_pendingEvenCount, bytes, blocked, cbs, idleDone, owner, bounds>>

Reports == {e \in Events : event[e] = "ready"} \cup (IF edge THEN {Pipe} ELSE {})

\* epoll_wait reports what has happened, in an order of its own; each edge goes to one
\* thread.
EpollReports(t) ==
  /\ pc[t] = "wait" /\ Reportable
  /\ edge' = FALSE
  /\ \E s \in Arrays(Reports) : evs' = [evs EXCEPT ![t] = s]
  /\ event' = [e \in Events |-> IF event[e] = "ready" THEN "reported" ELSE event[e]]
  /\ Goto(t, "expire")
  /\ UNCHANGED <<sched, timers, held, wants, m_pendingEvenCount, bytes, blocked, cbs, idleDone, owner, bounds>>

EpollTimesOut_NoCap(t) ==
  /\ pc[t] = "wait" /\ ~Reportable /\ ~noTimers
  /\ Goto(t, "expire")
  /\ UNCHANGED <<sched, timers, events, pipe, local, owner, bounds>>

EpollTimesOut(t) ==
  /\ pc[t] = "wait" /\ ~Reportable
  /\ Goto(t, "expire")
  /\ UNCHANGED <<sched, timers, events, pipe, local, owner, bounds>>

\* EINTR: getNextTimer() and epoll_wait again.
EpollInterrupted(t) ==
  /\ pc[t] = "wait"
  /\ m_tickled' = FALSE
  /\ UNCHANGED <<sched, armed, due, tied, events, pipe, pc, local, owner, bounds>>

listExpiredCb_KeepsNone(t) ==
  /\ pc[t] = "expire"
  /\ due' = 0
  /\ Goto(t, "post")
  /\ UNCHANGED <<sched, armed, tied, m_tickled, events, pipe, local, owner, bounds>>

\* listExpiredCb collects the callbacks; they are in no shared state until posted.
listExpiredCb(t) ==
  /\ pc[t] = "expire"
  /\ cbs' = [cbs EXCEPT ![t] = due]
  /\ due' = 0
  /\ Goto(t, "post")
  /\ UNCHANGED <<sched, armed, tied, m_tickled, events, pipe, evs, idleDone, owner, bounds>>

PostExpired(t) ==
  /\ pc[t] = "post"
  /\ \/ /\ cbs[t] > 0
        /\ cbs' = [cbs EXCEPT ![t] = @ - 1]
        /\ Push
        /\ Goto(t, IF NeedTickle THEN "postTickle" ELSE "post")
     \/ /\ cbs[t] = 0
        /\ Goto(t, "dispatch")
        /\ UNCHANGED <<m_tasks, cbs>>
  /\ UNCHANGED <<m_activeThreadCount, m_idleThreadCount, m_stopping, timers, events, pipe, evs, idleDone, owner, bounds>>

\* The element of the array the loop has come to.
Reached(t, e) == pc[t] = "dispatch" /\ evs[t] # <<>> /\ Head(evs[t]) = e

DispatchReadsPipe_Keeps(t) ==
  /\ Reached(t, Pipe)
  /\ evs' = [evs EXCEPT ![t] = Tail(@)]
  /\ UNCHANGED <<sched, timers, events, pipe, pc, cbs, idleDone, owner, bounds>>

\* The pipe is read until it is empty.
DispatchReadsPipe(t) ==
  /\ Reached(t, Pipe)
  /\ evs' = [evs EXCEPT ![t] = Tail(@)]
  /\ bytes' = 0 /\ edge' = FALSE
  /\ UNCHANGED <<sched, timers, events, blocked, pc, cbs, idleDone, owner, bounds>>

\* One reported event: wait for fd_ctx->mutex, and trigger its waiter if it is still
\* registered ...
DispatchTriggers(t) ==
  /\ \E e \in Events :
       /\ Reached(t, e) /\ Free(e) /\ event[e] # "none"
       /\ event' = [event EXCEPT ![e] = "none"]
       /\ held' = [held EXCEPT ![t] = {e}]
  /\ evs' = [evs EXCEPT ![t] = Tail(@)]
  /\ Push
  /\ Goto(t, IF NeedTickle THEN "dispatchTickle" ELSE "dispatchDec")
  /\ UNCHANGED <<m_activeThreadCount, m_idleThreadCount, m_stopping, timers, wants, m_pendingEvenCount, pipe,
                 cbs, idleDone, owner, bounds>>

DispatchCounts_Forgets(t) ==
  /\ pc[t] = "dispatchDec"
  /\ held' = [held EXCEPT ![t] = {}]
  /\ Goto(t, "dispatch")
  /\ UNCHANGED <<sched, timers, event, wants, m_pendingEvenCount, pipe, local, owner, bounds>>

\* ... and count it out, still under fd_ctx->mutex.
DispatchCounts(t) ==
  /\ pc[t] = "dispatchDec"
  /\ m_pendingEvenCount' = m_pendingEvenCount - 1
  /\ held' = [held EXCEPT ![t] = {}]
  /\ Goto(t, "dispatch")
  /\ UNCHANGED <<sched, timers, event, wants, pipe, local, owner, bounds>>

\* It was cancelled after epoll_wait had reported it.
DispatchSkips(t) ==
  /\ \E e \in Events : Reached(t, e) /\ Free(e) /\ event[e] = "none"
  /\ evs' = [evs EXCEPT ![t] = Tail(@)]
  /\ UNCHANGED <<sched, timers, events, pipe, pc, cbs, idleDone, owner, bounds>>

\* All are handled: the idle fiber yields.
DispatchEnds(t) ==
  /\ pc[t] = "dispatch" /\ evs[t] = <<>>
  /\ Goto(t, "idleDec")
  /\ UNCHANGED <<sched, timers, events, pipe, local, owner, bounds>>

-----------------------------------------------------------------------------
(* The world: time passes and descriptors become ready.                     *)

TimerBecomesDue ==
  /\ armed > 0
  /\ armed' = armed - 1 /\ due' = due + 1
  /\ UNCHANGED <<sched, tied, m_tickled, events, pipe, pc, local, owner, bounds>>

DescriptorReady(e) ==
  /\ event[e] = "armed"
  /\ event' = [event EXCEPT ![e] = "ready"]
  /\ UNCHANGED <<sched, timers, held, wants, m_pendingEvenCount, pipe, pc, local, owner, bounds>>

-----------------------------------------------------------------------------
Serve(t) ==
  \/ ScanTakes(t) \/ ScanFindsNone(t) \/ Tickles(t) \/ CancelPushes(t) \/ CancelTickles(t) \/ TaskLocks(t) \/ Dec(t)
  \/ Break(t) \/ EnterIdle(t) \/ LeaveIdle(t)
  \/ StoppingTimers(t) \/ StoppingEvents(t) \/ StoppingBase(t) \/ NextTimeout(t)
  \/ EpollReports(t) \/ EpollTimesOut(t) \/ listExpiredCb(t) \/ PostExpired(t)
  \/ TickleBlocks(t) \/ DispatchReadsPipe(t)
  \/ DispatchTriggers(t) \/ DispatchCounts(t) \/ DispatchSkips(t) \/ DispatchEnds(t)

Client(t) ==
  \/ TaskPosts(t) \/ TaskAddsTimer(t)
  \/ \E e \in Events : addEvent(t, e) \/ cancelEvent(t, e) \/ TaskWaits(t, e)

OwnerProceeds == MainTickles \/ MainBlocks \/ StopTickles \/ StopGoesOn \/ RootDone \/ Join

World == TimerBecomesDue \/ \E e \in Events : DescriptorReady(e)

\* t waits for the fd_ctx->mutex of an event, in a task or in the loop over the array, and
\* the holder waits in tickle() for room in the pipe.
WaitsForWriter(t) ==
  \E u \in blocked \cap Threads : \E e \in held[u] : Reached(t, e) \/ (pc[t] = "runLock" /\ e \in wants[t])

\* Someone waits in tickle() for room in the pipe, and so does, or waits for one who does,
\* every thread that will read it: those the pipe was reported to or, if it is to be
\* reported again, all.
Jammed ==
  /\ blocked # {} /\ bytes = PipeCapacity
  /\ \A t \in Threads :
       \/ pc[t] \in {"off", "exited"} \/ (~edge /\ Pipe \notin Holds(evs[t]))
       \/ t \in blocked \/ WaitsForWriter(t)
Jam == Jammed /\ UNCHANGED vars

Next ==
  /\ UNCHANGED config
  /\ \/ MainPosts \/ MainAddsTimer \/ Stop \/ OwnerProceeds \/ Stopped \/ Jam
     \/ \E t \in Threads : Serve(t) \/ Client(t) \/ TaskEnds(t) \/ EpollInterrupted(t)
     \/ World

Spec == Init /\ [][Next]_vars

\* The operating system schedules the threads and honours timeouts, the code of
\* a task comes to an end, time passes, and what a task waits for happens.
Fairness ==
  /\ WF_vars(UNCHANGED config /\ OwnerProceeds)
  /\ \A t \in Workers : WF_vars(UNCHANGED config /\ t \in Threads /\ (Serve(t) \/ TaskEnds(t)))
  /\ WF_vars(UNCHANGED config /\ World)

FairSpec == Spec /\ Fairness

-----------------------------------------------------------------------------
(* Properties.                                                              *)

\* The places in run() where m_activeThreadCount counts a thread, where it runs a
\* task, where it has cancelled an event and not posted its waiter, and where it has
\* triggered an event and not counted it out.
ActivePc == {"scanTickle", "run", "runTickle", "runLock", "cancelPush", "cancelTickle", "dec"}
RunningPc == ActivePc \ {"dec"}
CancellingPc == {"cancelPush"}
TriggeringPc == {"dispatchTickle", "dispatchDec"}
CountAt(Names) == Cardinality({t \in Threads : pc[t] \in Names})

\* The callbacks that have been collected, numbered for each thread.
Collected == UNION {{t} \X (1..cbs[t]) : t \in Threads}
Registered == {e \in Events : event[e] # "none"}

\* Nothing is lost or done twice on its way between timers, callbacks that have
\* been collected, registered events, cancelled ones and the queue: every task,
\* timer and event the clients created has been run, is being run, or is in
\* exactly one of these places, unless it is a timer that addTimer dropped because
\* another one had the same m_next.
WorkConserved ==
  work = done + m_tasks + armed + due + tied + Cardinality(Collected) + Cardinality(Registered)
         + CountAt(RunningPc) + CountAt(CancellingPc)

\* When stop() returns the destructor's assert(stopping()) holds: no task is
\* queued or running, every thread has left, and none took callbacks or
\* reported events with it.
IODrains ==
  mainPc = "stopped" =>
    /\ Scheduler_stopping
    /\ \A t \in Threads : pc[t] = "exited" /\ cbs[t] = 0 /\ evs[t] = <<>>

\* No counter underflows, and m_pendingEvenCount never lags behind the
\* registrations: it counts them, and those a dispatcher has triggered and is
\* about to count out.
PendingExact ==
  /\ TypeOK
  /\ m_pendingEvenCount = Cardinality(Registered) + CountAt(TriggeringPc)

\* Unread bytes are looked after: epoll will report them, or a thread that has
\* the pipe in its array will read them.  So a full pipe is emptied unless that
\* thread itself waits for room, or for a mutex whose holder does.
PipeAttended == bytes > 0 => edge \/ \E t \in Threads : Pipe \in Holds(evs[t])

\* stop() returns, once the timers have expired and the events have happened,
\* unless those that would read the pipe wait in tickle() for room in it, or for
\* the mutex of a descriptor that such a thread holds meanwhile.
IOStopReturns == m_stopping ~> mainPc = "stopped" \/ Jammed

\* Posted tasks are taken, although tickle() may miss a thread that is about to
\* sleep (no sleep is longer than 5 seconds) and may block on a full pipe.
QueueServed == m_tasks > 0 ~> m_tasks = 0 \/ Jammed

\* Until stop(), the waiter of a descriptor that has become ready is triggered
\* (or the event was cancelled), although its edge goes to only one thread.
ReadyDelivered == \A e \in Events : event[e] = "ready" ~> event[e] = "none" \/ m_stopping \/ Jammed
=============================================================================
