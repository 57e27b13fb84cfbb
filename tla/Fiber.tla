------------------------------- MODULE Fiber --------------------------------
(***************************************************************************)
(* Fiber (fiber.cpp): how flows of control are switched with swapcontext   *)
(* through the thread-local t_fiber, t_thread_fiber and t_scheduler_fiber, *)
(* how a Scheduler with use_caller sets them up, how Scheduler::run()      *)
(* resumes the fibers posted to it under their m_mutex, and what happens   *)
(* when a program calls resume() and reset() itself.                       *)
(*                                                                         *)
(* The flows are the stacks of the program: one per thread, named like the *)
(* thread, and one per fiber.  The main fiber of a thread has the thread's *)
(* name, too.  A context names the flow whose place it holds; once that    *)
(* flow runs on, the place is gone and the context is stale.  A yield()    *)
(* takes two steps, since another thread may look at the fiber after it    *)
(* has become READY and before its context is saved.                       *)
(*                                                                         *)
(* Where the program aborts or jumps to a place that is gone, the model    *)
(* stops and `broken' says why.  It also stops, with `misused', when a     *)
(* caller breaks a rule, after which nothing holds: it resumes a fiber     *)
(* from another flow than the one whose context resume() overwrites,       *)
(* posts a fiber that was made not to run in a scheduler, or that runs     *)
(* since a resume() outside of run(), resumes or resets one that a thread  *)
(* or the queue still has, stops the Scheduler on another thread than its  *)
(* creator's, or yields outside of a fiber.                                *)
(*                                                                         *)
(* A definition X_Y just before X is X with a plausible bug Y; it is used  *)
(* only to confirm that the properties notice the bug.                     *)
(***************************************************************************)
EXTENDS Integers, FiniteSets

CONSTANTS
  Threads,
  Root,     \* the thread that creates the Scheduler
  User,     \* fibers that programs create, or run() for a callback
  Sched,    \* m_schedulerFiber of a Scheduler with use_caller
  Nil

Fibers == User \cup {Sched}
Flows == Threads \cup Fibers

ASSUME FiberAssumption ==
  /\ Root \in Threads /\ Sched \notin User /\ Nil \notin Flows
  /\ Threads \cap Fibers = {} /\ {"entry", "stale"} \cap Flows = {}
  /\ Nil \notin Flows \X (Flows \cup {Nil}) \X (Flows \cup {"stale"})

VARIABLES
  cpu,                 \* cpu[t]: the flow that thread t executes
  t_fiber, t_scheduler_fiber,
  t_thread_fiber,      \* threads that have a main fiber
  m_state,             \* of every Fiber, "none" before and "gone" after its life
  m_runInScheduler,    \* the fibers for which it is true
  m_ctx,               \* m_ctx[f]: "entry", "stale" or the flow whose place it holds
  m_mutex,             \* m_mutex[f]: the flow that holds it, or Nil
  inside,              \* inside[g]: the fiber whose resume() flow g is in, or Nil
  leaving,             \* leaving[t]: <<from, to, place>> if yield() is about to swap, or Nil
  direct,              \* fibers that execute since a resume() outside of run()
  m_tasks,             \* fibers posted to the Scheduler
  misused, broken

locals == <<cpu, t_fiber, t_scheduler_fiber, t_thread_fiber, leaving>>
objects == <<m_state, m_runInScheduler, m_ctx, m_mutex>>
vars == <<locals, objects, inside, direct, m_tasks, misused, broken>>

TypeOK ==
  /\ cpu \in [Threads -> Flows] /\ t_fiber \in [Threads -> Flows \cup {Nil}]
  /\ t_scheduler_fiber \in [Threads -> Flows \cup {Nil}] /\ t_thread_fiber \in SUBSET Threads
  /\ m_state \in [Flows -> {"none", "READY", "RUNNING", "TERM", "gone"}]
  /\ m_runInScheduler \in SUBSET User /\ m_ctx \in [Flows -> Flows \cup {"entry", "stale"}]
  /\ m_mutex \in [User -> Flows \cup {Nil}] /\ inside \in [Flows -> Fibers \cup {Nil}]
  /\ leaving \in [Threads -> {Nil} \cup (Flows \X (Flows \cup {Nil}) \X (Flows \cup {"stale"}))]
  /\ direct \in SUBSET Fibers /\ m_tasks \in SUBSET User
  /\ misused \in BOOLEAN /\ broken \in {"no", "assert", "stale", "dangling"}

Init ==
  /\ cpu = [t \in Threads |-> t] /\ leaving = [t \in Threads |-> Nil]
  /\ t_fiber = [t \in Threads |-> Nil] /\ t_scheduler_fiber = [t \in Threads |-> Nil]
  /\ t_thread_fiber = {}
  /\ m_state = [f \in Flows |-> "none"] /\ m_runInScheduler = {}
  /\ m_ctx = [f \in Flows |-> "stale"] /\ m_mutex = [f \in User |-> Nil]
  /\ inside = [g \in Flows |-> Nil] /\ direct = {} /\ m_tasks = {} /\ misused = FALSE /\ broken = "no"

Exists(f) == m_state[f] \notin {"none", "gone"}
Executing(f) == \E t \in Threads : cpu[t] = f
Free(t) == leaving[t] = Nil

Breaks(why) == broken' = why /\ UNCHANGED <<locals, objects, inside, direct, m_tasks, misused>>

-----------------------------------------------------------------------------
(* Construction.                                                            *)

\* GetThis() in a thread without a current fiber: its main fiber.
GetThis(t) ==
  /\ Free(t) /\ t_fiber[t] = Nil
  /\ t_fiber' = [t_fiber EXCEPT ![t] = t]
  /\ t_scheduler_fiber' = [t_scheduler_fiber EXCEPT ![t] = t]
  /\ t_thread_fiber' = t_thread_fiber \cup {t}
  /\ m_state' = [m_state EXCEPT ![t] = "RUNNING"]
  /\ UNCHANGED <<cpu, leaving, m_runInScheduler, m_ctx, m_mutex, inside, direct, m_tasks, misused, broken>>

\* Fiber(cb, stacksize, run_in_scheduler).
Create(f, runInScheduler) ==
  /\ m_state[f] = "none"
  /\ m_state' = [m_state EXCEPT ![f] = "READY"]
  /\ m_runInScheduler' = (IF runInScheduler THEN m_runInScheduler \cup {f} ELSE m_runInScheduler)
  /\ m_ctx' = [m_ctx EXCEPT ![f] = "entry"]
  /\ UNCHANGED <<locals, m_mutex, inside, direct, m_tasks, misused, broken>>

\* Scheduler() with use_caller: the main fiber, the scheduler's fiber, which
\* returns to the main fiber, and where the fibers of this thread return to.
CreateScheduler ==
  /\ Free(Root) /\ cpu[Root] = Root /\ m_state[Sched] = "none"
  /\ t_fiber' = [t_fiber EXCEPT ![Root] = Root]
  /\ t_thread_fiber' = t_thread_fiber \cup {Root}
  /\ t_scheduler_fiber' = [t_scheduler_fiber EXCEPT ![Root] = Sched]
  /\ m_state' = [m_state EXCEPT ![Root] = "RUNNING", ![Sched] = "READY"]
  /\ m_ctx' = [m_ctx EXCEPT ![Sched] = "entry"]
  /\ UNCHANGED <<cpu, leaving, m_runInScheduler, m_mutex, inside, direct, m_tasks, misused, broken>>

\* reset(cb), also when another thread has not finished the last yield().
Reset(f) ==
  /\ m_state[f] = "TERM"
  /\ m_state' = [m_state EXCEPT ![f] = "READY"]
  /\ m_ctx' = [m_ctx EXCEPT ![f] = "entry"]
  /\ misused' = (misused \/ Executing(f))
  /\ UNCHANGED <<locals, m_runInScheduler, m_mutex, inside, direct, m_tasks, broken>>

\* ~Fiber, when nobody uses the fiber any more; that of the Scheduler goes with
\* it, which t_scheduler_fiber does not notice.
Destroy(f) ==
  /\ Exists(f) /\ ~Executing(f) /\ f \notin m_tasks /\ \A g \in Flows : inside[g] # f
  /\ f = Sched => m_state[f] = "TERM"
  /\ m_state' = [m_state EXCEPT ![f] = "gone"]
  /\ UNCHANGED <<locals, m_runInScheduler, m_ctx, m_mutex, inside, direct, m_tasks, misused, broken>>

-----------------------------------------------------------------------------
(* Switching.                                                               *)

Valid(o) == o # Nil /\ Exists(o)

Continues(ctx, to) == IF ctx[to] = "entry" THEN to ELSE ctx[to]
Broken(ctx, from, to) ==
  IF ~Valid(from) \/ ~Valid(to) THEN "dangling"
  ELSE IF ctx[to] = "stale" THEN "stale" ELSE "no"

\* Thread t stores the place `saved' in `from' and goes on at the one in `to'; a flow
\* that was in resume() returns from it and releases the fiber's mutex.
Swap(t, from, to, saved, frames, locks) ==
  LET ctx == IF Valid(from) THEN [m_ctx EXCEPT ![from] = saved] ELSE m_ctx
      why == Broken(ctx, from, to)
      h == Continues(ctx, to)
  IN
  /\ broken' = why
  /\ IF why # "no"
     THEN UNCHANGED <<cpu, m_ctx>> /\ inside' = frames /\ m_mutex' = locks
     ELSE /\ cpu' = [cpu EXCEPT ![t] = h]
          /\ m_ctx' = [f \in Flows |-> IF ctx[f] = h \/ (f = to /\ ctx[f] = "entry") THEN "stale" ELSE ctx[f]]
          /\ inside' = [frames EXCEPT ![h] = Nil]
          /\ m_mutex' = [f \in User |-> IF frames[h] = f /\ locks[f] = h THEN Nil ELSE locks[f]]

\* The fiber in whose context resume() of f saves the caller, and to which yield() goes.
Slot(t, f) ==
  IF f \in m_runInScheduler THEN t_scheduler_fiber[t]
  ELSE IF t \in t_thread_fiber THEN t ELSE Nil

\* resume() of a fiber that is READY.
resume(t, f, locks) ==
  /\ m_state' = [m_state EXCEPT ![f] = "RUNNING"]
  /\ t_fiber' = [t_fiber EXCEPT ![t] = f]
  /\ Swap(t, Slot(t, f), f, cpu[t], [inside EXCEPT ![cpu[t]] = f], locks)
  /\ UNCHANGED <<t_scheduler_fiber, t_thread_fiber, leaving, m_runInScheduler>>

\* A program resumes a fiber it has, or Scheduler::stop() the scheduler's.
Resume(t, f) ==
  /\ Free(t) /\ Exists(f)
  /\ misused' = (misused \/ cpu[t] # Slot(t, f) \/ Executing(f) \/ f \in m_tasks \/ (f = Sched /\ t # Root))
  /\ IF m_state[f] = "READY"
     THEN resume(t, f, m_mutex) /\ direct' = direct \cup {f}
     ELSE broken' = "assert" /\ UNCHANGED <<locals, objects, inside, direct>>
  /\ UNCHANGED m_tasks

\* A fiber is posted: by schedulerLock or by an event it waits for, often while
\* it is still on its way into yield().
Post(f) ==
  /\ Exists(f) /\ f \notin m_tasks
  /\ m_tasks' = m_tasks \cup {f}
  /\ misused' = (misused \/ f \notin m_runInScheduler \/ f \in direct)
  /\ UNCHANGED <<locals, objects, inside, direct, broken>>

\* The flow that executes run() on thread t.
Runner(t) == IF t = Root /\ m_state[Sched] # "none" THEN Sched ELSE t
Runs(t) == Free(t) /\ cpu[t] = Runner(t) /\ t \in t_thread_fiber

RunTask_Unlocked(t, f) ==
  /\ Runs(t) /\ f \in m_tasks
  /\ m_tasks' = m_tasks \ {f}
  /\ IF m_state[f] = "TERM" THEN UNCHANGED <<locals, objects, inside, broken>>
     ELSE IF m_state[f] = "READY" THEN resume(t, f, m_mutex)
     ELSE broken' = "assert" /\ UNCHANGED <<locals, objects, inside>>
  /\ UNCHANGED <<direct, misused>>

\* run() takes a fiber from the queue, locks it and, unless it has ended, resumes it.
RunTask(t, f) ==
  /\ Runs(t) /\ f \in m_tasks /\ m_mutex[f] = Nil
  /\ m_tasks' = m_tasks \ {f}
  /\ IF m_state[f] = "TERM" THEN UNCHANGED <<locals, objects, inside, broken>>
     ELSE IF m_state[f] = "READY" THEN resume(t, f, [m_mutex EXCEPT ![f] = cpu[t]])
     ELSE broken' = "assert" /\ UNCHANGED <<locals, objects, inside>>
  /\ UNCHANGED <<direct, misused>>

\* yield() of the current fiber, up to the swap.  The main fiber's m_runInScheduler
\* was never written.
YieldBegins(t) ==
  LET x == t_fiber[t] IN
  /\ Free(t) /\ x # Nil /\ Exists(x)
  /\ misused' = (misused \/ x \in Threads)
  /\ \E to \in (IF x \in Threads THEN {t_scheduler_fiber[t], t} ELSE {Slot(t, x)}) :
       IF m_state[x] = "RUNNING"
       THEN /\ m_state' = [m_state EXCEPT ![x] = "READY"]
            /\ t_fiber' = [t_fiber EXCEPT ![t] = to]
            /\ leaving' = [leaving EXCEPT ![t] = <<x, to, cpu[t]>>]
            /\ UNCHANGED broken
       ELSE broken' = "assert" /\ UNCHANGED <<m_state, t_fiber, leaving>>
  /\ UNCHANGED <<cpu, t_scheduler_fiber, t_thread_fiber, m_runInScheduler, m_ctx, m_mutex, inside, direct, m_tasks>>

MainFuncEnds_ToMain(t) ==
  LET f == cpu[t] IN
  /\ Free(t) /\ f \in Fibers
  /\ m_state' = [m_state EXCEPT ![f] = "TERM"]
  /\ t_fiber' = [t_fiber EXCEPT ![t] = t]
  /\ leaving' = [leaving EXCEPT ![t] = <<f, t, "stale">>]
  /\ UNCHANGED <<cpu, t_scheduler_fiber, t_thread_fiber, m_runInScheduler, m_ctx, m_mutex, inside, direct,
                 m_tasks, misused, broken>>

\* MainFunc after the callback: TERM, and the last yield().
MainFuncEnds(t) ==
  LET f == cpu[t] IN
  /\ Free(t) /\ f \in Fibers
  /\ m_state' = [m_state EXCEPT ![f] = "TERM"]
  /\ t_fiber' = [t_fiber EXCEPT ![t] = Slot(t, f)]
  /\ leaving' = [leaving EXCEPT ![t] = <<f, Slot(t, f), "stale">>]
  /\ UNCHANGED <<cpu, t_scheduler_fiber, t_thread_fiber, m_runInScheduler, m_ctx, m_mutex, inside, direct,
                 m_tasks, misused, broken>>

\* ... and the swap.  A flow that has ended has no place to go on from.
YieldSwaps(t) ==
  LET x == leaving[t][1]
      to == leaving[t][2]
  IN
  /\ leaving[t] # Nil
  /\ Swap(t, x, to, leaving[t][3], inside, m_mutex)
  /\ direct' = direct \ {cpu[t]}
  /\ leaving' = [leaving EXCEPT ![t] = Nil]
  /\ UNCHANGED <<t_fiber, t_scheduler_fiber, t_thread_fiber, m_state, m_runInScheduler, m_tasks, misused>>

-----------------------------------------------------------------------------
Next ==
  /\ broken = "no" /\ ~misused
  /\ \/ CreateScheduler
     \/ \E t \in Threads : GetThis(t) \/ YieldBegins(t) \/ MainFuncEnds(t) \/ YieldSwaps(t)
     \/ \E t \in Threads, f \in Fibers : Resume(t, f)
     \/ \E t \in Threads, f \in User : RunTask(t, f)
     \/ \E f \in User : Post(f) \/ Reset(f) \/ \E r \in BOOLEAN : Create(f, r)
     \/ \E f \in Fibers : Destroy(f)

Spec == Init /\ [][Next]_vars

-----------------------------------------------------------------------------
(* Properties.                                                              *)

\* As long as nobody breaks a rule the program does not jump to a place that is
\* gone or use a fiber that is, however fibers move between threads while they
\* yield; between the calls GetThis() is the flow that executes, and what can be
\* resumed has a context that holds its own place.
Coherent ==
  /\ TypeOK
  /\ ~misused =>
       /\ broken \in {"no", "assert"}
       /\ \A t \in Threads : Free(t) /\ t_fiber[t] # Nil => t_fiber[t] = cpu[t]
       /\ \A f \in Fibers : m_state[f] = "READY" /\ ~Executing(f) => m_ctx[f] \in {"entry", f}

\* Fiber keeps the promise of Coroutines.tla: resume() returns to its caller, on
\* its thread, when the fiber yields or ends, and a fiber counts as suspended only
\* when its context is saved.
StatusOf(f) ==
  IF Executing(f) THEN "running"
  ELSE CASE m_state[f] = "none" -> "none"
         [] m_state[f] = "gone" -> "gone"
         [] m_state[f] = "READY" -> "suspended"
         [] m_state[f] = "RUNNING" -> "running"
         [] m_state[f] = "TERM" -> "done"

Promise == INSTANCE Coroutines
             WITH running <- cpu, status <- [f \in Fibers |-> StatusOf(f)], void <- misused \/ broken = "assert"
ImplementsCoroutines == Promise!CSpec
=============================================================================
