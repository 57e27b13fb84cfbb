----------------------------- MODULE FiberProofs -----------------------------
(***************************************************************************)
(* Theorems about Fiber.tla: for any number of threads and fibers, a       *)
(* program that keeps the rules of Fiber never jumps to a place that is    *)
(* gone, and Fiber implements Coroutines.                                  *)
(***************************************************************************)
EXTENDS Fiber, TLAPS

-----------------------------------------------------------------------------
(* The inductive invariant: what is true until a rule is broken.            *)

\* A thread with a main fiber has it RUNNING and knows the flow that executes
\* run(); GetThis() is the current fiber or, in yield(), the next.  A thread without
\* one executes nothing but itself.
MainFibers ==
  /\ \A t \in t_thread_fiber :
       /\ m_state[t] = "RUNNING" /\ t_scheduler_fiber[t] = Runner(t)
       /\ t_fiber[t] = IF Free(t) THEN cpu[t] ELSE leaving[t][2]
  /\ \A t \in Threads \ t_thread_fiber : cpu[t] = t /\ Free(t) /\ t_fiber[t] = Nil /\ t_scheduler_fiber[t] = Nil
  /\ m_state[Sched] # "none" => Root \in t_thread_fiber

\* A fiber f on thread t was resumed by the flow to which it will return: that flow is
\* inside resume(), its context holds its own place, and it has the mutex of f unless
\* a program resumed f itself.  The scheduler's fiber is under the fibers it resumes.
Called(t, f) ==
  /\ inside[Slot(t, f)] = f /\ m_ctx[Slot(t, f)] = Slot(t, f)
  /\ f = Sched => t = Root
  /\ \/ Free(t) /\ m_state[f] = "RUNNING"
     \/ leaving[t] = <<f, Slot(t, f), f>> /\ m_state[f] = "READY"
     \/ leaving[t] = <<f, Slot(t, f), "stale">> /\ m_state[f] = "TERM"
  /\ f \in User \ direct => m_mutex[f] = Slot(t, f)
  /\ Slot(t, f) = Sched => inside[Root] = Sched /\ m_ctx[Root] = Root /\ m_state[Sched] = "RUNNING"

Executions ==
  /\ \A t \in Threads : cpu[t] \in Fibers \cup {t}
  /\ \A t, u \in Threads : cpu[t] = cpu[u] => t = u
  /\ \A t \in Threads : cpu[t] = t => Free(t) /\ inside[t] = Nil
  /\ \A t \in Threads : cpu[t] \in Fibers => Called(t, cpu[t])

\* Only a thread and the scheduler's fiber are ever inside resume(), the latter under
\* a fiber that runs in the scheduler.
Insides ==
  /\ \A f \in User : inside[f] = Nil
  /\ inside[Sched] # Nil =>
       inside[Sched] = cpu[Root] /\ cpu[Root] \in m_runInScheduler /\ m_state[Sched] = "RUNNING"

\* A context holds the place of its own flow or none, and that of a fiber that can be
\* resumed is good.
Contexts ==
  /\ \A g \in Flows : m_ctx[g] \in {"entry", "stale", g}
  /\ \A f \in Fibers : m_state[f] = "READY" /\ ~Executing(f) => m_ctx[f] \in {"entry", f}

\* RUNNING fibers are on a thread, or resume others there.
States ==
  /\ \A f \in User : m_state[f] = "RUNNING" => Executing(f)
  /\ m_state[Sched] = "RUNNING" => Executing(Sched) \/ inside[Sched] # Nil

\* What is in the queue exists, runs in the scheduler, and was not resumed otherwise.
Posted == \A f \in m_tasks : f \in m_runInScheduler /\ f \notin direct /\ Exists(f)

Sound == MainFibers /\ Executions /\ Insides /\ Contexts /\ States /\ Posted

\* The inductive invariant.
IndInv == TypeOK /\ (~misused => broken \in {"no", "assert"} /\ Sound)

-----------------------------------------------------------------------------
(* Types.                                                                   *)

\* What the names stand for.
LEMMA FlowFacts ==
  /\ Root \in Threads /\ Sched \in Fibers /\ Sched \notin User /\ Nil \notin Flows
  /\ Threads \subseteq Flows /\ Fibers \subseteq Flows /\ User \subseteq Fibers /\ Threads \cap Fibers = {}
  /\ Fibers = User \cup {Sched} /\ Flows = Threads \cup Fibers
  /\ "entry" \notin Flows /\ "stale" \notin Flows
BY FiberAssumption DEF Fibers, Flows

Places == {Nil} \cup (Flows \X (Flows \cup {Nil}) \X (Flows \cup {"stale"}))

LEMMA SlotType ==
  ASSUME TypeOK, NEW t \in Threads, NEW f
  PROVE  Slot(t, f) \in Flows \cup {Nil}
BY FlowFacts DEF TypeOK, Slot

LEMMA SwapType ==
  ASSUME TypeOK, NEW t \in Threads, NEW from \in Flows \cup {Nil}, NEW to \in Flows \cup {Nil},
         NEW saved \in Flows \cup {"stale"}, NEW frames \in [Flows -> Fibers \cup {Nil}],
         NEW locks \in [User -> Flows \cup {Nil}], Swap(t, from, to, saved, frames, locks)
  PROVE  /\ cpu' \in [Threads -> Flows] /\ m_ctx' \in [Flows -> Flows \cup {"entry", "stale"}]
         /\ inside' \in [Flows -> Fibers \cup {Nil}] /\ m_mutex' \in [User -> Flows \cup {Nil}]
         /\ broken' \in {"no", "stale", "dangling"}
<1> DEFINE ctx == IF Valid(from) THEN [m_ctx EXCEPT ![from] = saved] ELSE m_ctx
           why == Broken(ctx, from, to)
           h == Continues(ctx, to)
<1>1. ctx \in [Flows -> Flows \cup {"entry", "stale"}]
  BY DEF TypeOK, Valid
<1>2. /\ broken' = why
      /\ IF why # "no"
         THEN UNCHANGED <<cpu, m_ctx>> /\ inside' = frames /\ m_mutex' = locks
         ELSE /\ cpu' = [cpu EXCEPT ![t] = h]
              /\ m_ctx' = [f \in Flows |-> IF ctx[f] = h \/ (f = to /\ ctx[f] = "entry") THEN "stale" ELSE ctx[f]]
              /\ inside' = [frames EXCEPT ![h] = Nil]
              /\ m_mutex' = [f \in User |-> IF frames[h] = f /\ locks[f] = h THEN Nil ELSE locks[f]]
  BY Zenon DEF Swap
<1> HIDE DEF ctx
<1>3. why \in {"no", "stale", "dangling"} /\ (why = "no" => to \in Flows /\ ctx[to] # "stale")
  BY DEF Broken, Valid
<1>4. why = "no" => h \in Flows
  BY <1>1, <1>3 DEF Continues
<1> HIDE DEF why, h
<1>5. CASE why # "no"
  BY <1>2, <1>3, <1>5 DEF TypeOK
<1>6. CASE why = "no"
  <2>1. cpu' \in [Threads -> Flows]
    BY <1>2, <1>4, <1>6 DEF TypeOK
  <2>2. m_ctx' \in [Flows -> Flows \cup {"entry", "stale"}]
    BY <1>1, <1>2, <1>6
  <2>3. inside' \in [Flows -> Fibers \cup {Nil}]
    BY <1>2, <1>6
  <2>4. m_mutex' \in [User -> Flows \cup {Nil}]
    BY <1>2, <1>6
  <2>5. QED  BY <1>2, <1>6, <2>1, <2>2, <2>3, <2>4
<1>7. QED  BY <1>5, <1>6

\* resume() keeps the types, whoever calls it.
LEMMA ResumeType ==
  ASSUME TypeOK, NEW t \in Threads, NEW f \in Fibers, NEW locks \in [User -> Flows \cup {Nil}],
         resume(t, f, locks), direct' \in SUBSET Fibers, m_tasks' \in SUBSET User, misused' \in BOOLEAN
  PROVE  TypeOK'
<1> USE FlowFacts
<1>1. cpu[t] \in Flows /\ [inside EXCEPT ![cpu[t]] = f] \in [Flows -> Fibers \cup {Nil}]
  BY DEF TypeOK
<1>2. /\ cpu' \in [Threads -> Flows] /\ m_ctx' \in [Flows -> Flows \cup {"entry", "stale"}]
      /\ inside' \in [Flows -> Fibers \cup {Nil}] /\ m_mutex' \in [User -> Flows \cup {Nil}]
      /\ broken' \in {"no", "stale", "dangling"}
  <2>1. PICK from \in Flows \cup {Nil}, saved \in Flows \cup {"stale"}, frames \in [Flows -> Fibers \cup {Nil}] :
          from = Slot(t, f) /\ saved = cpu[t] /\ frames = [inside EXCEPT ![cpu[t]] = f]
    BY <1>1, SlotType
  <2>2. Swap(t, from, f, saved, frames, locks)
    BY <2>1 DEF resume
  <2>3. QED  BY <2>2, SwapType
<1>3. m_state' \in [Flows -> {"none", "READY", "RUNNING", "TERM", "gone"}] /\ t_fiber' \in [Threads -> Flows \cup {Nil}]
  BY DEF resume, TypeOK
<1>4. UNCHANGED <<t_scheduler_fiber, t_thread_fiber, leaving, m_runInScheduler>>
  BY DEF resume
<1>5. QED
  BY <1>2, <1>3, <1>4 DEF TypeOK

LEMMA TypeStep == ASSUME TypeOK, Next PROVE TypeOK'
<1> USE FlowFacts
<1>1. CASE CreateScheduler
  BY <1>1 DEF TypeOK, CreateScheduler
<1>2. ASSUME NEW t \in Threads, GetThis(t) PROVE TypeOK'
  BY <1>2 DEF TypeOK, GetThis
<1>3. ASSUME NEW t \in Threads, YieldBegins(t) PROVE TypeOK'
  <2> DEFINE x == t_fiber[t]
  <2>1. x \in Flows
    BY <1>3 DEF YieldBegins, TypeOK
  <2>2. PICK to \in (IF x \in Threads THEN {t_scheduler_fiber[t], t} ELSE {Slot(t, x)}) :
       IF m_state[x] = "RUNNING"
       THEN /\ m_state' = [m_state EXCEPT ![x] = "READY"]
            /\ t_fiber' = [t_fiber EXCEPT ![t] = to]
            /\ leaving' = [leaving EXCEPT ![t] = <<x, to, cpu[t]>>]
            /\ UNCHANGED broken
       ELSE broken' = "assert" /\ UNCHANGED <<m_state, t_fiber, leaving>>
    BY <1>3 DEF YieldBegins
  <2>3. to \in Flows \cup {Nil}
    BY SlotType DEF TypeOK
  <2>4. m_state' \in [Flows -> {"none", "READY", "RUNNING", "TERM", "gone"}] /\ t_fiber' \in [Threads -> Flows \cup {Nil}]
    BY <2>1, <2>2, <2>3 DEF TypeOK
  <2>5. leaving' \in [Threads -> Places]
    <3>1. <<x, to, cpu[t]>> \in Places
      BY <2>1, <2>3 DEF TypeOK, Places
    <3>2. leaving \in [Threads -> Places]
      BY DEF TypeOK, Places
    <3> HIDE DEF x
    <3>3. QED  BY <2>2, <3>1, <3>2
  <2>6. misused' \in BOOLEAN
    BY <1>3, Zenon DEF YieldBegins
  <2>7. broken' \in {"no", "assert", "stale", "dangling"}
    BY <2>2 DEF TypeOK
  <2>8. UNCHANGED <<cpu, t_scheduler_fiber, t_thread_fiber, m_runInScheduler, m_ctx, m_mutex, inside, direct, m_tasks>>
    BY <1>3 DEF YieldBegins
  <2>9. QED  BY <2>4, <2>5, <2>6, <2>7, <2>8 DEF TypeOK, Places
<1>4. ASSUME NEW t \in Threads, MainFuncEnds(t) PROVE TypeOK'
  <2> DEFINE f == cpu[t]
  <2>1. f \in Fibers /\ Slot(t, f) \in Flows \cup {Nil}
    BY <1>4, SlotType DEF MainFuncEnds
  <2>2. leaving' \in [Threads -> Places]
    <3>1. <<f, Slot(t, f), "stale">> \in Places
      BY <2>1 DEF Places
    <3>2. leaving \in [Threads -> Places]
      BY DEF TypeOK, Places
    <3>3. leaving' = [leaving EXCEPT ![t] = <<f, Slot(t, f), "stale">>]
      BY <1>4 DEF MainFuncEnds
    <3> HIDE DEF f
    <3>4. QED  BY <3>1, <3>2, <3>3
  <2>3. m_state' \in [Flows -> {"none", "READY", "RUNNING", "TERM", "gone"}] /\ t_fiber' \in [Threads -> Flows \cup {Nil}]
    BY <1>4, <2>1 DEF MainFuncEnds, TypeOK
  <2>4. QED  BY <1>4, <2>2, <2>3 DEF MainFuncEnds, TypeOK, Places
<1>5. ASSUME NEW t \in Threads, YieldSwaps(t) PROVE TypeOK'
  <2>1. PICK from \in Flows \cup {Nil}, to \in Flows \cup {Nil}, saved \in Flows \cup {"stale"} :
          from = leaving[t][1] /\ to = leaving[t][2] /\ saved = leaving[t][3]
    BY <1>5 DEF YieldSwaps, TypeOK
  <2>2. Swap(t, from, to, saved, inside, m_mutex)
    BY <1>5, <2>1 DEF YieldSwaps
  <2>3. /\ cpu' \in [Threads -> Flows] /\ m_ctx' \in [Flows -> Flows \cup {"entry", "stale"}]
        /\ inside' \in [Flows -> Fibers \cup {Nil}] /\ m_mutex' \in [User -> Flows \cup {Nil}]
        /\ broken' \in {"no", "stale", "dangling"}
    <3>1. inside \in [Flows -> Fibers \cup {Nil}] /\ m_mutex \in [User -> Flows \cup {Nil}]
      BY DEF TypeOK
    <3>2. QED  BY <2>2, <3>1, SwapType
  <2>4. leaving' \in [Threads -> Places] /\ direct' \in SUBSET Fibers
    BY <1>5 DEF YieldSwaps, TypeOK, Places
  <2>5. QED  BY <1>5, <2>3, <2>4 DEF YieldSwaps, TypeOK, Places
<1>6. ASSUME NEW t \in Threads, NEW f \in Fibers, Resume(t, f) PROVE TypeOK'
  <2>1. misused' \in BOOLEAN /\ UNCHANGED m_tasks
    BY <1>6, Zenon DEF Resume
  <2>2. CASE m_state[f] = "READY"
    <3>1. resume(t, f, m_mutex) /\ direct' = direct \cup {f}
      BY <1>6, <2>2 DEF Resume
    <3>2. m_mutex \in [User -> Flows \cup {Nil}] /\ direct' \in SUBSET Fibers /\ m_tasks' \in SUBSET User
      BY <2>1, <3>1 DEF TypeOK
    <3>3. QED  BY <2>1, <3>1, <3>2, ResumeType
  <2>3. CASE m_state[f] # "READY"
    BY <1>6, <2>1, <2>3 DEF Resume, TypeOK, locals, objects
  <2>4. QED  BY <2>2, <2>3
<1>7. ASSUME NEW t \in Threads, NEW f \in User, RunTask(t, f) PROVE TypeOK'
  <2>1. UNCHANGED <<direct, misused>> /\ m_tasks' = m_tasks \ {f}
    BY <1>7 DEF RunTask
  <2>2. CASE m_state[f] = "READY"
    <3>1. PICK locks \in [User -> Flows \cup {Nil}] : locks = [m_mutex EXCEPT ![f] = cpu[t]]
      BY DEF TypeOK
    <3>2. resume(t, f, locks)
      BY <1>7, <2>2, <3>1 DEF RunTask
    <3>3. direct' \in SUBSET Fibers /\ m_tasks' \in SUBSET User /\ misused' \in BOOLEAN
      BY <2>1 DEF TypeOK
    <3>4. QED  BY <3>2, <3>3, ResumeType
  <2>3. CASE m_state[f] # "READY"
    <3>1. UNCHANGED <<locals, objects, inside>> /\ (UNCHANGED broken \/ broken' = "assert")
      BY <1>7, <2>3 DEF RunTask
    <3>2. QED  BY <2>1, <3>1 DEF TypeOK, locals, objects
  <2>4. QED  BY <2>2, <2>3
<1>8. ASSUME NEW f \in User, Post(f) PROVE TypeOK'
  <2>1. misused' \in BOOLEAN
    BY <1>8, Zenon DEF Post
  <2>2. QED  BY <1>8, <2>1 DEF Post, TypeOK, locals, objects
<1>9. ASSUME NEW f \in User, Reset(f) PROVE TypeOK'
  <2>1. misused' \in BOOLEAN
    BY <1>9, Zenon DEF Reset
  <2>2. QED  BY <1>9, <2>1 DEF Reset, TypeOK, locals
<1>10. ASSUME NEW f \in User, NEW r \in BOOLEAN, Create(f, r) PROVE TypeOK'
  BY <1>10 DEF Create, TypeOK, locals
<1>11. ASSUME NEW f \in Fibers, Destroy(f) PROVE TypeOK'
  BY <1>11 DEF Destroy, TypeOK, locals
<1>12. QED
  BY <1>1, <1>2, <1>3, <1>4, <1>5, <1>6, <1>7, <1>8, <1>9, <1>10, <1>11 DEF Next

-----------------------------------------------------------------------------
(* What the switches do.                                                    *)

LEMMA InitSound == Init => IndInv
<1> SUFFICES ASSUME Init PROVE IndInv
  OBVIOUS
<1> USE FlowFacts
<1>1. TypeOK
  BY DEF Init, TypeOK
<1>2. MainFibers
  BY DEF Init, MainFibers, Free
<1>3. Executions
  BY DEF Init, Executions, Free
<1>4. Insides /\ Contexts /\ States /\ Posted
  BY DEF Init, Insides, Contexts, States, Posted
<1>5. QED
  BY <1>1, <1>2, <1>3, <1>4 DEF Init, IndInv, Sound

\* A fiber returns to the thread that resumed it, or to the scheduler's fiber.
LEMMA SlotCases ==
  ASSUME TypeOK, MainFibers, NEW u \in Threads, NEW e \in Fibers
  PROVE  /\ u \in t_thread_fiber => /\ Slot(u, e) \in {u, Sched}
                                    /\ Slot(u, e) = Sched => u = Root /\ e \in m_runInScheduler
                                    /\ e \in m_runInScheduler => Slot(u, e) = Runner(u)
                                    /\ e \notin m_runInScheduler => Slot(u, e) = u
         /\ u \notin t_thread_fiber => Slot(u, e) = Nil
BY FlowFacts DEF MainFibers, Slot, Runner

\* A thread that executes a fiber has a main fiber.
LEMMA FiberThread ==
  ASSUME TypeOK, Sound, NEW u \in Threads, cpu[u] \in Fibers
  PROVE  u \in t_thread_fiber
BY FlowFacts DEF Sound, MainFibers

\* The scheduler's fiber, when it can be resumed, waits for no other.
LEMMA IdleSched ==
  ASSUME TypeOK, Sound, NEW f \in Fibers, m_state[f] = "READY"
  PROVE  inside[f] = Nil
BY FlowFacts DEF Sound, Insides

\* Thread t switches from g to f.
Entered(t, f, g) ==
  /\ cpu' = [cpu EXCEPT ![t] = f]
  /\ inside' = [inside EXCEPT ![g] = f]
  /\ \A x \in Flows : m_ctx'[x] = IF x = g THEN g ELSE IF x = f THEN "stale" ELSE m_ctx[x]

\* resume(): the caller's place goes into its own context, and f goes on.
LEMMA SwapResume ==
  ASSUME TypeOK, Sound, NEW t \in Threads, NEW f \in Fibers, NEW g \in Flows, f # g,
         NEW saved, saved = g, Exists(g), Exists(f), m_ctx[f] \in {"entry", f}, inside[f] = Nil,
         NEW frames, frames = [inside EXCEPT ![g] = f], NEW locks \in [User -> Flows \cup {Nil}],
         Swap(t, g, f, saved, frames, locks)
  PROVE  broken' = "no" /\ m_mutex' = locks /\ Entered(t, f, g)
<1> USE FlowFacts
<1> DEFINE ctx == IF Valid(g) THEN [m_ctx EXCEPT ![g] = saved] ELSE m_ctx
           why == Broken(ctx, g, f)
           h == Continues(ctx, f)
<1>0. Valid(g) /\ Valid(f)
  BY DEF Valid
<1>1. \A x \in Flows : ctx[x] = IF x = g THEN g ELSE m_ctx[x]
  BY <1>0 DEF TypeOK
<1>2. /\ broken' = why
      /\ IF why # "no"
         THEN UNCHANGED <<cpu, m_ctx>> /\ inside' = frames /\ m_mutex' = locks
         ELSE /\ cpu' = [cpu EXCEPT ![t] = h]
              /\ m_ctx' = [x \in Flows |-> IF ctx[x] = h \/ (x = f /\ ctx[x] = "entry") THEN "stale" ELSE ctx[x]]
              /\ inside' = [frames EXCEPT ![h] = Nil]
              /\ m_mutex' = [x \in User |-> IF frames[h] = x /\ locks[x] = h THEN Nil ELSE locks[x]]
  BY Zenon DEF Swap
<1> HIDE DEF ctx
<1>3. ctx[f] \in {"entry", f}
  BY <1>1
<1>4. why = "no" /\ h = f
  BY <1>0, <1>3 DEF Broken, Continues
<1> HIDE DEF why, h
<1>5. frames[f] = Nil /\ frames \in [Flows -> Fibers \cup {Nil}]
  BY DEF TypeOK
<1>6. inside' = [inside EXCEPT ![g] = f]
  <2>1. inside' = [frames EXCEPT ![f] = Nil] /\ inside \in [Flows -> Fibers \cup {Nil}]
    BY <1>2, <1>4 DEF TypeOK
  <2>2. [frames EXCEPT ![f] = Nil] = frames
    BY <1>5
  <2>3. QED
    BY <2>1, <2>2
<1>7. m_mutex' = locks
  BY <1>2, <1>4, <1>5
<1>8. ASSUME NEW x \in Flows
      PROVE  m_ctx'[x] = IF x = g THEN g ELSE IF x = f THEN "stale" ELSE m_ctx[x]
  <2>1. m_ctx[x] \in {"entry", "stale", x}
    BY DEF Sound, Contexts
  <2>2. QED
    BY <1>1, <1>2, <1>3, <1>4, <2>1
<1>9. QED
  BY <1>2, <1>4, <1>6, <1>7, <1>8 DEF Entered

\* Thread t switches back from f to g.
Returned(t, f, g, saved) ==
  /\ cpu' = [cpu EXCEPT ![t] = g]
  /\ inside' = [inside EXCEPT ![g] = Nil]
  /\ \A x \in User : m_mutex'[x] = IF x = f /\ m_mutex[x] = g THEN Nil ELSE m_mutex[x]
  /\ \A x \in Flows : m_ctx'[x] = IF x = f THEN saved ELSE IF x = g THEN "stale" ELSE m_ctx[x]

\* The swap of yield(): the fiber's resumer g goes on and releases its mutex.
LEMMA SwapReturn ==
  ASSUME TypeOK, Sound, NEW t \in Threads, NEW f \in Fibers, NEW g \in Flows, f # g,
         NEW saved \in {f, "stale"}, Exists(g), Exists(f), m_ctx[g] = g, inside[g] = f,
         Swap(t, f, g, saved, inside, m_mutex)
  PROVE  broken' = "no" /\ Returned(t, f, g, saved)
<1> USE FlowFacts
<1> DEFINE ctx == IF Valid(f) THEN [m_ctx EXCEPT ![f] = saved] ELSE m_ctx
           why == Broken(ctx, f, g)
           h == Continues(ctx, g)
<1>0. Valid(g) /\ Valid(f)
  BY DEF Valid
<1>1. \A x \in Flows : ctx[x] = IF x = f THEN saved ELSE m_ctx[x]
  BY <1>0 DEF TypeOK
<1>2. /\ broken' = why
      /\ IF why # "no"
         THEN UNCHANGED <<cpu, m_ctx>> /\ inside' = inside /\ m_mutex' = m_mutex
         ELSE /\ cpu' = [cpu EXCEPT ![t] = h]
              /\ m_ctx' = [x \in Flows |-> IF ctx[x] = h \/ (x = g /\ ctx[x] = "entry") THEN "stale" ELSE ctx[x]]
              /\ inside' = [inside EXCEPT ![h] = Nil]
              /\ m_mutex' = [x \in User |-> IF inside[h] = x /\ m_mutex[x] = h THEN Nil ELSE m_mutex[x]]
  BY Zenon DEF Swap
<1> HIDE DEF ctx
<1>3. ctx[g] = g
  BY <1>1
<1>4. why = "no" /\ h = g
  BY <1>0, <1>3 DEF Broken, Continues
<1> HIDE DEF why, h
<1>5. \A x \in User : m_mutex'[x] = IF x = f /\ m_mutex[x] = g THEN Nil ELSE m_mutex[x]
  BY <1>2, <1>4
<1>6. ASSUME NEW x \in Flows
      PROVE  m_ctx'[x] = IF x = f THEN saved ELSE IF x = g THEN "stale" ELSE m_ctx[x]
  <2>1. m_ctx[x] \in {"entry", "stale", x}
    BY DEF Sound, Contexts
  <2>2. QED
    BY <1>1, <1>2, <1>3, <1>4, <2>1
<1>7. QED
  BY <1>2, <1>4, <1>5, <1>6 DEF Returned

\* Outside of yield() a fiber that executes is RUNNING.
LEMMA FreeRunning ==
  ASSUME TypeOK, NEW t \in Threads, NEW f \in Fibers, Called(t, f), Free(t)
  PROVE  m_state[f] = "RUNNING"
<1>1. ASSUME NEW p \in Flows \cup {"stale"} PROVE <<f, Slot(t, f), p>> # Nil
  <2>1. <<f, Slot(t, f), p>> \in Flows \X (Flows \cup {Nil}) \X (Flows \cup {"stale"})
    BY FlowFacts, SlotType
  <2>2. QED
    BY <2>1, FiberAssumption
<1>2. <<f, Slot(t, f), f>> # Nil /\ <<f, Slot(t, f), "stale">> # Nil
  BY <1>1, FlowFacts
<1>3. QED
  BY <1>2 DEF Called, Free

-----------------------------------------------------------------------------
(* Every step keeps the invariant.                                          *)

\* The switch of resume() on thread t, from g to f.
Resumed(t, f, g) ==
  /\ m_state' = [m_state EXCEPT ![f] = "RUNNING"]
  /\ t_fiber' = [t_fiber EXCEPT ![t] = f]
  /\ Entered(t, f, g)
  /\ UNCHANGED <<t_scheduler_fiber, t_thread_fiber, leaving, m_runInScheduler>>

\* What resume() of f by g leaves: whoever calls it holds the mutex of f or makes f
\* one of the fibers resumed directly.
LEMMA ResumeSound ==
  ASSUME TypeOK, Sound, TypeOK', NEW t \in Threads, NEW f \in Fibers, NEW g \in Flows,
         Free(t), cpu[t] = g, Slot(t, f) = g, ~Executing(f), m_state[f] = "READY", f = Sched => t = Root,
         Resumed(t, f, g),
         m_mutex' = m_mutex \/ m_mutex' = [m_mutex EXCEPT ![f] = g],
         f \in User \ direct' => m_mutex'[f] = g, direct' \in {direct, direct \cup {f}}, m_tasks' \subseteq m_tasks \ {f}
  PROVE  Sound'
<1> USE FlowFacts DEF Resumed, Entered
<1>1. t \in t_thread_fiber /\ g \in {t, Sched} /\ f # g /\ g \notin User
  <2>1. t \in t_thread_fiber
    BY SlotCases DEF Sound
  <2>2. QED
    BY <2>1, SlotCases DEF Sound, Executing
<1>2. g = Sched => /\ t = Root /\ f \in m_runInScheduler /\ m_state[Sched] = "RUNNING"
                   /\ inside[Root] = Sched /\ m_ctx[Root] = Root
  <2> SUFFICES ASSUME g = Sched
               PROVE  /\ t = Root /\ f \in m_runInScheduler /\ m_state[Sched] = "RUNNING"
                      /\ inside[Root] = Sched /\ m_ctx[Root] = Root
    OBVIOUS
  <2>1. t = Root /\ f \in m_runInScheduler
    BY <1>1, SlotCases DEF Sound
  <2>2. Called(t, Sched)
    BY DEF Sound, Executions
  <2>3. Slot(t, Sched) = t
    BY <1>1, SlotCases DEF Sound, TypeOK
  <2>4. m_state[Sched] = "RUNNING"
    BY <2>2, FreeRunning
  <2>5. QED
    BY <2>1, <2>2, <2>3, <2>4 DEF Called
<1>3. /\ \A u \in Threads : cpu'[u] = IF u = t THEN f ELSE cpu[u]
      /\ \A x \in Flows : m_state'[x] = IF x = f THEN "RUNNING" ELSE m_state[x]
      /\ \A x \in Flows : inside'[x] = IF x = g THEN f ELSE inside[x]
      /\ \A x \in User : x # f => m_mutex'[x] = m_mutex[x]
      /\ \A u \in Threads : t_fiber'[u] = IF u = t THEN f ELSE t_fiber[u]
  BY DEF TypeOK
<1>4. /\ \A u \in Threads, e \in Fibers : Slot(u, e)' = Slot(u, e)
      /\ \A u \in Threads : Runner(u)' = Runner(u)
      /\ \A u \in Threads : Free(u)' = Free(u)
  BY <1>3 DEF Slot, Runner, Free
<1>5. MainFibers'
  <2>1. ASSUME NEW u \in t_thread_fiber'
        PROVE  /\ m_state'[u] = "RUNNING" /\ t_scheduler_fiber'[u] = Runner(u)'
               /\ t_fiber'[u] = IF Free(u)' THEN cpu'[u] ELSE leaving'[u][2]
    BY <1>3, <1>4, u \in Threads DEF Sound, MainFibers, TypeOK
  <2>2. ASSUME NEW u \in Threads \ t_thread_fiber'
        PROVE  cpu'[u] = u /\ Free(u)' /\ t_fiber'[u] = Nil /\ t_scheduler_fiber'[u] = Nil
    BY <1>1, <1>3, <1>4 DEF Sound, MainFibers
  <2>3. m_state'[Sched] # "none" => Root \in t_thread_fiber'
    BY <1>3 DEF Sound, MainFibers
  <2>4. QED
    BY <2>1, <2>2, <2>3 DEF MainFibers
<1>6. Executions'
  <2>1. \A u \in Threads : cpu'[u] \in Fibers \cup {u}
    BY <1>3 DEF Sound, Executions
  <2>2. \A u, v \in Threads : cpu'[u] = cpu'[v] => u = v
    BY <1>3 DEF Sound, Executions, Executing
  <2>3. \A u \in Threads : cpu'[u] = u => Free(u)' /\ inside'[u] = Nil
    BY <1>1, <1>3, <1>4 DEF Sound, Executions
  <2>4. Called(t, f)'
    <3>1. inside'[g] = f /\ m_ctx'[g] = g
      BY <1>3
    <3>2. g = Sched => inside'[Root] = Sched /\ m_ctx'[Root] = Root /\ m_state'[Sched] = "RUNNING"
      BY <1>1, <1>2, <1>3
    <3>3. QED
      BY <1>3, <1>4, <3>1, <3>2 DEF Called
  <2>5. ASSUME NEW u \in Threads, u # t, NEW e \in Fibers, cpu[u] = e
        PROVE  Called(u, e)'
    <3>1. Called(u, e) /\ u \in t_thread_fiber
      BY <2>5, FiberThread DEF Sound, Executions
    <3>2. PICK s \in {u, Sched} : s = Slot(u, e) /\ (s = Sched => u = Root)
      BY <3>1, SlotCases DEF Sound
    <3>3. s # g /\ s # f /\ e # f
      BY <1>1, <1>2, <2>5, <3>1, <3>2 DEF Called, Executing
    <3>4. s = Sched => inside'[Root] = Sched /\ m_ctx'[Root] = Root /\ m_state'[Sched] = "RUNNING"
      BY <1>1, <1>2, <1>3, <2>5, <3>1, <3>2, <3>3 DEF Called
    <3>5. inside'[s] = e /\ m_ctx'[s] = s /\ m_state'[e] = m_state[e] /\ (e \in User => m_mutex'[e] = m_mutex[e])
      BY <1>3, <3>1, <3>2, <3>3 DEF Called
    <3>6. QED
      BY <1>3, <1>4, <3>1, <3>2, <3>4, <3>5 DEF Called
  <2>6. ASSUME NEW u \in Threads, cpu'[u] \in Fibers
        PROVE  Called(u, cpu[u])'
    BY <1>3, <2>4, <2>5, <2>6
  <2>7. QED
    BY <2>1, <2>2, <2>3, <2>6 DEF Executions
<1>7. Insides'
  BY <1>1, <1>2, <1>3 DEF Sound, Insides, TypeOK
<1>8. Contexts'
  <2>1. \A x \in Flows : m_ctx'[x] \in {"entry", "stale", x}
    BY DEF Sound, Contexts
  <2>2. ASSUME NEW e \in Fibers, m_state'[e] = "READY", ~Executing(e)'
        PROVE  m_ctx'[e] \in {"entry", e}
    BY <1>1, <1>3, <2>2 DEF Sound, Contexts, Executing
  <2>3. QED
    BY <2>1, <2>2 DEF Contexts
<1>9. States'
  <2>1. ASSUME NEW e \in User, m_state'[e] = "RUNNING"
        PROVE  Executing(e)'
    BY <1>1, <1>3, <2>1 DEF Sound, States, Executing
  <2>2. ASSUME m_state'[Sched] = "RUNNING"
        PROVE  Executing(Sched)' \/ inside'[Sched] # Nil
    BY <1>1, <1>3, <2>2 DEF Sound, States, Executing
  <2>3. QED
    BY <2>1, <2>2 DEF States
<1>10. Posted'
  BY <1>3 DEF Sound, Posted, Exists, TypeOK
<1>11. QED
  BY <1>5, <1>6, <1>7, <1>8, <1>9, <1>10 DEF Sound

\* What the swap of a yield() leaves: g goes on, and f is suspended or has ended.
LEMMA ReturnSound ==
  ASSUME TypeOK, Sound, TypeOK', NEW t \in Threads, NEW f \in Fibers, NEW g \in Flows, NEW saved,
         cpu[t] = f, Slot(t, f) = g, leaving[t] = <<f, g, saved>>,
         (saved = f /\ m_state[f] = "READY") \/ (saved = "stale" /\ m_state[f] = "TERM"),
         UNCHANGED <<t_fiber, t_scheduler_fiber, t_thread_fiber, m_state, m_runInScheduler, m_tasks>>,
         Returned(t, f, g, saved),
         direct' = direct \ {f}, leaving' = [leaving EXCEPT ![t] = Nil]
  PROVE  Sound'
<1> USE FlowFacts DEF Returned
<1>1. t \in t_thread_fiber /\ g \in {t, Sched} /\ f # g /\ g \notin User /\ Called(t, f) /\ (g = Sched => t = Root)
  <2>1. t \in t_thread_fiber /\ Called(t, f)
    BY FiberThread DEF Sound, Executions
  <2>2. g \in {t, Sched} /\ (g = Sched => t = Root)
    BY <2>1, SlotCases DEF Sound
  <2>3. f # g
    BY <2>1, <2>2 DEF Called
  <2>4. QED
    BY <2>1, <2>2, <2>3
<1>2. /\ \A u \in Threads : cpu'[u] = IF u = t THEN g ELSE cpu[u]
      /\ \A x \in Flows : inside'[x] = IF x = g THEN Nil ELSE inside[x]
      /\ \A u \in Threads : leaving'[u] = IF u = t THEN Nil ELSE leaving[u]
  BY DEF TypeOK
<1>3. /\ \A u \in Threads, e \in Fibers : Slot(u, e)' = Slot(u, e)
      /\ \A u \in Threads : Runner(u)' = Runner(u)
      /\ \A u \in Threads : u # t => Free(u)' = Free(u)
      /\ Free(t)'
  BY <1>2 DEF Slot, Runner, Free
<1>4. MainFibers'
  <2>1. ASSUME NEW u \in t_thread_fiber'
        PROVE  /\ m_state'[u] = "RUNNING" /\ t_scheduler_fiber'[u] = Runner(u)'
               /\ t_fiber'[u] = IF Free(u)' THEN cpu'[u] ELSE leaving'[u][2]
    <3>1. u \in Threads /\ u \in t_thread_fiber
      BY DEF TypeOK
    <3>2. CASE u # t
      BY <1>2, <1>3, <3>1, <3>2 DEF Sound, MainFibers
    <3>3. CASE u = t
      <4>1. ~Free(t)
        BY <1>1, FreeRunning
      <4>2. leaving[t][2] = g
        OBVIOUS
      <4>3. QED
        BY <1>2, <1>3, <3>1, <3>3, <4>1, <4>2 DEF Sound, MainFibers
    <3>4. QED
      BY <3>2, <3>3
  <2>2. ASSUME NEW u \in Threads \ t_thread_fiber'
        PROVE  cpu'[u] = u /\ Free(u)' /\ t_fiber'[u] = Nil /\ t_scheduler_fiber'[u] = Nil
    BY <1>1, <1>2, <1>3 DEF Sound, MainFibers
  <2>3. QED
    BY <2>1, <2>2 DEF Sound, MainFibers
<1>5. Executions'
  <2>1. \A u \in Threads : cpu'[u] \in Fibers \cup {u}
    BY <1>1, <1>2 DEF Sound, Executions
  <2>2. ASSUME NEW u \in Threads, u # t PROVE cpu[u] # g
    BY <1>1, <2>2 DEF Sound, Executions, Called
  <2>3. \A u, v \in Threads : cpu'[u] = cpu'[v] => u = v
    BY <1>2, <2>2 DEF Sound, Executions
  <2>4. \A u \in Threads : cpu'[u] = u => Free(u)' /\ inside'[u] = Nil
    BY <1>1, <1>2, <1>3 DEF Sound, Executions
  <2>5. ASSUME g = Sched PROVE Called(t, Sched)'
    <3>1. Slot(t, Sched) = t /\ t = Root
      BY <1>1, <2>5, SlotCases DEF Sound, TypeOK
    <3>2. inside[Root] = Sched /\ m_ctx[Root] = Root /\ m_state[Sched] = "RUNNING"
      BY <1>1, <2>5 DEF Called
    <3>3. QED
      BY <1>2, <1>3, <2>5, <3>1, <3>2 DEF Called
  <2>6. ASSUME NEW u \in Threads, u # t, NEW e \in Fibers, cpu[u] = e
        PROVE  Called(u, e)'
    <3>1. Called(u, e) /\ u \in t_thread_fiber /\ e # f
      BY <2>6, FiberThread DEF Sound, Executions
    <3>2. PICK s \in {u, Sched} : s = Slot(u, e) /\ (s = Sched => u = Root)
      BY <3>1, SlotCases DEF Sound
    <3>3. s # g /\ s # f
      BY <1>1, <2>6, <3>1, <3>2 DEF Called
    <3>4. s = Sched => inside'[Root] = Sched /\ m_ctx'[Root] = Root /\ m_state'[Sched] = "RUNNING"
      BY <1>1, <1>2, <2>6, <3>1, <3>2, <3>3 DEF Called
    <3>5. inside'[s] = e /\ m_ctx'[s] = s /\ m_state'[e] = m_state[e] /\ (e \in User => m_mutex'[e] = m_mutex[e])
      BY <1>2, <3>1, <3>2, <3>3 DEF Called
    <3>6. leaving'[u] = leaving[u] /\ (e \in User \ direct' => e \in User \ direct) /\ Free(u)' = Free(u)
      BY <1>2, <1>3, <2>6, <3>1
    <3>7. QED
      BY <1>3, <3>1, <3>2, <3>4, <3>5, <3>6 DEF Called
  <2>7. ASSUME NEW u \in Threads, cpu'[u] \in Fibers
        PROVE  Called(u, cpu[u])'
    BY <1>1, <1>2, <2>5, <2>6, <2>7
  <2>8. QED
    BY <2>1, <2>3, <2>4, <2>7 DEF Executions
<1>6. Insides'
  <2>1. \A x \in User : inside'[x] = Nil
    BY <1>2 DEF Sound, Insides
  <2>2. ASSUME inside'[Sched] # Nil, t = Root PROVE FALSE
    <3>1. g # Sched /\ cpu[Root] \in m_runInScheduler /\ m_state[Sched] = "RUNNING"
      BY <1>2, <2>2 DEF Sound, Insides
    <3>2. QED
      BY <1>1, <2>2, <3>1, SlotCases DEF Sound, Runner
  <2>3. QED
    BY <1>2, <2>1, <2>2 DEF Sound, Insides
<1>7. Contexts'
  <2>1. \A x \in Flows : m_ctx'[x] \in {"entry", "stale", x}
    BY DEF Sound, Contexts
  <2>2. ASSUME NEW e \in Fibers, m_state'[e] = "READY", ~Executing(e)'
        PROVE  m_ctx'[e] \in {"entry", e}
    BY <1>1, <1>2, <2>2 DEF Sound, Contexts, Executing
  <2>3. QED
    BY <2>1, <2>2 DEF Contexts
<1>8. States'
  <2>1. ASSUME NEW e \in Fibers, m_state'[e] = "RUNNING", Executing(e)
        PROVE  Executing(e)'
    BY <1>2, <2>1 DEF Executing
  <2>2. inside[Sched] # Nil => inside'[Sched] # Nil \/ Executing(Sched)'
    BY <1>2 DEF Executing
  <2>3. QED
    BY <2>1, <2>2 DEF Sound, States
<1>9. Posted'
  BY DEF Sound, Posted, Exists
<1>10. QED
  BY <1>4, <1>5, <1>6, <1>7, <1>8, <1>9 DEF Sound

\* The first half of a yield(), or of the end of a fiber: it becomes READY or TERM.
LEMMA LeaveSound ==
  ASSUME TypeOK, Sound, TypeOK', NEW t \in Threads, NEW f \in Fibers, NEW g, NEW saved, NEW st,
         cpu[t] = f, Free(t), Slot(t, f) = g, (saved = f /\ st = "READY") \/ (saved = "stale" /\ st = "TERM"),
         m_state' = [m_state EXCEPT ![f] = st], t_fiber' = [t_fiber EXCEPT ![t] = g],
         leaving' = [leaving EXCEPT ![t] = <<f, g, saved>>],
         UNCHANGED <<cpu, t_scheduler_fiber, t_thread_fiber, m_runInScheduler, m_ctx, m_mutex, inside, direct, m_tasks>>
  PROVE  Sound'
<1> USE FlowFacts
<1>1. t \in t_thread_fiber /\ Called(t, f) /\ g \in {t, Sched}
  BY FiberThread, SlotCases DEF Sound, Executions
<1>2. m_state[f] = "RUNNING"
  BY <1>1, FreeRunning
<1>3. /\ \A x \in Flows : m_state'[x] = IF x = f THEN st ELSE m_state[x]
      /\ \A u \in Threads : t_fiber'[u] = IF u = t THEN g ELSE t_fiber[u]
      /\ \A u \in Threads : u # t => leaving'[u] = leaving[u]
      /\ leaving'[t] = <<f, g, saved>>
  BY DEF TypeOK
<1>4. /\ \A u \in Threads, e \in Fibers : Slot(u, e)' = Slot(u, e)
      /\ \A u \in Threads : Runner(u)' = Runner(u)
      /\ \A u \in Threads : u # t => Free(u)' = Free(u)
  BY <1>2, <1>3 DEF Slot, Runner, Free
<1>5. Executions'
  <2>1. Called(t, f)'
    <3>1. g = Sched => f # Sched
      BY <1>1, SlotCases DEF Sound, TypeOK
    <3>2. inside'[g] = f /\ m_ctx'[g] = g /\ (f = Sched => t = Root) /\ (f \in User \ direct' => m_mutex'[f] = g)
      BY <1>1 DEF Called
    <3>3. g = Sched => inside'[Root] = Sched /\ m_ctx'[Root] = Root /\ m_state'[Sched] = "RUNNING"
      BY <1>1, <1>3, <3>1 DEF Called
    <3>4. m_state'[f] = st /\ Slot(t, f)' = g
      BY <1>3, <1>4
    <3>5. QED
      BY <1>3, <3>2, <3>3, <3>4 DEF Called
  <2>2. ASSUME NEW u \in Threads, u # t, NEW e \in Fibers, cpu[u] = e
        PROVE  Called(u, e)'
    <3>1. Called(u, e) /\ u \in t_thread_fiber /\ e # f
      BY <2>2, FiberThread DEF Sound, Executions
    <3>2. Slot(u, e) = Sched => u = Root /\ f # Sched
      BY <1>1, <2>2, <3>1, SlotCases DEF Sound, Called
    <3>3. QED
      BY <1>3, <1>4, <2>2, <3>1, <3>2 DEF Called
  <2>3. \A u \in Threads : cpu'[u] = u => Free(u)' /\ inside'[u] = Nil
    BY <1>4 DEF Sound, Executions
  <2>4. ASSUME NEW u \in Threads, cpu'[u] \in Fibers
        PROVE  Called(u, cpu[u])'
    <3>1. PICK e \in Fibers : e = cpu[u] /\ e = cpu'[u]
      BY <2>4
    <3>2. Called(u, e)'
      BY <2>1, <2>2, <3>1
    <3>3. QED
      BY <3>1, <3>2
  <2>5. QED
    BY <2>3, <2>4 DEF Sound, Executions
<1>6. MainFibers'
  <2>1. ~Free(t)' /\ leaving'[t][2] = g
    <3>1. leaving'[t] # Nil
      BY <1>1, <1>3, FiberAssumption, <<f, g, saved>> \in Flows \X (Flows \cup {Nil}) \X (Flows \cup {"stale"})
    <3>2. QED
      BY <1>3, <3>1 DEF Free
  <2>2. ASSUME NEW u \in t_thread_fiber'
        PROVE  /\ m_state'[u] = "RUNNING" /\ t_scheduler_fiber'[u] = Runner(u)'
               /\ t_fiber'[u] = IF Free(u)' THEN cpu'[u] ELSE leaving'[u][2]
    BY <1>3, <1>4, <2>1, u \in Threads DEF Sound, MainFibers, TypeOK
  <2>3. ASSUME NEW u \in Threads \ t_thread_fiber'
        PROVE  cpu'[u] = u /\ Free(u)' /\ t_fiber'[u] = Nil /\ t_scheduler_fiber'[u] = Nil
    BY <1>1, <1>3, <1>4 DEF Sound, MainFibers
  <2>4. QED
    BY <1>2, <1>3, <2>2, <2>3 DEF Sound, MainFibers
<1>7. Insides'
  BY <1>1, <1>3 DEF Sound, Insides, Called, TypeOK
<1>8. Contexts'
  BY <1>3 DEF Sound, Contexts, Executing
<1>9. States'
  BY <1>2, <1>3 DEF Sound, States, Executing
<1>10. Posted'
  BY <1>3 DEF Sound, Posted, Exists, TypeOK
<1>11. QED
  BY <1>5, <1>6, <1>7, <1>8, <1>9, <1>10 DEF Sound

\* A step that executes nothing: it may change a fiber that no thread executes.
LEMMA CalledKept ==
  ASSUME TypeOK, Sound, NEW u \in Threads, NEW e \in Fibers, cpu[u] = e, Slot(u, e)' = Slot(u, e),
         UNCHANGED <<leaving, m_mutex, inside, direct>>, m_state'[e] = m_state[e],
         \A x \in Threads : m_ctx'[x] = m_ctx[x],
         m_state[Sched] = "RUNNING" => m_state'[Sched] = m_state[Sched] /\ m_ctx'[Sched] = m_ctx[Sched]
  PROVE  Called(u, e)'
<1> USE FlowFacts
<1>1. Called(u, e) /\ u \in t_thread_fiber
  BY FiberThread DEF Sound, Executions
<1>2. PICK s \in {u, Sched} : s = Slot(u, e)
  BY <1>1, SlotCases DEF Sound
<1>3. m_ctx'[s] = m_ctx[s] /\ m_ctx'[Root] = m_ctx[Root] /\ (s = Sched => m_state'[Sched] = m_state[Sched])
  BY <1>1, <1>2 DEF Called
<1>4. QED
  BY <1>1, <1>2, <1>3 DEF Called, Free

LEMMA CreateSchedulerSound ==
  ASSUME TypeOK, Sound, TypeOK', CreateScheduler
  PROVE  Sound'
<1> USE FlowFacts
<1>1. /\ Free(Root) /\ cpu[Root] = Root /\ m_state[Sched] = "none"
      /\ UNCHANGED <<cpu, leaving, m_runInScheduler, m_mutex, inside, direct, m_tasks>>
      /\ t_thread_fiber' = t_thread_fiber \cup {Root}
      /\ \A u \in Threads : t_fiber'[u] = IF u = Root THEN Root ELSE t_fiber[u]
      /\ \A u \in Threads : t_scheduler_fiber'[u] = IF u = Root THEN Sched ELSE t_scheduler_fiber[u]
      /\ \A x \in Flows : m_state'[x] = IF x = Root THEN "RUNNING" ELSE IF x = Sched THEN "READY" ELSE m_state[x]
      /\ \A x \in Flows : m_ctx'[x] = IF x = Sched THEN "entry" ELSE m_ctx[x]
  BY DEF CreateScheduler, TypeOK
<1>2. /\ \A u \in Threads, e \in Fibers : u # Root => Slot(u, e)' = Slot(u, e)
      /\ \A u \in Threads : u # Root => Runner(u)' = Runner(u)
      /\ \A u \in Threads : Free(u)' = Free(u)
      /\ Runner(Root)' = Sched
  BY <1>1 DEF Slot, Runner, Free
<1>3. MainFibers'
  BY <1>1, <1>2 DEF Sound, MainFibers, TypeOK
<1>4. Executions'
  <2>1. ASSUME NEW u \in Threads, cpu'[u] \in Fibers
        PROVE  Called(u, cpu[u])'
    <3>1. u # Root /\ Called(u, cpu[u]) /\ m_state[cpu[u]] # "none"
      BY <1>1, <2>1 DEF Sound, Executions, Called
    <3>2. PICK e \in Fibers : e = cpu[u]
      BY <1>1, <2>1
    <3>3. Called(u, e)'
      BY <1>1, <1>2, <3>1, <3>2, CalledKept
    <3>4. QED
      BY <1>1, <3>2, <3>3
  <2>2. QED
    BY <1>1, <1>2, <2>1 DEF Sound, Executions
<1>5. Insides'
  BY <1>1 DEF Sound, Insides
<1>6. Contexts'
  BY <1>1 DEF Sound, Contexts, Executing
<1>7. States'
  BY <1>1 DEF Sound, States, Executing
<1>8. Posted'
  BY <1>1 DEF Sound, Posted, Exists, TypeOK
<1>9. QED
  BY <1>3, <1>4, <1>5, <1>6, <1>7, <1>8 DEF Sound

LEMMA GetThisSound ==
  ASSUME TypeOK, Sound, TypeOK', NEW t \in Threads, GetThis(t)
  PROVE  Sound'
<1> USE FlowFacts
<1>1. /\ Free(t) /\ t_fiber[t] = Nil
      /\ UNCHANGED <<cpu, leaving, m_runInScheduler, m_ctx, m_mutex, inside, direct, m_tasks>>
      /\ t_thread_fiber' = t_thread_fiber \cup {t}
      /\ \A u \in Threads : t_fiber'[u] = IF u = t THEN t ELSE t_fiber[u]
      /\ \A u \in Threads : t_scheduler_fiber'[u] = IF u = t THEN t ELSE t_scheduler_fiber[u]
      /\ \A x \in Flows : m_state'[x] = IF x = t THEN "RUNNING" ELSE m_state[x]
  BY DEF GetThis, TypeOK
<1>2. t \notin t_thread_fiber /\ cpu[t] = t /\ (t = Root => m_state[Sched] = "none")
  BY <1>1 DEF Sound, MainFibers, TypeOK
<1>3. /\ \A u \in Threads, e \in Fibers : u # t => Slot(u, e)' = Slot(u, e)
      /\ \A u \in Threads : Runner(u)' = Runner(u)
      /\ \A u \in Threads : Free(u)' = Free(u)
      /\ Runner(t)' = t
  BY <1>1, <1>2 DEF Slot, Runner, Free
<1>4. MainFibers'
  BY <1>1, <1>2, <1>3 DEF Sound, MainFibers, TypeOK
<1>5. Executions'
  <2>1. ASSUME NEW u \in Threads, cpu'[u] \in Fibers
        PROVE  Called(u, cpu[u])'
    <3>1. PICK e \in Fibers : e = cpu[u]
      BY <1>1, <2>1
    <3>2. Called(u, e)'
      BY <1>1, <1>2, <1>3, <3>1, CalledKept
    <3>3. QED
      BY <1>1, <3>1, <3>2
  <2>2. QED
    BY <1>1, <1>3, <2>1 DEF Sound, Executions
<1>6. Insides' /\ Contexts' /\ States'
  BY <1>1 DEF Sound, Insides, Contexts, States, Executing
<1>7. Posted'
  BY <1>1 DEF Sound, Posted, Exists, TypeOK
<1>8. QED
  BY <1>4, <1>5, <1>6, <1>7 DEF Sound

\* Post(f), when f runs in the scheduler.
LEMMA PostSound ==
  ASSUME TypeOK, Sound, NEW f \in User, Post(f), ~misused'
  PROVE  Sound'
<1>1. /\ UNCHANGED <<locals, objects, inside, direct>> /\ m_tasks' = m_tasks \cup {f} /\ Exists(f)
      /\ f \in m_runInScheduler /\ f \notin direct
  BY DEF Post
<1>2. UNCHANGED <<cpu, t_fiber, t_scheduler_fiber, t_thread_fiber, leaving, m_state, m_runInScheduler, m_ctx, m_mutex>>
  BY <1>1 DEF locals, objects
<1>3. MainFibers' /\ Executions'
  BY <1>1, <1>2 DEF Sound, MainFibers, Runner, Free, Executions, Called, Slot
<1>4. Insides' /\ Contexts' /\ States'
  BY <1>1, <1>2 DEF Sound, Insides, Contexts, States, Executing
<1>5. Posted'
  BY <1>1, <1>2 DEF Sound, Posted, Exists
<1>6. QED
  BY <1>3, <1>4, <1>5 DEF Sound

\* A fiber that no thread executes and that waits for none is given a new state: it
\* is created, reset or destroyed.
LEMMA ObjectSound ==
  ASSUME TypeOK, Sound, TypeOK', NEW f \in Fibers, NEW st \in {"READY", "gone"}, ~Executing(f),
         m_state' = [m_state EXCEPT ![f] = st], f = Sched => m_state[f] = "TERM",
         st = "gone" => f \notin m_tasks, st = "READY" => m_ctx'[f] = "entry",
         \A x \in Flows : x # f => m_ctx'[x] = m_ctx[x], m_ctx'[f] \in {m_ctx[f], "entry"},
         m_runInScheduler' \in {m_runInScheduler, m_runInScheduler \cup {f}},
         UNCHANGED <<locals, m_mutex, inside, direct, m_tasks>>
  PROVE  Sound'
<1> USE FlowFacts
<1>1. /\ UNCHANGED <<cpu, t_fiber, t_scheduler_fiber, t_thread_fiber, leaving>>
      /\ \A x \in Flows : m_state'[x] = IF x = f THEN st ELSE m_state[x]
  BY DEF locals, TypeOK
<1>2. /\ \A u \in Threads, e \in Fibers : e # f => Slot(u, e)' = Slot(u, e)
      /\ \A u \in Threads : Runner(u)' = Runner(u)
      /\ \A u \in Threads : Free(u)' = Free(u)
  BY <1>1 DEF Slot, Runner, Free
<1>3. MainFibers'
  BY <1>1, <1>2 DEF Sound, MainFibers, TypeOK
<1>4. Executions'
  <2>1. ASSUME NEW u \in Threads, cpu'[u] \in Fibers
        PROVE  Called(u, cpu[u])'
    <3>1. PICK e \in Fibers : e = cpu[u] /\ e # f
      BY <1>1, <2>1 DEF Executing
    <3>2. Called(u, e)'
      BY <1>1, <1>2, <3>1, CalledKept
    <3>3. QED
      BY <1>1, <3>1, <3>2
  <2>2. QED
    BY <1>1, <1>2, <2>1 DEF Sound, Executions
<1>5. Insides'
  BY <1>1 DEF Sound, Insides
<1>6. Contexts'
  BY <1>1 DEF Sound, Contexts, Executing
<1>7. States'
  BY <1>1 DEF Sound, States, Executing
<1>8. Posted'
  BY <1>1 DEF Sound, Posted, Exists, TypeOK
<1>9. QED
  BY <1>3, <1>4, <1>5, <1>6, <1>7, <1>8 DEF Sound

\* A fiber that does not exist does not execute.
LEMMA ExecutingExists ==
  ASSUME TypeOK, Sound, NEW f \in Fibers, Executing(f)
  PROVE  Exists(f)
BY DEF Sound, Executions, Called, Executing, Exists

LEMMA ResetSound ==
  ASSUME TypeOK, Sound, TypeOK', NEW f \in User, Reset(f), ~misused'
  PROVE  Sound'
<1>1. ~Executing(f)
  BY Zenon DEF Reset
<1>2. QED
  BY <1>1, ObjectSound, FlowFacts DEF Reset, TypeOK

LEMMA CreateSound ==
  ASSUME TypeOK, Sound, TypeOK', NEW f \in User, NEW r \in BOOLEAN, Create(f, r)
  PROVE  Sound'
<1>1. ~Executing(f)
  BY ExecutingExists, FlowFacts DEF Create, Exists
<1>2. m_runInScheduler' \in {m_runInScheduler, m_runInScheduler \cup {f}}
  BY Zenon DEF Create
<1>3. /\ m_state' = [m_state EXCEPT ![f] = "READY"] /\ m_ctx'[f] = "entry"
      /\ \A x \in Flows : x # f => m_ctx'[x] = m_ctx[x]
      /\ UNCHANGED <<locals, m_mutex, inside, direct, m_tasks>>
  BY FlowFacts DEF Create, TypeOK
<1>4. QED
  BY <1>1, <1>2, <1>3, ObjectSound, FlowFacts

LEMMA DestroySound ==
  ASSUME TypeOK, Sound, TypeOK', NEW f \in Fibers, Destroy(f)
  PROVE  Sound'
BY ObjectSound, FlowFacts DEF Destroy, TypeOK

\* A step of YieldBegins by a fiber becomes the first half of its yield().
LEMMA YieldBeginsSound ==
  ASSUME TypeOK, Sound, TypeOK', NEW t \in Threads, YieldBegins(t), ~misused', broken = "no"
  PROVE  broken' = "no" /\ Sound'
<1> USE FlowFacts
<1>1. PICK f : f = t_fiber[t]
  OBVIOUS
<1>2. f \in Fibers /\ Free(t) /\ Exists(f) /\ f # Nil
  BY <1>1 DEF YieldBegins, TypeOK
<1>3. cpu[t] = f
  BY <1>1, <1>2 DEF Sound, MainFibers, TypeOK
<1>4. Called(t, f) /\ m_state[f] = "RUNNING"
  BY <1>2, <1>3, FreeRunning DEF Sound, Executions
<1>5. PICK g : g = Slot(t, f)
  OBVIOUS
<1>6. PICK to \in {g} :
        IF m_state[f] = "RUNNING"
        THEN /\ m_state' = [m_state EXCEPT ![f] = "READY"]
             /\ t_fiber' = [t_fiber EXCEPT ![t] = to]
             /\ leaving' = [leaving EXCEPT ![t] = <<f, to, cpu[t]>>]
             /\ UNCHANGED broken
        ELSE broken' = "assert" /\ UNCHANGED <<m_state, t_fiber, leaving>>
  BY <1>1, <1>2, <1>5 DEF YieldBegins
<1>7. UNCHANGED <<cpu, t_scheduler_fiber, t_thread_fiber, m_runInScheduler, m_ctx, m_mutex, inside, direct, m_tasks>>
  BY DEF YieldBegins
<1>8. /\ m_state' = [m_state EXCEPT ![f] = "READY"]
      /\ t_fiber' = [t_fiber EXCEPT ![t] = g]
      /\ leaving' = [leaving EXCEPT ![t] = <<f, g, f>>]
      /\ broken' = "no"
  BY <1>3, <1>4, <1>6
<1>9. QED
  BY <1>2, <1>3, <1>5, <1>7, <1>8, LeaveSound

LEMMA MainFuncEndsSound ==
  ASSUME TypeOK, Sound, TypeOK', NEW t \in Threads, MainFuncEnds(t)
  PROVE  Sound'
<1>1. PICK f \in Fibers : f = cpu[t]
  BY DEF MainFuncEnds
<1>2. PICK g : g = Slot(t, f)
  OBVIOUS
<1>3. QED
  BY <1>1, <1>2, LeaveSound DEF MainFuncEnds

\* resume() by the flow whose context it overwrites: the switch succeeds.
LEMMA ResumeEffect ==
  ASSUME TypeOK, Sound, NEW t \in Threads, NEW f \in Fibers, NEW g \in Flows, Free(t), cpu[t] = g, Slot(t, f) = g,
         ~Executing(f), m_state[f] = "READY", NEW locks \in [User -> Flows \cup {Nil}], resume(t, f, locks)
  PROVE  broken' = "no" /\ m_mutex' = locks /\ Resumed(t, f, g)
<1> USE FlowFacts
<1>1. f # g
  BY DEF Executing
<1>2. Exists(g) /\ Exists(f)
  <2>1. t \in t_thread_fiber
    BY SlotCases DEF Sound
  <2>2. g \in {t, Sched}
    BY <2>1, SlotCases DEF Sound
  <2>3. Exists(g)
    BY <2>1, <2>2, ExecutingExists DEF Sound, MainFibers, Exists, Executing
  <2>4. QED
    BY <2>3 DEF Exists
<1>3. m_ctx[f] \in {"entry", f}
  BY DEF Sound, Contexts
<1>4. inside[f] = Nil
  BY IdleSched
<1>5. PICK frames : frames = [inside EXCEPT ![g] = f]
  OBVIOUS
<1>6. PICK saved : saved = g
  OBVIOUS
<1>7. Swap(t, g, f, saved, frames, locks)
  BY <1>5, <1>6 DEF resume
<1>8. broken' = "no" /\ m_mutex' = locks /\ Entered(t, f, g)
  BY <1>1, <1>2, <1>3, <1>4, <1>5, <1>6, <1>7, SwapResume
<1>9. QED
  BY <1>8 DEF resume, Resumed

\* The invariant does not depend on `misused' and `broken', and the queue may shrink.
LEMMA UnchangedSound ==
  ASSUME Sound, UNCHANGED <<locals, objects, inside, direct>>, m_tasks' \subseteq m_tasks
  PROVE  Sound'
<1>1. UNCHANGED <<cpu, t_fiber, t_scheduler_fiber, t_thread_fiber, leaving, m_state, m_runInScheduler, m_ctx, m_mutex>>
  BY DEF locals, objects
<1>2. MainFibers' /\ Executions'
  BY <1>1 DEF Sound, MainFibers, Runner, Free, Executions, Called, Slot
<1>3. Insides' /\ Contexts' /\ States'
  BY <1>1 DEF Sound, Insides, Contexts, States, Executing
<1>4. Posted'
  BY <1>1 DEF Sound, Posted, Exists
<1>5. QED
  BY <1>2, <1>3, <1>4 DEF Sound

\* What a caller of resume() that keeps the rules makes sure of.
LEMMA ResumeRules ==
  ASSUME TypeOK, NEW t \in Threads, NEW f \in Fibers, Resume(t, f), ~misused'
  PROVE  Free(t) /\ cpu[t] = Slot(t, f) /\ cpu[t] \in Flows /\ ~Executing(f) /\ f \notin m_tasks /\ (f = Sched => t = Root)
<1>1. cpu[t] = Slot(t, f) /\ ~Executing(f) /\ f \notin m_tasks /\ (f = Sched => t = Root)
  BY Zenon DEF Resume
<1>2. QED
  BY <1>1 DEF Resume, TypeOK

LEMMA ResumeKeeps ==
  ASSUME TypeOK, Sound, TypeOK', NEW t \in Threads, NEW f \in Fibers, Resume(t, f), ~misused'
  PROVE  broken' \in {"no", "assert"} /\ Sound'
<1> USE FlowFacts
<1>1. UNCHANGED m_tasks
  BY DEF Resume
<1>2. PICK g \in Flows : cpu[t] = g /\ Slot(t, f) = g
  BY ResumeRules
<1>3. Free(t) /\ ~Executing(f) /\ f \notin m_tasks /\ (f = Sched => t = Root)
  BY ResumeRules
<1>4. CASE m_state[f] # "READY"
  <2>1. broken' = "assert" /\ UNCHANGED <<locals, objects, inside, direct>>
    BY <1>4 DEF Resume
  <2>2. QED
    BY <1>1, <2>1, UnchangedSound
<1>5. CASE m_state[f] = "READY"
  <2>1. resume(t, f, m_mutex) /\ direct' = direct \cup {f}
    BY <1>5 DEF Resume
  <2>2. m_mutex \in [User -> Flows \cup {Nil}]
    BY DEF TypeOK
  <2>3. broken' = "no" /\ m_mutex' = m_mutex /\ Resumed(t, f, g)
    BY <1>2, <1>3, <1>5, <2>1, <2>2, ResumeEffect
  <2>4. f \in User \ direct' => m_mutex'[f] = g
    BY <2>1
  <2>5. direct' \in {direct, direct \cup {f}} /\ m_tasks' \subseteq m_tasks \ {f}
    BY <1>1, <1>3, <2>1
  <2>6. Sound'
    BY <1>2, <1>3, <1>5, <2>3, <2>4, <2>5, ResumeSound
  <2>7. QED
    BY <2>3, <2>6
<1>6. QED
  BY <1>4, <1>5

\* run() resumes a fiber only from the flow it returns to, and its mutex keeps run()
\* from one that has not left its thread.
LEMMA RunTaskRules ==
  ASSUME TypeOK, Sound, NEW t \in Threads, NEW f \in User, RunTask(t, f)
  PROVE  Free(t) /\ cpu[t] = Slot(t, f) /\ cpu[t] \in Flows /\ ~Executing(f) /\ f \notin direct /\ Exists(f)
<1> USE FlowFacts
<1>1. /\ Free(t) /\ cpu[t] = Runner(t) /\ t \in t_thread_fiber /\ f \in m_tasks /\ m_mutex[f] = Nil
  BY DEF RunTask, Runs
<1>2. f \in m_runInScheduler /\ f \notin direct /\ Exists(f)
  BY <1>1 DEF Sound, Posted
<1>3. cpu[t] = Slot(t, f) /\ cpu[t] \in Flows
  BY <1>1, <1>2, SlotCases DEF Sound, TypeOK
<1>4. ASSUME Executing(f) PROVE FALSE
  <2>1. PICK u \in Threads : cpu[u] = f
    BY <1>4 DEF Executing
  <2>2. Called(u, f) /\ u \in t_thread_fiber
    BY <2>1, FiberThread DEF Sound, Executions
  <2>3. Slot(u, f) \in Flows
    BY <2>2, SlotCases DEF Sound
  <2>4. QED
    BY <1>1, <1>2, <2>2, <2>3 DEF Called
<1>5. QED
  BY <1>1, <1>2, <1>3, <1>4

LEMMA RunTaskKeeps ==
  ASSUME TypeOK, Sound, TypeOK', NEW t \in Threads, NEW f \in User, RunTask(t, f), broken = "no"
  PROVE  broken' = "no" /\ Sound'
<1> USE FlowFacts
<1>1. UNCHANGED direct /\ m_tasks' = m_tasks \ {f}
  BY DEF RunTask
<1>2. PICK g \in Flows : cpu[t] = g /\ Slot(t, f) = g
  BY RunTaskRules
<1>3. Free(t) /\ ~Executing(f) /\ f \notin direct /\ Exists(f)
  BY RunTaskRules
<1>4. m_state[f] \in {"READY", "TERM"}
  BY <1>3 DEF Sound, States, Exists, TypeOK
<1>5. CASE m_state[f] = "TERM"
  <2>1. UNCHANGED <<locals, objects, inside, broken>>
    BY <1>5 DEF RunTask
  <2>2. QED
    BY <1>1, <2>1, UnchangedSound
<1>6. CASE m_state[f] = "READY"
  <2>1. PICK locks \in [User -> Flows \cup {Nil}] : locks = [m_mutex EXCEPT ![f] = g]
    BY DEF TypeOK
  <2>2. resume(t, f, locks)
    BY <1>2, <1>6, <2>1 DEF RunTask
  <2>3. broken' = "no" /\ m_mutex' = locks /\ Resumed(t, f, g)
    BY <1>2, <1>3, <1>6, <2>2, ResumeEffect
  <2>4. m_mutex' = [m_mutex EXCEPT ![f] = g] /\ m_mutex'[f] = g
    BY <2>1, <2>3 DEF TypeOK
  <2>5. direct' \in {direct, direct \cup {f}} /\ m_tasks' \subseteq m_tasks \ {f}
    BY <1>1
  <2>6. Sound'
    BY <1>2, <1>3, <1>6, <2>3, <2>4, <2>5, ResumeSound
  <2>7. QED
    BY <2>3, <2>6
<1>7. QED
  BY <1>4, <1>5, <1>6

\* The swap of yield() finds what Called says: its flow returns to its resumer.
LEMMA YieldSwapsEffect ==
  ASSUME TypeOK, Sound, NEW t \in Threads, YieldSwaps(t)
  PROVE  \E f \in Fibers, g \in Flows, saved \in Flows \cup {"stale"} :
           /\ cpu[t] = f /\ Slot(t, f) = g /\ leaving[t] = <<f, g, saved>> /\ inside[g] = f
           /\ (saved = f /\ m_state[f] = "READY") \/ (saved = "stale" /\ m_state[f] = "TERM")
           /\ broken' = "no" /\ Returned(t, f, g, saved)
<1> USE FlowFacts
<1>1. ~Free(t)
  BY DEF YieldSwaps, Free
<1>2. PICK f \in Fibers : cpu[t] = f
  BY <1>1 DEF Sound, Executions
<1>3. Called(t, f) /\ t \in t_thread_fiber
  BY <1>2, FiberThread DEF Sound, Executions
<1>4. PICK g \in {t, Sched} : Slot(t, f) = g
  BY <1>3, SlotCases DEF Sound
<1>5. PICK saved \in {f, "stale"} :
        /\ leaving[t] = <<f, g, saved>>
        /\ (saved = f /\ m_state[f] = "READY") \/ (saved = "stale" /\ m_state[f] = "TERM")
  BY <1>1, <1>3, <1>4 DEF Called
<1>6. f # g /\ Exists(g) /\ Exists(f) /\ m_ctx[g] = g /\ inside[g] = f /\ g \in Flows
  <2>1. m_ctx[g] = g /\ inside[g] = f /\ (g = Sched => m_state[Sched] = "RUNNING")
    BY <1>3, <1>4 DEF Called
  <2>2. Exists(g) /\ Exists(f)
    BY <1>3, <1>4, <1>5, <2>1 DEF Sound, MainFibers, Exists
  <2>3. f # g
    BY <1>4, <1>5, <2>1
  <2>4. QED
    BY <1>4, <2>1, <2>2, <2>3
<1>7. leaving[t][1] = f /\ leaving[t][2] = g /\ leaving[t][3] = saved
  BY <1>5
<1>8. Swap(t, f, g, saved, inside, m_mutex)
  BY <1>7 DEF YieldSwaps
<1>9. broken' = "no" /\ Returned(t, f, g, saved)
  BY <1>6, <1>8, SwapReturn
<1>10. QED
  BY <1>2, <1>4, <1>5, <1>6, <1>9

LEMMA YieldSwapsKeeps ==
  ASSUME TypeOK, Sound, TypeOK', NEW t \in Threads, YieldSwaps(t)
  PROVE  broken' = "no" /\ Sound'
<1>1. PICK f \in Fibers, g \in Flows, saved \in Flows \cup {"stale"} :
        /\ cpu[t] = f /\ Slot(t, f) = g /\ leaving[t] = <<f, g, saved>> /\ inside[g] = f
        /\ (saved = f /\ m_state[f] = "READY") \/ (saved = "stale" /\ m_state[f] = "TERM")
        /\ broken' = "no" /\ Returned(t, f, g, saved)
  BY YieldSwapsEffect
<1>2. /\ UNCHANGED <<t_fiber, t_scheduler_fiber, t_thread_fiber, m_state, m_runInScheduler, m_tasks>>
      /\ direct' = direct \ {f} /\ leaving' = [leaving EXCEPT ![t] = Nil]
  BY <1>1 DEF YieldSwaps
<1>3. Sound'
  BY <1>1, <1>2, ReturnSound
<1>4. QED
  BY <1>1, <1>3

-----------------------------------------------------------------------------
(* The theorems.                                                            *)

\* A step after which no rule is broken leads from a sound state to a sound state.
LEMMA SoundStep ==
  ASSUME TypeOK, Sound, TypeOK', Next, ~misused'
  PROVE  broken' \in {"no", "assert"} /\ Sound'
<1>0. broken = "no"
  BY DEF Next
<1>1. CASE CreateScheduler
  BY <1>0, <1>1, CreateSchedulerSound DEF CreateScheduler
<1>2. ASSUME NEW t \in Threads, GetThis(t) PROVE broken' \in {"no", "assert"} /\ Sound'
  BY <1>0, <1>2, GetThisSound DEF GetThis
<1>3. ASSUME NEW t \in Threads, YieldBegins(t) PROVE broken' \in {"no", "assert"} /\ Sound'
  BY <1>0, <1>3, YieldBeginsSound
<1>4. ASSUME NEW t \in Threads, MainFuncEnds(t) PROVE broken' \in {"no", "assert"} /\ Sound'
  BY <1>0, <1>4, MainFuncEndsSound DEF MainFuncEnds
<1>5. ASSUME NEW t \in Threads, YieldSwaps(t) PROVE broken' \in {"no", "assert"} /\ Sound'
  BY <1>5, YieldSwapsKeeps
<1>6. ASSUME NEW t \in Threads, NEW f \in Fibers, Resume(t, f) PROVE broken' \in {"no", "assert"} /\ Sound'
  BY <1>6, ResumeKeeps
<1>7. ASSUME NEW t \in Threads, NEW f \in User, RunTask(t, f) PROVE broken' \in {"no", "assert"} /\ Sound'
  BY <1>0, <1>7, RunTaskKeeps
<1>8. ASSUME NEW f \in User, Post(f) PROVE broken' \in {"no", "assert"} /\ Sound'
  BY <1>0, <1>8, PostSound DEF Post
<1>9. ASSUME NEW f \in User, Reset(f) PROVE broken' \in {"no", "assert"} /\ Sound'
  BY <1>0, <1>9, ResetSound DEF Reset
<1>10. ASSUME NEW f \in User, NEW r \in BOOLEAN, Create(f, r) PROVE broken' \in {"no", "assert"} /\ Sound'
  BY <1>0, <1>10, CreateSound DEF Create
<1>11. ASSUME NEW f \in Fibers, Destroy(f) PROVE broken' \in {"no", "assert"} /\ Sound'
  BY <1>0, <1>11, DestroySound DEF Destroy
<1>12. QED
  BY <1>1, <1>2, <1>3, <1>4, <1>5, <1>6, <1>7, <1>8, <1>9, <1>10, <1>11 DEF Next

\* Until a rule is broken every fiber that executes was resumed by the flow its yield()
\* goes to, which waits with its own place in its context, and every fiber that can be
\* resumed has one that is good: fiber.cpp's swaps keep this, for any number of threads.
THEOREM SpecIndInv == Spec => []IndInv
<1>1. IndInv /\ [Next]_vars => IndInv'
  <2> SUFFICES ASSUME IndInv, [Next]_vars PROVE IndInv'
    OBVIOUS
  <2>1. CASE Next
    <3>1. TypeOK /\ TypeOK' /\ Sound
      BY <2>1, TypeStep DEF IndInv, Next
    <3>2. QED
      BY <2>1, <3>1, SoundStep DEF IndInv
  <2>2. CASE UNCHANGED vars
    <3>1. UNCHANGED <<locals, objects, inside, direct, m_tasks, misused, broken>>
      BY <2>2 DEF vars
    <3>2. TypeOK'
      BY <3>1 DEF IndInv, TypeOK, locals, objects
    <3>3. ~misused => Sound'
      BY <3>1, UnchangedSound DEF IndInv
    <3>4. QED
      BY <3>1, <3>2, <3>3 DEF IndInv
  <2>3. QED
    BY <2>1, <2>2
<1>2. QED
  BY <1>1, InitSound, PTL DEF Spec

\* A program that keeps the rules never swaps to a place that is gone or through a fiber
\* that is (fiber.cpp's resume() and yield()), GetThis() is the flow that executes, and
\* what can be resumed has a context that holds its own place.
THEOREM SpecCoherent == Spec => []Coherent
<1>1. IndInv => Coherent
  BY FlowFacts DEF IndInv, Coherent, Sound, MainFibers, Contexts
<1>2. QED
  BY <1>1, SpecIndInv, PTL

-----------------------------------------------------------------------------
(* Fibers are coroutines.                                                   *)

LEMMA CoroutinesInit == Init => Promise!CInit
<1> SUFFICES ASSUME Init PROVE Promise!CInit
  OBVIOUS
<1>1. ASSUME NEW f \in Fibers PROVE StatusOf(f) = "none"
  BY FlowFacts DEF Init, StatusOf, Executing
<1>2. [f \in Fibers |-> StatusOf(f)] = [f \in Fibers |-> "none"]
  BY <1>1
<1>3. (misused \/ broken = "assert") = FALSE
  BY DEF Init
<1>4. QED
  BY <1>2, <1>3, FlowFacts DEF Init, Promise!CInit

\* What the state of a fiber says about its status.
LEMMA StatusCases ==
  ASSUME NEW f \in Fibers
  PROVE  /\ Executing(f) \/ m_state[f] = "RUNNING" => StatusOf(f) = "running"
         /\ ~Executing(f) /\ m_state[f] = "none" => StatusOf(f) = "none"
         /\ ~Executing(f) /\ m_state[f] = "gone" => StatusOf(f) = "gone"
         /\ ~Executing(f) /\ m_state[f] = "READY" => StatusOf(f) = "suspended"
         /\ ~Executing(f) /\ m_state[f] = "TERM" => StatusOf(f) = "done"
BY DEF StatusOf

\* A fiber whose state does not change, and which executes before and after or neither,
\* keeps its status.
LEMMA StatusKept ==
  ASSUME NEW f \in Fibers, m_state'[f] = m_state[f], Executing(f)' <=> Executing(f),
         m_state[f] \in {"none", "READY", "RUNNING", "TERM", "gone"}
  PROVE  StatusOf(f)' = StatusOf(f)
<1>1. CASE Executing(f)
  BY <1>1 DEF StatusOf
<1>2. CASE ~Executing(f)
  <2>1. CASE m_state[f] = "none"
    BY <1>2, <2>1 DEF StatusOf
  <2>2. CASE m_state[f] = "READY"
    BY <1>2, <2>2 DEF StatusOf
  <2>3. CASE m_state[f] = "RUNNING"
    BY <1>2, <2>3 DEF StatusOf
  <2>4. CASE m_state[f] = "TERM"
    BY <1>2, <2>4 DEF StatusOf
  <2>5. CASE m_state[f] = "gone"
    BY <1>2, <2>5 DEF StatusOf
  <2>6. QED
    BY <2>1, <2>2, <2>3, <2>4, <2>5
<1>3. QED
  BY <1>1, <1>2

\* One fiber's status changes.
StatusBecomes(f, to) == [e \in Fibers |-> StatusOf(e)]' = [[e \in Fibers |-> StatusOf(e)] EXCEPT ![f] = to]

LEMMA OneStatus ==
  ASSUME NEW f \in Fibers, NEW to, \A e \in Fibers : StatusOf(e)' = IF e = f THEN to ELSE StatusOf(e)
  PROVE  StatusBecomes(f, to)
BY DEF StatusBecomes

\* As long as the promise is not void, `void' does not change.
LEMMA StillPromised ==
  ASSUME ~misused, ~misused', broken = "no", broken' = "no"
  PROVE  (misused \/ broken = "assert")' = (misused \/ broken = "assert")
OBVIOUS

\* A step that executes nothing and gives one fiber, which does not execute, a new status.
LEMMA ObjectStatus ==
  ASSUME NEW f \in Fibers, NEW st, NEW to, TypeOK,
         UNCHANGED cpu, ~Executing(f), \A e \in Fibers : e # f => m_state'[e] = m_state[e],
         m_state'[f] = st, (st = "READY" /\ to = "suspended") \/ (st = "gone" /\ to = "gone")
  PROVE  StatusBecomes(f, to)
<1>1. \A e \in Fibers : Executing(e)' <=> Executing(e)
  BY DEF Executing
<1>2. StatusOf(f)' = to
  BY <1>1 DEF StatusOf
<1>3. \A e \in Fibers : StatusOf(e)' = IF e = f THEN to ELSE StatusOf(e)
  BY <1>1, <1>2, StatusKept, FlowFacts DEF TypeOK
<1>4. QED
  BY <1>3, OneStatus

\* A step that keeps the fibers' status, their callers and what the threads execute.
LEMMA StatusStutter ==
  ASSUME ~misused, ~misused', broken = "no", broken' = "no", UNCHANGED <<cpu, inside>>,
         \A e \in Fibers : StatusOf(e)' = StatusOf(e)
  PROVE  UNCHANGED Promise!cvars
<1>1. [e \in Fibers |-> StatusOf(e)]' = [e \in Fibers |-> StatusOf(e)]
  OBVIOUS
<1>2. QED
  BY <1>1, StillPromised DEF Promise!cvars

\* resume() is CResume, by a program and by run().
LEMMA ResumeRefined ==
  ASSUME TypeOK, Sound, NEW t \in Threads, NEW f \in Fibers, NEW g \in Flows, cpu[t] = g, Slot(t, f) = g,
         ~Executing(f), m_state[f] = "READY", Free(t), Resumed(t, f, g),
         ~misused, ~misused', broken = "no", broken' = "no"
  PROVE  Promise!CResume(t, f)
<1> USE FlowFacts
<1>1. /\ \A u \in Threads : cpu'[u] = IF u = t THEN f ELSE cpu[u]
      /\ \A x \in Flows : m_state'[x] = IF x = f THEN "RUNNING" ELSE m_state[x]
  BY DEF Resumed, Entered, TypeOK
<1>2. StatusOf(f) = "suspended" /\ StatusOf(f)' = "running"
  BY <1>1, StatusCases DEF StatusOf
<1>3. ASSUME NEW e \in Fibers, e # f PROVE StatusOf(e)' = StatusOf(e)
  <2>1. CASE e # g
    <3>1. Executing(e)' <=> Executing(e)
      BY <1>1, <1>3, <2>1 DEF Executing
    <3>2. QED
      BY <1>1, <1>3, <3>1, StatusKept DEF TypeOK
  <2>2. CASE e = g
    <3>1. Called(t, e) /\ Executing(e)
      BY <2>2 DEF Sound, Executions, Executing
    <3>2. m_state[e] = "RUNNING" /\ m_state'[e] = "RUNNING"
      BY <1>1, <1>3, <3>1, FreeRunning
    <3>3. QED
      BY <3>1, <3>2 DEF StatusOf
  <2>3. QED
    BY <2>1, <2>2
<1>4. StatusBecomes(f, "running")
  BY <1>2, <1>3, OneStatus
<1>5. [e \in Fibers |-> StatusOf(e)][f] = "suspended"
  BY <1>2
<1>6. cpu' = [cpu EXCEPT ![t] = f] /\ inside' = [inside EXCEPT ![cpu[t]] = f]
  BY DEF Resumed, Entered
<1>7. QED
  BY <1>4, <1>5, <1>6, StillPromised DEF Promise!CResume, Promise!Become, StatusBecomes

\* The swap of yield() is CReturns.
LEMMA ReturnRefined ==
  ASSUME TypeOK, Sound, NEW t \in Threads, YieldSwaps(t), ~misused, broken = "no"
  PROVE  Promise!CReturns(t)
<1> USE FlowFacts
<1>1. PICK f \in Fibers, g \in Flows, saved \in Flows \cup {"stale"} :
        /\ cpu[t] = f /\ Slot(t, f) = g /\ leaving[t] = <<f, g, saved>> /\ inside[g] = f
        /\ (saved = f /\ m_state[f] = "READY") \/ (saved = "stale" /\ m_state[f] = "TERM")
        /\ broken' = "no" /\ Returned(t, f, g, saved)
  BY YieldSwapsEffect
<1>2. UNCHANGED <<m_state, misused>>
  BY DEF YieldSwaps
<1>3. \A u \in Threads : cpu'[u] = IF u = t THEN g ELSE cpu[u]
  BY <1>1 DEF Returned, TypeOK
<1>4. Called(t, f) /\ t \in t_thread_fiber
  BY <1>1, FiberThread DEF Sound, Executions
<1>5. g \in {t, Sched} /\ g # f /\ (g = Sched => m_state[Sched] = "RUNNING")
  BY <1>1, <1>4, SlotCases DEF Sound, Called
<1>6. ~Executing(f)' /\ StatusOf(f) = "running"
  BY <1>1, <1>3, <1>5, StatusCases DEF Executing, Sound, Executions
<1>7. PICK to \in {"suspended", "done"} : StatusOf(f)' = to
  BY <1>1, <1>2, <1>6 DEF StatusOf
<1>8. ASSUME NEW e \in Fibers, e # f PROVE StatusOf(e)' = StatusOf(e)
  <2>1. CASE e # g
    BY <1>1, <1>2, <1>3, <1>8, <2>1, StatusKept DEF Executing, TypeOK
  <2>2. CASE e = g
    BY <1>2, <1>5, <2>2 DEF StatusOf
  <2>3. QED
    BY <2>1, <2>2
<1>9. StatusBecomes(f, to)
  BY <1>7, <1>8, OneStatus
<1>10. [e \in Fibers |-> StatusOf(e)][f] = "running"
  BY <1>6
<1>11. cpu' = [cpu EXCEPT ![t] = g] /\ inside' = [inside EXCEPT ![g] = Nil] /\ inside[g] = f
  BY <1>1 DEF Returned
<1>12. g \in Threads \cup Fibers
  OBVIOUS
<1>13. (misused \/ broken = "assert")' = (misused \/ broken = "assert")
  BY <1>1, <1>2, StillPromised
<1>14. QED
  BY <1>1, <1>9, <1>10, <1>11, <1>12, <1>13 DEF Promise!CReturns, Promise!Become, StatusBecomes

\* Every step of Fiber after which no rule is broken is a step of Coroutines or none.
LEMMA PromiseKept ==
  ASSUME TypeOK, Sound, TypeOK', Next, ~misused, ~misused', broken' = "no"
  PROVE  Promise!CNext \/ UNCHANGED Promise!cvars
<1> USE FlowFacts
<1>0. broken = "no"
  BY DEF Next
<1>1. (misused \/ broken = "assert")' = (misused \/ broken = "assert")
  BY <1>0, StillPromised
<1>2. \A x \in Flows : m_state[x] \in {"none", "READY", "RUNNING", "TERM", "gone"}
  BY DEF TypeOK
<1>3. CASE CreateScheduler
  <2>1. ~Executing(Sched) /\ StatusOf(Sched) = "none"
    BY <1>3, ExecutingExists, StatusCases DEF CreateScheduler, Exists
  <2>2. UNCHANGED <<cpu, inside>> /\ m_state'[Sched] = "READY" /\ \A e \in Fibers : e # Sched => m_state'[e] = m_state[e]
    BY <1>3 DEF CreateScheduler, TypeOK
  <2>3. StatusBecomes(Sched, "suspended")
    BY <2>1, <2>2, ObjectStatus
  <2>4. Promise!CCreate(Sched)
    BY <1>1, <2>1, <2>2, <2>3 DEF Promise!CCreate, Promise!Become, StatusBecomes
  <2>5. QED
    BY <2>4 DEF Promise!CNext
<1>4. ASSUME NEW t \in Threads, GetThis(t) PROVE UNCHANGED Promise!cvars
  <2>1. UNCHANGED <<cpu, inside>> /\ \A e \in Fibers : m_state'[e] = m_state[e]
    BY <1>4 DEF GetThis, TypeOK
  <2>2. \A e \in Fibers : StatusOf(e)' = StatusOf(e)
    BY <1>2, <2>1, StatusKept DEF Executing
  <2>3. QED
    BY <1>0, <2>1, <2>2, StatusStutter
<1>5. ASSUME NEW t \in Threads, NEW f \in Fibers, cpu[t] = f, UNCHANGED <<cpu, inside>>,
             \A e \in Fibers : e # f => m_state'[e] = m_state[e]
      PROVE  UNCHANGED Promise!cvars
  <2>1. StatusOf(f)' = StatusOf(f)
    BY <1>5 DEF StatusOf, Executing
  <2>2. \A e \in Fibers : StatusOf(e)' = StatusOf(e)
    BY <1>2, <1>5, <2>1, StatusKept DEF Executing
  <2>3. QED
    BY <1>0, <1>5, <2>2, StatusStutter
<1>6. ASSUME NEW t \in Threads, YieldBegins(t) PROVE UNCHANGED Promise!cvars
  <2>1. PICK f : f = t_fiber[t]
    OBVIOUS
  <2>2. f \in Fibers /\ Free(t) /\ f # Nil
    BY <1>6, <2>1 DEF YieldBegins, TypeOK
  <2>3. cpu[t] = f
    BY <2>1, <2>2 DEF Sound, MainFibers, TypeOK
  <2>4. m_state' = m_state \/ m_state' = [m_state EXCEPT ![f] = "READY"]
    BY <1>6, <2>1 DEF YieldBegins
  <2>5. \A e \in Fibers : e # f => m_state'[e] = m_state[e]
    BY <2>4 DEF TypeOK
  <2>6. UNCHANGED <<cpu, inside>>
    BY <1>6 DEF YieldBegins
  <2>7. QED
    BY <1>5, <2>2, <2>3, <2>5, <2>6
<1>7. ASSUME NEW t \in Threads, MainFuncEnds(t) PROVE UNCHANGED Promise!cvars
  <2>1. PICK f \in Fibers : cpu[t] = f
    BY <1>7 DEF MainFuncEnds
  <2>2. UNCHANGED <<cpu, inside>> /\ \A e \in Fibers : e # f => m_state'[e] = m_state[e]
    BY <1>7, <2>1 DEF MainFuncEnds, TypeOK
  <2>3. QED
    BY <1>5, <2>1, <2>2
<1>8. ASSUME NEW t \in Threads, YieldSwaps(t) PROVE Promise!CNext
  BY <1>0, <1>8, ReturnRefined DEF Promise!CNext
<1>9. ASSUME NEW t \in Threads, NEW f \in Fibers, Resume(t, f) PROVE Promise!CNext
  <2>1. m_state[f] = "READY" /\ resume(t, f, m_mutex)
    BY <1>9 DEF Resume
  <2>2. PICK g \in Flows : cpu[t] = g /\ Slot(t, f) = g
    BY <1>9, ResumeRules
  <2>3. Free(t) /\ ~Executing(f)
    BY <1>9, ResumeRules
  <2>4. PICK locks \in [User -> Flows \cup {Nil}] : locks = m_mutex
    BY DEF TypeOK
  <2>5. Resumed(t, f, g)
    BY <2>1, <2>2, <2>3, <2>4, ResumeEffect
  <2>6. Promise!CResume(t, f)
    BY <1>0, <2>1, <2>2, <2>3, <2>5, ResumeRefined
  <2>7. QED
    BY <2>6 DEF Promise!CNext
<1>10. ASSUME NEW t \in Threads, NEW f \in User, RunTask(t, f) PROVE Promise!CNext \/ UNCHANGED Promise!cvars
  <2>1. CASE m_state[f] # "READY"
    <3>1. UNCHANGED <<locals, objects, inside>>
      BY <1>10, <2>1 DEF RunTask
    <3>2. UNCHANGED <<cpu, inside, m_state>>
      BY <3>1 DEF locals, objects
    <3>3. \A e \in Fibers : StatusOf(e)' = StatusOf(e)
      BY <1>2, <3>2, StatusKept DEF Executing
    <3>4. QED
      BY <1>0, <3>2, <3>3, StatusStutter
  <2>2. CASE m_state[f] = "READY"
    <3>1. PICK g \in Flows : cpu[t] = g /\ Slot(t, f) = g
      BY <1>10, RunTaskRules
    <3>2. Free(t) /\ ~Executing(f)
      BY <1>10, RunTaskRules
    <3>3. PICK locks \in [User -> Flows \cup {Nil}] : locks = [m_mutex EXCEPT ![f] = cpu[t]]
      BY DEF TypeOK
    <3>4. resume(t, f, locks)
      BY <1>10, <2>2, <3>3 DEF RunTask
    <3>5. Resumed(t, f, g)
      BY <2>2, <3>1, <3>2, <3>4, ResumeEffect
    <3>6. Promise!CResume(t, f)
      BY <1>0, <2>2, <3>1, <3>2, <3>5, ResumeRefined
    <3>7. QED
      BY <3>6 DEF Promise!CNext
  <2>3. QED
    BY <2>1, <2>2
<1>11. ASSUME NEW f \in User, Post(f) PROVE UNCHANGED Promise!cvars
  <2>1. UNCHANGED <<cpu, inside, m_state>>
    BY <1>11 DEF Post, locals, objects
  <2>2. \A e \in Fibers : StatusOf(e)' = StatusOf(e)
    BY <1>2, <2>1, StatusKept DEF Executing
  <2>3. QED
    BY <1>0, <2>1, <2>2, StatusStutter
<1>12. ASSUME NEW f \in User, Reset(f) PROVE Promise!CNext
  <2>1. ~Executing(f)
    BY <1>12, Zenon DEF Reset
  <2>2. StatusOf(f) = "done"
    BY <1>12, <2>1, StatusCases DEF Reset
  <2>3. UNCHANGED <<cpu, inside>> /\ m_state'[f] = "READY" /\ \A e \in Fibers : e # f => m_state'[e] = m_state[e]
    BY <1>12 DEF Reset, TypeOK, locals
  <2>4. StatusBecomes(f, "suspended")
    BY <2>1, <2>3, ObjectStatus
  <2>5. Promise!CReset(f)
    BY <1>1, <2>2, <2>3, <2>4 DEF Promise!CReset, Promise!Become, StatusBecomes
  <2>6. QED
    BY <2>5 DEF Promise!CNext
<1>13. ASSUME NEW f \in User, NEW r \in BOOLEAN, Create(f, r) PROVE Promise!CNext
  <2>1. ~Executing(f) /\ StatusOf(f) = "none"
    BY <1>13, ExecutingExists, StatusCases DEF Create, Exists
  <2>2. UNCHANGED <<cpu, inside>> /\ m_state'[f] = "READY" /\ \A e \in Fibers : e # f => m_state'[e] = m_state[e]
    BY <1>13 DEF Create, TypeOK, locals
  <2>3. StatusBecomes(f, "suspended")
    BY <2>1, <2>2, ObjectStatus
  <2>4. Promise!CCreate(f)
    BY <1>1, <2>1, <2>2, <2>3 DEF Promise!CCreate, Promise!Become, StatusBecomes
  <2>5. QED
    BY <2>4 DEF Promise!CNext
<1>14. ASSUME NEW f \in Fibers, Destroy(f) PROVE Promise!CNext
  <2>1. ~Executing(f) /\ m_state[f] \in {"READY", "TERM"}
    BY <1>2, <1>14 DEF Destroy, Exists, Sound, States
  <2>2. StatusOf(f) \in {"suspended", "done"}
    BY <2>1, StatusCases
  <2>3. UNCHANGED <<cpu, inside>> /\ m_state'[f] = "gone" /\ \A e \in Fibers : e # f => m_state'[e] = m_state[e]
    BY <1>14 DEF Destroy, TypeOK, locals
  <2>4. StatusBecomes(f, "gone")
    BY <2>1, <2>3, ObjectStatus
  <2>5. Promise!CDestroy(f)
    BY <1>1, <2>2, <2>3, <2>4 DEF Promise!CDestroy, Promise!Become, StatusBecomes
  <2>6. QED
    BY <2>5 DEF Promise!CNext
<1>15. QED
  BY <1>3, <1>4, <1>6, <1>7, <1>8, <1>9, <1>10, <1>11, <1>12, <1>13, <1>14 DEF Next

LEMMA CoroutinesStep ==
  ASSUME IndInv, IndInv', [Next]_vars
  PROVE  [Promise!CNext]_(Promise!cvars)
<1>1. CASE UNCHANGED vars
  <2>1. UNCHANGED <<cpu, m_state, inside, misused, broken>>
    BY <1>1 DEF vars, locals, objects
  <2>2. \A e \in Fibers : StatusOf(e)' = StatusOf(e)
    BY <2>1, StatusKept, FlowFacts DEF Executing, IndInv, TypeOK
  <2>3. [e \in Fibers |-> StatusOf(e)]' = [e \in Fibers |-> StatusOf(e)]
    BY <2>2
  <2>4. QED
    BY <2>1, <2>3 DEF Promise!cvars
<1>2. CASE Next /\ (misused' \/ broken' = "assert")
  <2>1. (misused \/ broken = "assert")' = TRUE
    BY <1>2
  <2>2. QED
    BY <2>1 DEF Promise!CNext, Promise!CVoid
<1>3. CASE Next /\ ~misused' /\ broken' # "assert"
  <2>1. TypeOK /\ Sound /\ TypeOK' /\ ~misused /\ broken' = "no"
    BY <1>3 DEF IndInv, Next
  <2>2. QED
    BY <1>3, <2>1, PromiseKept
<1>4. QED
  BY <1>1, <1>2, <1>3

\* Fiber implements Coroutines: as long as no rule is broken, resume() runs a suspended
\* fiber and returns to its caller, on the same thread, when the fiber yields or ends.
THEOREM SpecImplementsCoroutines == Spec => ImplementsCoroutines
BY CoroutinesInit, CoroutinesStep, SpecIndInv, PTL DEF Spec, ImplementsCoroutines, Promise!CSpec
=============================================================================
