--------------------------- MODULE SchedulerProofs ---------------------------
(***************************************************************************)
(* Proofs about Scheduler.tla for pools, fibers and posts of any number.   *)
(***************************************************************************)
EXTENDS Scheduler, TLAPS, FiniteSetTheorems, SequenceTheorems

\* What taking element i out of a sequence leaves.
LEMMA RemoveAtFacts ==
  ASSUME NEW S, NEW s \in Seq(S), NEW i \in 1..Len(s)
  PROVE  /\ RemoveAt(s, i) \in Seq(S)
         /\ Len(RemoveAt(s, i)) = Len(s) - 1
         /\ \A j \in 1..(Len(s) - 1) :
              RemoveAt(s, i)[j] = IF j < i THEN s[j] ELSE s[j + 1]
<1> DEFINE L == SubSeq(s, 1, i - 1)
           R == SubSeq(s, i + 1, Len(s))
<1>1. L \in Seq(S) /\ Len(L) = i - 1 /\ \A j \in 1..(i - 1) : L[j] = s[j]
  OBVIOUS
<1>2. R \in Seq(S) /\ Len(R) = Len(s) - i /\ \A j \in 1..(Len(s) - i) : R[j] = s[i + j]
  OBVIOUS
<1>3. RemoveAt(s, i) = L \o R  BY DEF RemoveAt
<1> HIDE DEF L, R
<1>4. /\ L \o R \in Seq(S)
      /\ Len(L \o R) = Len(s) - 1
      /\ \A j \in 1..(Len(s) - 1) : (L \o R)[j] = IF j <= i - 1 THEN L[j] ELSE R[j - (i - 1)]
  <2>1. /\ L \o R \in Seq(S)
        /\ Len(L \o R) = Len(L) + Len(R)
        /\ \A j \in 1..(Len(L) + Len(R)) : (L \o R)[j] = IF j <= Len(L) THEN L[j] ELSE R[j - Len(L)]
    BY <1>1, <1>2, ConcatProperties
  <2>2. Len(L) = i - 1 /\ Len(L) + Len(R) = Len(s) - 1  BY <1>1, <1>2
  <2>3. QED  BY <2>1, <2>2
<1>5. ASSUME NEW j \in 1..(Len(s) - 1)
      PROVE  RemoveAt(s, i)[j] = IF j < i THEN s[j] ELSE s[j + 1]
  <2>1. CASE j < i  BY <1>1, <1>3, <1>4, <2>1
  <2>2. CASE j >= i
    <3>1. j - (i - 1) \in 1..(Len(s) - i) /\ i + (j - (i - 1)) = j + 1  BY <2>2
    <3>2. R[j - (i - 1)] = s[j + 1]  BY <1>2, <3>1
    <3>3. QED  BY <1>3, <1>4, <2>2, <3>2
  <2>3. QED  BY <2>1, <2>2
<1>6. QED  BY <1>3, <1>4, <1>5

\* The threads are finite in number, so they can be counted.
LEMMA ThreadsFinite == IsFiniteSet(Threads)
<1>1. IsFiniteSet(Pool)  BY SchedulerAssumption
<1>2. IsFiniteSet(Pool \cup {Root})  BY <1>1, FS_AddElement
<1>3. QED  BY <1>1, <1>2 DEF Threads

\* Counting the threads that satisfy a condition: one joins, one leaves.
LEMMA CountSubset ==
  ASSUME NEW S \in SUBSET Threads
  PROVE  /\ Cardinality(S) \in Nat
         /\ Cardinality(S) = 0 <=> S = {}
         /\ \A t \in Threads \ S : Cardinality(S \cup {t}) = Cardinality(S) + 1
         /\ \A t \in S : Cardinality(S \ {t}) = Cardinality(S) - 1
<1>1. IsFiniteSet(S)  BY ThreadsFinite, FS_Subset
<1>2. QED  BY <1>1, FS_AddElement, FS_RemoveElement, FS_EmptySet, FS_CardinalityType

\* The inductive invariant holds in a new scheduler.
THEOREM InitIndInv == Init => IndInv
<1> SUFFICES ASSUME Init PROVE IndInv
  OBVIOUS
<1>1. TypeOK
  <2>1. m_tasks \in Seq(Tasks) /\ m_activeThreadCount \in Nat /\ m_idleThreadCount \in Nat /\ posts \in Nat
    BY DEF Init
  <2>2. m_stopping \in BOOLEAN /\ mainPc \in MainPcNames
    BY DEF Init, MainPcNames
  <2>3. m_state \in [Fibers -> {"NONE", "CB", "READY", "RUNNING", "TERM"}] /\ holder \in [Fibers -> Threads \cup {None}]
    BY DEF Init
  <2>4. pc \in [Threads -> PcNames] /\ task \in [Threads -> Tasks \cup {NoTask}] /\ idleState \in [Threads -> {"READY", "RUNNING", "TERM"}]
    BY DEF Init, PcNames
  <2>5. QED  BY <2>1, <2>2, <2>3, <2>4 DEF TypeOK
<1>2. CountersExact
  <2>1. {t \in Threads : pc[t] \in ActivePc} = {}  BY DEF Init, ActivePc
  <2>2. {t \in Threads : pc[t] \in IdlePc} = {}  BY DEF Init, IdlePc
  <2>3. QED  BY <2>1, <2>2, FS_EmptySet DEF Init, CountersExact, Count
<1>3. TaskHeld /\ LockHeld /\ RunningMatches /\ CallbackOnce /\ OwnerOrder /\ NoEarlyLeave
  BY SchedulerAssumption DEF Init, TaskHeld, LockHeld, RunningMatches, CallbackOnce, OwnerOrder,
     NoEarlyLeave, ActivePc, Tasks, NoTask, Threads
<1>4. QED  BY <1>1, <1>2, <1>3 DEF IndInv

-----------------------------------------------------------------------------
(* One step of one thread.                                                  *)

\* Moving one thread changes the number of threads at some places by at most one.
LEMMA CountMoves ==
  ASSUME NEW t \in Threads, \A u \in Threads \ {t} : pc'[u] = pc[u], NEW Names
  PROVE  /\ Count(pc, Names) \in Nat
         /\ (pc[t] \in Names <=> pc'[t] \in Names) => Count(pc', Names) = Count(pc, Names)
         /\ pc[t] \notin Names /\ pc'[t] \in Names => Count(pc', Names) = Count(pc, Names) + 1
         /\ pc[t] \in Names /\ pc'[t] \notin Names => Count(pc', Names) = Count(pc, Names) - 1
<1> DEFINE A == {u \in Threads : pc[u] \in Names}
           B == {u \in Threads : pc'[u] \in Names}
<1>1. Count(pc, Names) = Cardinality(A) /\ Count(pc', Names) = Cardinality(B)  BY DEF Count
<1>2. Cardinality(A) \in Nat  BY CountSubset
<1>3. (pc[t] \in Names <=> pc'[t] \in Names) => A = B  OBVIOUS
<1>4. pc[t] \notin Names /\ pc'[t] \in Names => B = A \cup {t} /\ t \in Threads \ A  OBVIOUS
<1>5. pc[t] \in Names /\ pc'[t] \notin Names => B = A \ {t} /\ t \in A  OBVIOUS
<1>6. A \in SUBSET Threads  OBVIOUS
<1> HIDE DEF A, B
<1>7. QED  BY <1>1, <1>2, <1>3, <1>4, <1>5, <1>6, CountSubset

\* What moving one thread means for m_activeThreadCount and m_idleThreadCount.
LEMMA CountersMove ==
  ASSUME CountersExact, NEW t \in Threads, \A u \in Threads \ {t} : pc'[u] = pc[u]
  PROVE  /\ (pc[t] \in ActivePc <=> pc'[t] \in ActivePc) => Count(pc, ActivePc)' = m_activeThreadCount
         /\ pc[t] \notin ActivePc /\ pc'[t] \in ActivePc => Count(pc, ActivePc)' = m_activeThreadCount + 1
         /\ pc[t] \in ActivePc /\ pc'[t] \notin ActivePc => Count(pc, ActivePc)' = m_activeThreadCount - 1
         /\ (pc[t] \in IdlePc <=> pc'[t] \in IdlePc) => Count(pc, IdlePc)' = m_idleThreadCount
         /\ pc[t] \notin IdlePc /\ pc'[t] \in IdlePc => Count(pc, IdlePc)' = m_idleThreadCount + 1
         /\ pc[t] \in IdlePc /\ pc'[t] \notin IdlePc => Count(pc, IdlePc)' = m_idleThreadCount - 1
<1>1. ASSUME NEW Names
      PROVE
        /\ (pc[t] \in Names <=> pc'[t] \in Names) => Count(pc', Names) = Count(pc, Names)
        /\ pc[t] \notin Names /\ pc'[t] \in Names => Count(pc', Names) = Count(pc, Names) + 1
        /\ pc[t] \in Names /\ pc'[t] \notin Names => Count(pc', Names) = Count(pc, Names) - 1
  BY CountMoves
<1>2. QED  BY <1>1 DEF CountersExact

\* The atomic counters are not zero while a thread is where they count it.
LEMMA CountersPositive ==
  ASSUME IndInv, NEW t \in Threads
  PROVE  /\ pc[t] \in ActivePc => m_activeThreadCount # 0
         /\ pc[t] \in IdlePc => m_idleThreadCount # 0
<1>1. ASSUME NEW Names, pc[t] \in Names
      PROVE  Count(pc, Names) # 0
  <2>1. {u \in Threads : pc[u] \in Names} # {}  BY <1>1
  <2>2. QED  BY <2>1, CountSubset DEF Count
<1>2. QED  BY <1>1 DEF IndInv, CountersExact

\* When no thread is active, no thread is anywhere between taking a task and
\* giving it back.
LEMMA NobodyActive ==
  ASSUME IndInv, m_activeThreadCount = 0
  PROVE  \A t \in Threads : pc[t] \notin ActivePc /\ task[t] = NoTask
<1>1. \A t \in Threads : pc[t] \notin ActivePc  BY CountersPositive
<1>2. QED  BY <1>1 DEF IndInv, TypeOK, TaskHeld

\* Every queued task names a fiber.
LEMMA QueueFibers ==
  ASSUME IndInv
  PROVE  \A i \in 1..Len(m_tasks) : m_tasks[i].fiber \in Fibers
<1>1. \A i \in 1..Len(m_tasks) : m_tasks[i] \in Tasks  BY DEF IndInv, TypeOK
<1>2. QED  BY <1>1 DEF Tasks

\* Leaving the scope of lock_guard(fiber->m_mutex).
LEMMA UnlockStep ==
  ASSUME IndInv, NEW t \in Threads, Unlock(t)
  PROVE  IndInv'
<1> USE DEF Unlock, counters
<1>1. TypeOK'  BY DEF IndInv, TypeOK, PcNames, ActivePc
<1>2. CountersExact'
  BY DEF IndInv, TypeOK, CountersExact, Count, ActivePc, IdlePc
<1>3. TaskHeld'  BY DEF IndInv, TypeOK, TaskHeld, ActivePc
<1>4. LockHeld'  BY SchedulerAssumption DEF IndInv, TypeOK, TaskHeld, LockHeld, ActivePc, Tasks
<1>5. RunningMatches'  BY DEF IndInv, TypeOK, RunningMatches
<1>6. CallbackOnce'  BY DEF IndInv, TypeOK, CallbackOnce, ActivePc
<1>7. OwnerOrder'  BY SchedulerAssumption DEF IndInv, TypeOK, OwnerOrder, Threads
<1>8. NoEarlyLeave'  BY DEF IndInv, TypeOK, NoEarlyLeave, Stopping
<1>9. QED  BY <1>1, <1>2, <1>3, <1>4, <1>5, <1>6, <1>7, <1>8 DEF IndInv

\* Taking a task: the queue loses element i and the thread becomes active.
LEMMA ScanTakesStep ==
  ASSUME IndInv, NEW t \in Threads, ScanTakes(t)
  PROVE  IndInv'
<1> PICK i \in 1..Len(m_tasks) :
      /\ task' = [task EXCEPT ![t] = m_tasks[i]]
      /\ m_tasks' = RemoveAt(m_tasks, i)
      /\ pc' = [pc EXCEPT ![t] = IF m_state[m_tasks[i].fiber] = "CB" THEN "cb" ELSE "fiber"]
  BY DEF ScanTakes
<1>a. /\ pc[t] = "scan"
      /\ m_activeThreadCount' = m_activeThreadCount + 1
      /\ UNCHANGED <<m_idleThreadCount, m_stopping, m_state, holder, idleState, mainPc, posts>>
  BY DEF ScanTakes
<1>b. /\ m_tasks' \in Seq(Tasks)
      /\ Len(m_tasks') = Len(m_tasks) - 1
      /\ \A j \in 1..(Len(m_tasks) - 1) : m_tasks'[j] = IF j < i THEN m_tasks[j] ELSE m_tasks[j + 1]
  BY RemoveAtFacts DEF IndInv, TypeOK
<1>c. m_tasks[i] \in Tasks /\ m_tasks[i].fiber \in Fibers /\ Len(m_tasks) \in Nat
  <2>1. m_tasks[i] \in Tasks /\ Len(m_tasks) \in Nat  BY DEF IndInv, TypeOK
  <2>2. QED  BY <2>1 DEF Tasks
<1>d. pc'[t] \in {"cb", "fiber"} /\ task'[t] = m_tasks[i]
      /\ \A u \in Threads \ {t} : pc'[u] = pc[u] /\ task'[u] = task[u]
  BY DEF IndInv, TypeOK
<1>1. TypeOK'  BY <1>a, <1>b, <1>c DEF IndInv, TypeOK, PcNames, ActivePc
<1>2. CountersExact'
  <2>1. pc[t] \notin ActivePc /\ pc'[t] \in ActivePc /\ pc[t] \notin IdlePc /\ pc'[t] \notin IdlePc
    BY <1>a, <1>d DEF ActivePc, IdlePc
  <2>2. QED  BY <1>a, <1>d, <2>1, CountersMove DEF IndInv, CountersExact
<1>3. TaskHeld'  BY <1>c, <1>d DEF IndInv, TaskHeld, ActivePc
<1>4. LockHeld'  BY <1>a, <1>d DEF IndInv, LockHeld
<1>5. RunningMatches'  BY <1>a, <1>d DEF IndInv, RunningMatches
<1>6. CallbackOnce'
  <2>1. ASSUME NEW j \in 1..Len(m_tasks')
        PROVE  \E h \in 1..Len(m_tasks) : h # i /\ m_tasks'[j] = m_tasks[h] /\ (IF j < i THEN h = j ELSE h = j + 1)
    BY <1>b, <1>c
  <2>2. ASSUME NEW j \in 1..Len(m_tasks')
        PROVE  /\ m_state[m_tasks'[j].fiber] # "NONE"
               /\ m_state[m_tasks'[j].fiber] = "CB" =>
                    \A h \in 1..Len(m_tasks') : m_tasks'[h].fiber = m_tasks'[j].fiber => j = h
    <3>1. PICK a \in 1..Len(m_tasks) : m_tasks'[j] = m_tasks[a] /\ (IF j < i THEN a = j ELSE a = j + 1)
      BY <2>1
    <3>2. m_state[m_tasks[a].fiber] # "NONE"  BY DEF IndInv, CallbackOnce
    <3>3. ASSUME m_state[m_tasks[a].fiber] = "CB",
                 NEW h \in 1..Len(m_tasks'), m_tasks'[h].fiber = m_tasks'[j].fiber
          PROVE  j = h
      <4>1. PICK b \in 1..Len(m_tasks) : m_tasks'[h] = m_tasks[b] /\ (IF h < i THEN b = h ELSE b = h + 1)
        BY <2>1
      <4>2. a = b  BY <3>1, <3>3, <4>1 DEF IndInv, CallbackOnce
      <4>3. QED  BY <1>b, <1>c, <3>1, <4>1, <4>2
    <3>4. QED  BY <3>1, <3>2, <3>3
  <2>3. ASSUME NEW u \in Threads, pc'[u] = "cb"
        PROVE  /\ m_state[task'[u].fiber] = "CB"
               /\ \A j \in 1..Len(m_tasks') : m_tasks'[j].fiber # task'[u].fiber
               /\ \A v \in Threads : pc'[v] = "cb" /\ task'[v].fiber = task'[u].fiber => v = u
    <3>1. CASE u = t
      <4>1. m_state[m_tasks[i].fiber] = "CB"  BY <3>1, <2>3, <1>d DEF IndInv, TypeOK
      <4>2. \A j \in 1..Len(m_tasks') : m_tasks'[j].fiber # m_tasks[i].fiber
        BY <4>1, <2>1 DEF IndInv, CallbackOnce
      <4>3. QED  BY <3>1, <4>1, <4>2, <1>d DEF IndInv, CallbackOnce
    <3>2. CASE u # t
      <4>1. pc[u] = "cb" /\ task'[u] = task[u]  BY <3>2, <2>3, <1>d
      <4>2. m_tasks[i].fiber # task[u].fiber  BY <4>1 DEF IndInv, CallbackOnce
      <4>3. QED  BY <4>1, <4>2, <1>d, <2>1 DEF IndInv, CallbackOnce
    <3>3. QED  BY <3>1, <3>2
  <2>4. ASSUME NEW u \in Threads, pc'[u] \in ActivePc \ {"cb"}
        PROVE  m_state[task'[u].fiber] \in {"READY", "RUNNING", "TERM"}
    <3>1. CASE u = t
      <4>1. m_state[m_tasks[i].fiber] # "CB"  BY <3>1, <2>4, <1>d DEF IndInv, TypeOK
      <4>2. QED  BY <3>1, <4>1, <1>c, <1>d DEF IndInv, TypeOK, CallbackOnce
    <3>2. CASE u # t  BY <3>2, <2>4, <1>d DEF IndInv, CallbackOnce
    <3>3. QED  BY <3>1, <3>2
  <2>5. QED  BY <1>a, <2>2, <2>3, <2>4 DEF CallbackOnce
<1>7. OwnerOrder'  BY <1>a, <1>d, SchedulerAssumption DEF IndInv, TypeOK, OwnerOrder, Threads
<1>8. NoEarlyLeave'  BY <1>a, <1>c DEF IndInv, NoEarlyLeave, Stopping
<1>9. QED  BY <1>1, <1>2, <1>3, <1>4, <1>5, <1>6, <1>7, <1>8 DEF IndInv

\* A scan without result.
LEMMA ScanFindsNoneStep ==
  ASSUME IndInv, NEW t \in Threads, ScanFindsNone(t)
  PROVE  IndInv'
<1> USE DEF ScanFindsNone, counters
<1>1. TypeOK'  BY DEF IndInv, TypeOK, PcNames, ActivePc, IdlePc
<1>2. CountersExact'
  BY DEF IndInv, TypeOK, CountersExact, Count, ActivePc, IdlePc
<1>3. TaskHeld'  BY DEF IndInv, TypeOK, TaskHeld, ActivePc
<1>4. LockHeld'  BY SchedulerAssumption DEF IndInv, TypeOK, TaskHeld, LockHeld, ActivePc, Tasks
<1>5. RunningMatches'  BY DEF IndInv, TypeOK, TaskHeld, LockHeld, RunningMatches, ActivePc
<1>6. CallbackOnce'  BY DEF IndInv, TypeOK, TaskHeld, CallbackOnce, ActivePc
<1>7. OwnerOrder'  BY SchedulerAssumption DEF IndInv, TypeOK, OwnerOrder, Threads
<1>8. NoEarlyLeave'  BY DEF IndInv, TypeOK, NoEarlyLeave, Stopping
<1>9. QED  BY <1>1, <1>2, <1>3, <1>4, <1>5, <1>6, <1>7, <1>8 DEF IndInv

\* Locking and resuming the fiber of a task.
LEMMA LockFiberStep ==
  ASSUME IndInv, NEW t \in Threads, LockFiber(t)
  PROVE  IndInv'
<1> DEFINE f == task[t].fiber
<1>a. /\ pc[t] = "fiber"
      /\ holder[f] = None
      /\ holder' = [holder EXCEPT ![f] = t]
      /\ \/ /\ m_state[f] = "TERM"
            /\ pc' = [pc EXCEPT ![t] = "unlock"]
            /\ UNCHANGED m_state
         \/ /\ m_state[f] # "TERM"
            /\ pc' = [pc EXCEPT ![t] = "body"]
            /\ m_state' = [m_state EXCEPT ![f] = "RUNNING"]
      /\ UNCHANGED <<m_tasks, m_activeThreadCount, m_idleThreadCount, m_stopping, task, idleState, mainPc, posts>>
  BY DEF LockFiber, counters
<1>b. f \in Fibers  BY <1>a DEF IndInv, TaskHeld, Tasks, ActivePc
<1>c. m_state[f] \in {"READY", "RUNNING", "TERM"}  BY <1>a DEF IndInv, CallbackOnce, ActivePc
<1>d. /\ pc'[t] \in {"body", "unlock"}
      /\ \A u \in Threads \ {t} : pc'[u] = pc[u]
      /\ m_state'[f] \in {"RUNNING", "TERM"}
      /\ \A g \in Fibers \ {f} : m_state'[g] = m_state[g]
  BY <1>a, <1>b DEF IndInv, TypeOK
<1> HIDE DEF f
<1>1. TypeOK'  BY <1>a, <1>b DEF IndInv, TypeOK, PcNames, ActivePc
<1>2. CountersExact'
  <2>1. pc[t] \in ActivePc /\ pc'[t] \in ActivePc /\ pc[t] \notin IdlePc /\ pc'[t] \notin IdlePc
    BY <1>a, <1>d DEF ActivePc, IdlePc
  <2>2. QED  BY <1>a, <1>d, <2>1, CountersMove DEF IndInv, CountersExact
<1>3. TaskHeld'  BY <1>a, <1>d DEF IndInv, TaskHeld, ActivePc
<1>4. LockHeld'
  BY <1>a, <1>b, <1>d, SchedulerAssumption DEF f, IndInv, TypeOK, LockHeld
<1>5. RunningMatches'
  <2>1. \A u \in Threads : pc[u] = "body" => task[u].fiber # f
    BY <1>a, <1>b, SchedulerAssumption DEF IndInv, LockHeld
  <2>2. QED  BY <1>a, <1>b, <1>d, <2>1 DEF f, IndInv, TypeOK, RunningMatches
<1>6. CallbackOnce'
  <2>1. \A g \in Fibers : m_state'[g] = m_state[g]
                          \/ (g = f /\ m_state'[g] = "RUNNING" /\ m_state[g] \in {"READY", "RUNNING", "TERM"})
    BY <1>a, <1>b, <1>c DEF IndInv, TypeOK
  <2>2. \A i \in 1..Len(m_tasks) : m_tasks[i].fiber \in Fibers  BY QueueFibers
  <2>3. \A u \in Threads : pc[u] \in ActivePc => task[u].fiber \in Fibers  BY DEF IndInv, TaskHeld, Tasks
  <2>4. QED  BY <1>a, <1>d, <2>1, <2>2, <2>3 DEF f, IndInv, CallbackOnce, ActivePc
<1>7. OwnerOrder'  BY <1>a, <1>d, SchedulerAssumption DEF IndInv, TypeOK, OwnerOrder, Threads
<1>8. NoEarlyLeave'  BY <1>a DEF IndInv, NoEarlyLeave, Stopping
<1>9. QED  BY <1>1, <1>2, <1>3, <1>4, <1>5, <1>6, <1>7, <1>8 DEF IndInv

\* Making and resuming the fiber of a function.
LEMMA RunCbStep ==
  ASSUME IndInv, NEW t \in Threads, RunCb(t)
  PROVE  IndInv'
<1> DEFINE f == task[t].fiber
<1>a. /\ pc[t] = "cb"
      /\ holder' = [holder EXCEPT ![f] = t]
      /\ m_state' = [m_state EXCEPT ![f] = "RUNNING"]
      /\ pc' = [pc EXCEPT ![t] = "body"]
      /\ UNCHANGED <<m_tasks, m_activeThreadCount, m_idleThreadCount, m_stopping, task, idleState, mainPc, posts>>
  BY DEF RunCb, counters
<1>b. f \in Fibers /\ m_state[f] = "CB"
  BY <1>a DEF IndInv, TaskHeld, CallbackOnce, Tasks, ActivePc
<1>c. \A u \in Threads \ {t} : pc[u] \in ActivePc => task[u].fiber # f
  BY <1>a, <1>b DEF IndInv, CallbackOnce, ActivePc
<1>d. /\ pc'[t] = "body"
      /\ \A u \in Threads \ {t} : pc'[u] = pc[u]
      /\ m_state'[f] = "RUNNING" /\ holder'[f] = t
      /\ \A g \in Fibers \ {f} : m_state'[g] = m_state[g] /\ holder'[g] = holder[g]
  BY <1>a, <1>b DEF IndInv, TypeOK
<1>1. TypeOK'  BY <1>a, <1>b DEF IndInv, TypeOK, PcNames, ActivePc
<1>2. CountersExact'
  <2>1. pc[t] \in ActivePc /\ pc'[t] \in ActivePc /\ pc[t] \notin IdlePc /\ pc'[t] \notin IdlePc
    BY <1>a, <1>d DEF ActivePc, IdlePc
  <2>2. QED  BY <1>a, <1>d, <2>1, CountersMove DEF IndInv, CountersExact
<1>3. TaskHeld'  BY <1>a, <1>d DEF IndInv, TaskHeld, ActivePc
<1> HIDE DEF f
<1>4. LockHeld'  BY <1>a, <1>b, <1>c, <1>d DEF f, IndInv, LockHeld, ActivePc
<1>5. RunningMatches'  BY <1>a, <1>c, <1>d DEF f, IndInv, RunningMatches, ActivePc
<1>6. CallbackOnce'
  <2>1. \A i \in 1..Len(m_tasks) : m_tasks[i].fiber \in Fibers \ {f}
    BY <1>a, QueueFibers DEF f, IndInv, CallbackOnce
  <2>2. \A u \in Threads : pc[u] \in ActivePc => task[u].fiber \in Fibers  BY DEF IndInv, TaskHeld, Tasks
  <2>3. QED  BY <1>a, <1>c, <1>d, <2>1, <2>2 DEF f, IndInv, CallbackOnce, ActivePc
<1>7. OwnerOrder'  BY <1>a, <1>d, SchedulerAssumption DEF IndInv, TypeOK, OwnerOrder, Threads
<1>8. NoEarlyLeave'  BY <1>a DEF IndInv, NoEarlyLeave, Stopping
<1>9. QED  BY <1>1, <1>2, <1>3, <1>4, <1>5, <1>6, <1>7, <1>8 DEF IndInv

\* schedulerLock, called by the owner before stop() or by the code of a task.
LEMMA PostStep ==
  ASSUME IndInv, schedulerLock, ~m_stopping \/ m_activeThreadCount # 0,
         UNCHANGED <<counters, m_stopping, holder, pc, task, idleState, mainPc>>
  PROVE  IndInv'
<1> USE DEF counters
<1> PICK f \in Fibers, thread \in Threads \cup {AnyThread} :
      /\ m_tasks' = Append(m_tasks, [fiber |-> f, thread |-> thread])
      /\ \/ m_state[f] = "NONE" /\ \E s \in {"CB", "READY"} : m_state' = [m_state EXCEPT ![f] = s]
         \/ m_state[f] \in {"READY", "RUNNING", "TERM"} /\ UNCHANGED m_state
  BY DEF schedulerLock
<1> DEFINE k == [fiber |-> f, thread |-> thread]
<1>1. k \in Tasks  BY DEF Tasks
<1>2. TypeOK'
  <2>1. m_tasks' \in Seq(Tasks)  BY <1>1, AppendProperties DEF IndInv, TypeOK
  <2>2. posts' \in Nat  BY DEF schedulerLock, IndInv, TypeOK
  <2>3. QED  BY <2>1, <2>2 DEF IndInv, TypeOK
<1>3. CountersExact' /\ TaskHeld' /\ LockHeld' /\ OwnerOrder'
  BY DEF IndInv, TypeOK, CountersExact, TaskHeld, LockHeld, OwnerOrder
<1>4. RunningMatches'  BY DEF IndInv, TypeOK, RunningMatches
<1>5. CallbackOnce'
  <2>1. /\ Len(m_tasks') = Len(m_tasks) + 1
        /\ \A i \in 1..Len(m_tasks) : m_tasks'[i] = m_tasks[i] /\ m_tasks[i] \in Tasks
        /\ m_tasks'[Len(m_tasks) + 1] = k
    BY <1>1 DEF IndInv, TypeOK
  <2>2. Len(m_tasks) \in Nat  BY DEF IndInv, TypeOK
  <2>3. \A i \in 1..Len(m_tasks') : m_tasks'[i].fiber \in Fibers
    BY <2>1, <2>2 DEF Tasks
  <2>4. \A g \in Fibers : m_state'[g] = m_state[g] \/ (g = f /\ m_state[f] = "NONE" /\ m_state'[f] \in {"CB", "READY"})
    BY DEF IndInv, TypeOK
  <2>5. ASSUME NEW i \in 1..Len(m_tasks')
        PROVE  /\ m_state'[m_tasks'[i].fiber] # "NONE"
               /\ m_state'[m_tasks'[i].fiber] = "CB" =>
                    \A j \in 1..Len(m_tasks') : m_tasks'[j].fiber = m_tasks'[i].fiber => i = j
    <3>1. CASE i = Len(m_tasks) + 1
      <4>1. m_tasks'[i].fiber = f  BY <2>1, <3>1
      <4>2. m_state'[f] # "NONE" /\ (m_state'[f] = "CB" => m_state[f] = "NONE")  BY DEF IndInv, TypeOK
      <4>3. m_state[f] = "NONE" => \A j \in 1..Len(m_tasks) : m_tasks'[j].fiber # f
        BY <2>1 DEF IndInv, CallbackOnce
      <4>4. QED  BY <2>1, <2>2, <3>1, <4>1, <4>2, <4>3
    <3>2. CASE i \in 1..Len(m_tasks)
      <4>1. m_tasks'[i] = m_tasks[i] /\ m_tasks[i].fiber \in Fibers /\ m_state[m_tasks[i].fiber] # "NONE"
        BY <2>1, <2>3, <3>2 DEF IndInv, CallbackOnce
      <4>2. m_state'[m_tasks[i].fiber] = m_state[m_tasks[i].fiber]  BY <2>4, <4>1
      <4>3. m_state[m_tasks[i].fiber] = "CB" => m_tasks[i].fiber # f  OBVIOUS
      <4>4. QED  BY <2>1, <2>2, <3>2, <4>1, <4>2, <4>3 DEF IndInv, CallbackOnce
    <3>3. QED  BY <2>1, <2>2, <3>1, <3>2
  <2>6. ASSUME NEW t \in Threads
        PROVE  /\ pc[t] \in ActivePc \ {"cb"} => m_state'[task[t].fiber] \in {"READY", "RUNNING", "TERM"}
               /\ pc[t] = "cb" =>
                    /\ m_state'[task[t].fiber] = "CB"
                    /\ \A i \in 1..Len(m_tasks') : m_tasks'[i].fiber # task[t].fiber
                    /\ \A u \in Threads : pc[u] = "cb" /\ task[u].fiber = task[t].fiber => u = t
    <3>1. pc[t] \in ActivePc => task[t].fiber \in Fibers  BY DEF IndInv, TaskHeld, Tasks
    <3>2. QED  BY <2>1, <2>2, <2>4, <3>1 DEF IndInv, CallbackOnce, ActivePc
  <2>7. QED  BY <2>5, <2>6 DEF CallbackOnce
<1>6. NoEarlyLeave'  BY DEF IndInv, NoEarlyLeave, Stopping
<1>7. QED  BY <1>2, <1>3, <1>4, <1>5, <1>6 DEF IndInv

\* schedulerLock from inside a task.
LEMMA TaskPostsStep ==
  ASSUME IndInv, NEW t \in Threads, TaskPosts(t)
  PROVE  IndInv'
<1>1. m_activeThreadCount # 0
  BY CountersPositive DEF TaskPosts, ActivePc
<1>2. QED  BY <1>1, PostStep DEF TaskPosts

\* Fiber::yield() by the task.
LEMMA YieldStep ==
  ASSUME IndInv, NEW t \in Threads, Yield(t)
  PROVE  IndInv'
<1> USE DEF Yield, counters
<1>1. TypeOK'  BY DEF IndInv, TypeOK, PcNames, ActivePc, IdlePc
<1>2. CountersExact'
  BY DEF IndInv, TypeOK, CountersExact, Count, ActivePc, IdlePc
<1>3. TaskHeld'  BY DEF IndInv, TypeOK, TaskHeld, ActivePc
<1>4. LockHeld'  BY SchedulerAssumption DEF IndInv, TypeOK, TaskHeld, LockHeld, ActivePc, Tasks
<1>5. RunningMatches'  BY DEF IndInv, TypeOK, TaskHeld, LockHeld, RunningMatches, ActivePc
<1>6. CallbackOnce'  BY DEF IndInv, TypeOK, TaskHeld, CallbackOnce, ActivePc
<1>7. OwnerOrder'  BY SchedulerAssumption DEF IndInv, TypeOK, OwnerOrder, Threads
<1>8. NoEarlyLeave'  BY DEF IndInv, TypeOK, NoEarlyLeave, Stopping
<1>9. QED  BY <1>1, <1>2, <1>3, <1>4, <1>5, <1>6, <1>7, <1>8 DEF IndInv

\* The end of Fiber::MainFunc().
LEMMA FinishStep ==
  ASSUME IndInv, NEW t \in Threads, Finish(t)
  PROVE  IndInv'
<1> USE DEF Finish, counters
<1>1. TypeOK'  BY DEF IndInv, TypeOK, PcNames, ActivePc, IdlePc
<1>2. CountersExact'
  BY DEF IndInv, TypeOK, CountersExact, Count, ActivePc, IdlePc
<1>3. TaskHeld'  BY DEF IndInv, TypeOK, TaskHeld, ActivePc
<1>4. LockHeld'  BY SchedulerAssumption DEF IndInv, TypeOK, TaskHeld, LockHeld, ActivePc, Tasks
<1>5. RunningMatches'  BY DEF IndInv, TypeOK, TaskHeld, LockHeld, RunningMatches, ActivePc
<1>6. CallbackOnce'  BY DEF IndInv, TypeOK, TaskHeld, CallbackOnce, ActivePc
<1>7. OwnerOrder'  BY SchedulerAssumption DEF IndInv, TypeOK, OwnerOrder, Threads
<1>8. NoEarlyLeave'  BY DEF IndInv, TypeOK, NoEarlyLeave, Stopping
<1>9. QED  BY <1>1, <1>2, <1>3, <1>4, <1>5, <1>6, <1>7, <1>8 DEF IndInv

\* m_activeThreadCount-- and task.reset().
LEMMA DecStep ==
  ASSUME IndInv, NEW t \in Threads, Dec(t)
  PROVE  IndInv'
<1> USE DEF Dec, counters
<1>1. TypeOK'
  <2>1. m_activeThreadCount # 0  BY CountersPositive DEF ActivePc, IdlePc
  <2>2. QED  BY <2>1 DEF IndInv, TypeOK, PcNames, ActivePc, IdlePc
<1>2. CountersExact'
  <2>1. /\ pc[t] \in ActivePc /\ pc'[t] \notin ActivePc
        /\ pc[t] \in IdlePc <=> pc'[t] \in IdlePc
        /\ \A u \in Threads \ {t} : pc'[u] = pc[u]
    BY DEF IndInv, TypeOK, ActivePc, IdlePc
  <2>2. QED  BY <2>1, CountersMove DEF IndInv, CountersExact
<1>3. TaskHeld'  BY SchedulerAssumption DEF IndInv, TypeOK, TaskHeld, ActivePc, Tasks, NoTask
<1>4. LockHeld'  BY SchedulerAssumption DEF IndInv, TypeOK, TaskHeld, LockHeld, ActivePc, Tasks
<1>5. RunningMatches'  BY DEF IndInv, TypeOK, TaskHeld, LockHeld, RunningMatches, ActivePc
<1>6. CallbackOnce'  BY DEF IndInv, TypeOK, TaskHeld, CallbackOnce, ActivePc
<1>7. OwnerOrder'  BY SchedulerAssumption DEF IndInv, TypeOK, OwnerOrder, Threads
<1>8. NoEarlyLeave'  BY CountersPositive DEF IndInv, NoEarlyLeave, Stopping, ActivePc
<1>9. QED  BY <1>1, <1>2, <1>3, <1>4, <1>5, <1>6, <1>7, <1>8 DEF IndInv

\* Leaving run().
LEMMA BreakStep ==
  ASSUME IndInv, NEW t \in Threads, Break(t)
  PROVE  IndInv'
<1> USE DEF Break, counters
<1>1. TypeOK'  BY DEF IndInv, TypeOK, PcNames, ActivePc, IdlePc
<1>2. CountersExact'
  BY DEF IndInv, TypeOK, CountersExact, Count, ActivePc, IdlePc
<1>3. TaskHeld'  BY DEF IndInv, TypeOK, TaskHeld, ActivePc
<1>4. LockHeld'  BY SchedulerAssumption DEF IndInv, TypeOK, TaskHeld, LockHeld, ActivePc, Tasks
<1>5. RunningMatches'  BY DEF IndInv, TypeOK, TaskHeld, LockHeld, RunningMatches, ActivePc
<1>6. CallbackOnce'  BY DEF IndInv, TypeOK, TaskHeld, CallbackOnce, ActivePc
<1>7. OwnerOrder'  BY SchedulerAssumption DEF IndInv, TypeOK, OwnerOrder, Threads
<1>8. NoEarlyLeave'  BY DEF IndInv, TypeOK, NoEarlyLeave, Stopping
<1>9. QED  BY <1>1, <1>2, <1>3, <1>4, <1>5, <1>6, <1>7, <1>8 DEF IndInv

\* m_idleThreadCount++ and resuming the idle fiber.
LEMMA EnterIdleStep ==
  ASSUME IndInv, NEW t \in Threads, EnterIdle(t)
  PROVE  IndInv'
<1> USE DEF EnterIdle, counters
<1>1. TypeOK'  BY DEF IndInv, TypeOK, PcNames, ActivePc, IdlePc
<1>2. CountersExact'
  <2>1. /\ pc[t] \notin IdlePc /\ pc'[t] \in IdlePc
        /\ pc[t] \in ActivePc <=> pc'[t] \in ActivePc
        /\ \A u \in Threads \ {t} : pc'[u] = pc[u]
    BY DEF IndInv, TypeOK, ActivePc, IdlePc
  <2>2. QED  BY <2>1, CountersMove DEF IndInv, CountersExact
<1>3. TaskHeld'  BY DEF IndInv, TypeOK, TaskHeld, ActivePc
<1>4. LockHeld'  BY SchedulerAssumption DEF IndInv, TypeOK, TaskHeld, LockHeld, ActivePc, Tasks
<1>5. RunningMatches'  BY DEF IndInv, TypeOK, TaskHeld, LockHeld, RunningMatches, ActivePc
<1>6. CallbackOnce'  BY DEF IndInv, TypeOK, TaskHeld, CallbackOnce, ActivePc
<1>7. OwnerOrder'  BY SchedulerAssumption DEF IndInv, TypeOK, OwnerOrder, Threads
<1>8. NoEarlyLeave'  BY DEF IndInv, TypeOK, NoEarlyLeave, Stopping
<1>9. QED  BY <1>1, <1>2, <1>3, <1>4, <1>5, <1>6, <1>7, <1>8 DEF IndInv

\* One round of idle().
LEMMA IdleStep ==
  ASSUME IndInv, NEW t \in Threads, idle(t)
  PROVE  IndInv'
<1> USE DEF idle, counters
<1>1. TypeOK'  BY DEF IndInv, TypeOK, PcNames, ActivePc, IdlePc
<1>2. CountersExact'
  BY DEF IndInv, TypeOK, CountersExact, Count, ActivePc, IdlePc
<1>3. TaskHeld'  BY DEF IndInv, TypeOK, TaskHeld, ActivePc
<1>4. LockHeld'  BY SchedulerAssumption DEF IndInv, TypeOK, TaskHeld, LockHeld, ActivePc, Tasks
<1>5. RunningMatches'  BY DEF IndInv, TypeOK, TaskHeld, LockHeld, RunningMatches, ActivePc
<1>6. CallbackOnce'  BY DEF IndInv, TypeOK, TaskHeld, CallbackOnce, ActivePc
<1>7. OwnerOrder'  BY SchedulerAssumption DEF IndInv, TypeOK, OwnerOrder, Threads
<1>8. NoEarlyLeave'  BY DEF IndInv, TypeOK, NoEarlyLeave, Stopping
<1>9. QED  BY <1>1, <1>2, <1>3, <1>4, <1>5, <1>6, <1>7, <1>8 DEF IndInv

\* m_idleThreadCount--.
LEMMA LeaveIdleStep ==
  ASSUME IndInv, NEW t \in Threads, LeaveIdle(t)
  PROVE  IndInv'
<1> USE DEF LeaveIdle, counters
<1>1. TypeOK'
  <2>1. m_idleThreadCount # 0  BY CountersPositive DEF ActivePc, IdlePc
  <2>2. QED  BY <2>1 DEF IndInv, TypeOK, PcNames, ActivePc, IdlePc
<1>2. CountersExact'
  <2>1. /\ pc[t] \in IdlePc /\ pc'[t] \notin IdlePc
        /\ pc[t] \in ActivePc <=> pc'[t] \in ActivePc
        /\ \A u \in Threads \ {t} : pc'[u] = pc[u]
    BY DEF IndInv, TypeOK, ActivePc, IdlePc
  <2>2. QED  BY <2>1, CountersMove DEF IndInv, CountersExact
<1>3. TaskHeld'  BY DEF IndInv, TypeOK, TaskHeld, ActivePc
<1>4. LockHeld'  BY SchedulerAssumption DEF IndInv, TypeOK, TaskHeld, LockHeld, ActivePc, Tasks
<1>5. RunningMatches'  BY DEF IndInv, TypeOK, TaskHeld, LockHeld, RunningMatches, ActivePc
<1>6. CallbackOnce'  BY DEF IndInv, TypeOK, TaskHeld, CallbackOnce, ActivePc
<1>7. OwnerOrder'  BY SchedulerAssumption DEF IndInv, TypeOK, OwnerOrder, Threads
<1>8. NoEarlyLeave'  BY DEF IndInv, TypeOK, NoEarlyLeave, Stopping
<1>9. QED  BY <1>1, <1>2, <1>3, <1>4, <1>5, <1>6, <1>7, <1>8 DEF IndInv

-----------------------------------------------------------------------------
(* The owner of the scheduler.                                              *)

\* schedulerLock by the owner, before stop().
LEMMA MainPostsStep ==
  ASSUME IndInv, MainPosts
  PROVE  IndInv'
<1>1. ~m_stopping  BY DEF MainPosts, IndInv, OwnerOrder
<1>2. QED  BY <1>1, PostStep DEF MainPosts

\* start().
LEMMA StartStep ==
  ASSUME IndInv, Start
  PROVE  IndInv'
<1> USE SchedulerAssumption DEF Start, counters
<1>1. TypeOK'  BY DEF IndInv, TypeOK, OwnerOrder, MainPcNames, PcNames, Threads
<1>2. CountersExact'  BY DEF IndInv, TypeOK, CountersExact, Count, OwnerOrder, ActivePc, IdlePc
<1>3. TaskHeld'  BY DEF IndInv, TypeOK, TaskHeld, OwnerOrder, ActivePc
<1>4. LockHeld' /\ RunningMatches'  BY DEF IndInv, TypeOK, LockHeld, RunningMatches, OwnerOrder
<1>5. CallbackOnce'  BY DEF IndInv, TypeOK, CallbackOnce, OwnerOrder, ActivePc
<1>6. OwnerOrder'  BY DEF IndInv, TypeOK, OwnerOrder, Threads
<1>7. NoEarlyLeave'  BY DEF IndInv, NoEarlyLeave, Stopping
<1>8. QED  BY <1>1, <1>2, <1>3, <1>4, <1>5, <1>6, <1>7 DEF IndInv

\* The first part of stop().
LEMMA StopStep ==
  ASSUME IndInv, Stop
  PROVE  IndInv'
<1> USE SchedulerAssumption DEF Stop, counters
<1>1. TypeOK'  BY DEF IndInv, TypeOK, OwnerOrder, MainPcNames, PcNames, Threads
<1>2. CountersExact'  BY DEF IndInv, TypeOK, CountersExact, Count, OwnerOrder, ActivePc, IdlePc
<1>3. TaskHeld'  BY DEF IndInv, TypeOK, TaskHeld, OwnerOrder, ActivePc
<1>4. LockHeld' /\ RunningMatches'  BY DEF IndInv, TypeOK, LockHeld, RunningMatches, OwnerOrder
<1>5. CallbackOnce'  BY DEF IndInv, TypeOK, CallbackOnce, OwnerOrder, ActivePc
<1>6. OwnerOrder'  BY DEF IndInv, TypeOK, OwnerOrder, Threads
<1>7. NoEarlyLeave'  BY DEF IndInv, NoEarlyLeave, Stopping
<1>8. QED  BY <1>1, <1>2, <1>3, <1>4, <1>5, <1>6, <1>7 DEF IndInv

\* stop() enters run() on the owning thread.
LEMMA ResumeRootStep ==
  ASSUME IndInv, ResumeRoot
  PROVE  IndInv'
<1> USE SchedulerAssumption DEF ResumeRoot, counters
<1>1. TypeOK'  BY DEF IndInv, TypeOK, OwnerOrder, MainPcNames, PcNames, Threads
<1>2. CountersExact'  BY DEF IndInv, TypeOK, CountersExact, Count, OwnerOrder, ActivePc, IdlePc
<1>3. TaskHeld'  BY DEF IndInv, TypeOK, TaskHeld, OwnerOrder, ActivePc
<1>4. LockHeld' /\ RunningMatches'  BY DEF IndInv, TypeOK, LockHeld, RunningMatches, OwnerOrder
<1>5. CallbackOnce'  BY DEF IndInv, TypeOK, CallbackOnce, OwnerOrder, ActivePc
<1>6. OwnerOrder'  BY DEF IndInv, TypeOK, OwnerOrder, Threads
<1>7. NoEarlyLeave'  BY DEF IndInv, NoEarlyLeave, Stopping
<1>8. QED  BY <1>1, <1>2, <1>3, <1>4, <1>5, <1>6, <1>7 DEF IndInv

\* The owning thread comes back from run().
LEMMA RootDoneStep ==
  ASSUME IndInv, RootDone
  PROVE  IndInv'
<1> USE SchedulerAssumption DEF RootDone, counters
<1>1. TypeOK'  BY DEF IndInv, TypeOK, OwnerOrder, MainPcNames, PcNames, Threads
<1>2. CountersExact'  BY DEF IndInv, TypeOK, CountersExact, Count, OwnerOrder, ActivePc, IdlePc
<1>3. TaskHeld'  BY DEF IndInv, TypeOK, TaskHeld, OwnerOrder, ActivePc
<1>4. LockHeld' /\ RunningMatches'  BY DEF IndInv, TypeOK, LockHeld, RunningMatches, OwnerOrder
<1>5. CallbackOnce'  BY DEF IndInv, TypeOK, CallbackOnce, OwnerOrder, ActivePc
<1>6. OwnerOrder'  BY DEF IndInv, TypeOK, OwnerOrder, Threads
<1>7. NoEarlyLeave'  BY DEF IndInv, NoEarlyLeave, Stopping
<1>8. QED  BY <1>1, <1>2, <1>3, <1>4, <1>5, <1>6, <1>7 DEF IndInv

\* stop() has joined the threads.
LEMMA JoinStep ==
  ASSUME IndInv, Join
  PROVE  IndInv'
<1> USE SchedulerAssumption DEF Join, counters
<1>1. TypeOK'  BY DEF IndInv, TypeOK, OwnerOrder, MainPcNames, PcNames, Threads
<1>2. CountersExact'  BY DEF IndInv, TypeOK, CountersExact, Count, OwnerOrder, ActivePc, IdlePc
<1>3. TaskHeld'  BY DEF IndInv, TypeOK, TaskHeld, OwnerOrder, ActivePc
<1>4. LockHeld' /\ RunningMatches'  BY DEF IndInv, TypeOK, LockHeld, RunningMatches, OwnerOrder
<1>5. CallbackOnce'  BY DEF IndInv, TypeOK, CallbackOnce, OwnerOrder, ActivePc
<1>6. OwnerOrder'  BY DEF IndInv, TypeOK, OwnerOrder, Threads
<1>7. NoEarlyLeave'  BY DEF IndInv, NoEarlyLeave, Stopping
<1>8. QED  BY <1>1, <1>2, <1>3, <1>4, <1>5, <1>6, <1>7 DEF IndInv

-----------------------------------------------------------------------------
(* The results.                                                             *)

\* Every step of the scheduler preserves the inductive invariant.
THEOREM NextIndInv == IndInv /\ [Next]_vars => IndInv'
<1> SUFFICES ASSUME IndInv, [Next]_vars PROVE IndInv'
  OBVIOUS
<1>1. ASSUME NEW t \in Threads, Serve(t) PROVE IndInv'
  BY <1>1, ScanTakesStep, ScanFindsNoneStep, LockFiberStep, RunCbStep, UnlockStep, DecStep,
     BreakStep, EnterIdleStep, IdleStep, LeaveIdleStep DEF Serve
<1>2. ASSUME NEW t \in Threads, Body(t) PROVE IndInv'
  BY <1>2, TaskPostsStep, YieldStep, FinishStep DEF Body
<1>3. CASE StopProceeds  BY <1>3, ResumeRootStep, RootDoneStep, JoinStep DEF StopProceeds
<1>4. CASE UNCHANGED vars
  BY <1>4 DEF vars, IndInv, TypeOK, CountersExact, Count, TaskHeld, LockHeld, RunningMatches,
     CallbackOnce, OwnerOrder, NoEarlyLeave, Stopping
<1>5. CASE StopAgain  BY <1>4, <1>5 DEF StopAgain
<1>6. QED
  BY <1>1, <1>2, <1>3, <1>4, <1>5, MainPostsStep, StartStep, StopStep DEF Next

\* The inductive invariant holds throughout: counters, mutexes, fiber states and the
\* order of start() and stop() agree in every reachable state.
THEOREM SpecIndInv == Spec => []IndInv
BY InitIndInv, NextIndInv, PTL DEF Spec

\* The type invariant of the scheduler.
THEOREM SpecTypeOK == Spec => []TypeOK
<1>1. IndInv => TypeOK  BY DEF IndInv
<1>2. QED  BY <1>1, SpecIndInv, PTL

\* assert(m_state == READY) in Fiber::resume() holds, however many threads and
\* fibers there are and however often a fiber is posted.
THEOREM SpecResumeAssert == Spec => []ResumeAssert
<1>1. IndInv => ResumeAssert
  <2> SUFFICES ASSUME IndInv, NEW t \in Threads, pc[t] = "fiber", holder[task[t].fiber] = None
               PROVE  m_state[task[t].fiber] \in {"READY", "TERM"}
    BY DEF ResumeAssert
  <2>1. task[t].fiber \in Fibers  BY DEF IndInv, TaskHeld, Tasks, ActivePc
  <2>2. m_state[task[t].fiber] \in {"READY", "RUNNING", "TERM"}  BY DEF IndInv, CallbackOnce, ActivePc
  <2>3. m_state[task[t].fiber] # "RUNNING"
    BY <2>1, SchedulerAssumption DEF IndInv, RunningMatches, LockHeld
  <2>4. QED  BY <2>2, <2>3
<1>2. QED  BY <1>1, SpecIndInv, PTL

\* No two threads are ever inside the same fiber.
THEOREM SpecFiberOnOneThread == Spec => []FiberOnOneThread
<1>1. IndInv => FiberOnOneThread
  <2> SUFFICES ASSUME IndInv, NEW t \in Threads, NEW u \in Threads,
                      pc[t] = "body", pc[u] = "body", task[t].fiber = task[u].fiber
               PROVE  t = u
    BY DEF FiberOnOneThread
  <2>1. task[t].fiber \in Fibers  BY DEF IndInv, TaskHeld, Tasks, ActivePc
  <2>2. QED  BY <2>1 DEF IndInv, LockHeld
<1>2. QED  BY <1>1, SpecIndInv, PTL

\* assert(stopping() == true) in the destructor holds after stop().
THEOREM SpecStopDrains == Spec => []StopDrains
<1>1. IndInv => StopDrains
  <2> SUFFICES ASSUME IndInv, mainPc = "stopped"
               PROVE  /\ m_tasks = <<>> /\ m_activeThreadCount = 0
                      /\ \A t \in Threads : pc[t] = "exited"
    BY DEF StopDrains
  <2>1. \A t \in Threads : pc[t] = "exited"  BY DEF IndInv, OwnerOrder, Threads
  <2>2. PICK t \in Threads : TRUE  BY SchedulerAssumption
  <2>3. idleState[t] = "TERM"  BY <2>1 DEF IndInv, OwnerOrder
  <2>4. Stopping  BY <2>3 DEF IndInv, NoEarlyLeave
  <2>5. QED  BY <2>1, <2>4 DEF Stopping
<1>2. QED  BY <1>1, SpecIndInv, PTL

\* A thread leaves only when nothing is queued and nobody works.
THEOREM SpecNoEarlyLeave == Spec => []NoEarlyLeave
<1>1. IndInv => NoEarlyLeave  BY DEF IndInv
<1>2. QED  BY <1>1, SpecIndInv, PTL

\* In a quiescent scheduler no step can make stopping() false again.
LEMMA StoppingStays ==
  ASSUME IndInv, Stopping, [Next]_vars
  PROVE  Stopping'
<1>1. \A t \in Threads : pc[t] \notin ActivePc  BY NobodyActive DEF Stopping
<1>2. mainPc \notin {"new", "up"}  BY DEF Stopping, IndInv, OwnerOrder
<1>3. ASSUME NEW t \in Threads, Serve(t) PROVE Stopping'
  <2>1. ~ScanTakes(t)  BY DEF ScanTakes, Stopping
  <2>2. ~Dec(t)  BY <1>1 DEF Dec, ActivePc
  <2>3. QED
    BY <1>3, <2>1, <2>2 DEF Serve, Stopping, counters, ScanFindsNone, LockFiber, RunCb, Unlock, Break,
       EnterIdle, idle, LeaveIdle
<1>4. ASSUME NEW t \in Threads, Body(t) PROVE Stopping'
  BY <1>1, <1>4 DEF Body, TaskPosts, Yield, Finish, ActivePc
<1>5. CASE StopProceeds
  BY <1>5 DEF StopProceeds, ResumeRoot, RootDone, Join, Stopping, counters
<1>6. CASE UNCHANGED vars \/ StopAgain  BY <1>6 DEF StopAgain, vars, Stopping
<1>7. QED  BY <1>2, <1>3, <1>4, <1>5, <1>6 DEF Next, MainPosts, Start, Stop

\* Once stopping() is true, it is true for ever.
THEOREM SpecQuiesceStable == Spec => QuiesceStable
<1>1. IndInv /\ [Next]_vars => [Stopping => Stopping']_vars  BY StoppingStays
<1>2. QED  BY <1>1, SpecIndInv, PTL DEF Spec, QuiesceStable

-----------------------------------------------------------------------------
(* The scheduler implements the abstract pool.                              *)

\* A new scheduler is a new pool.
LEMMA PoolInitRefined == Init => AbstractPool!PoolInit
BY DEF Init, AbstractPool!PoolInit

\* Every step of the scheduler is a step of the pool or leaves it alone.
LEMMA PoolStepRefined ==
  ASSUME IndInv, [Next]_vars
  PROVE  [AbstractPool!PoolNext]_(AbstractPool!poolVars)
<1> DEFINE gone == {t \in Threads : idleState[t] = "TERM"}
<1> USE DEF AbstractPool!PoolNext, AbstractPool!poolVars
<1>1. ASSUME schedulerLock, ~m_stopping \/ \E t \in Threads : task[t] # NoTask,
             UNCHANGED <<task, m_stopping, idleState>>
      PROVE  AbstractPool!Submit
  BY <1>1 DEF schedulerLock, AbstractPool!Submit, Tasks
<1>2. CASE MainPosts
  BY <1>1, <1>2 DEF MainPosts, IndInv, OwnerOrder
<1>3. ASSUME NEW t \in Threads, TaskPosts(t) PROVE AbstractPool!Submit
  <2>1. task[t] # NoTask  BY <1>3, SchedulerAssumption DEF TaskPosts, IndInv, TaskHeld, ActivePc, Tasks, NoTask
  <2>2. QED  BY <1>1, <1>3, <2>1 DEF TaskPosts
<1>4. CASE Stop  BY <1>4 DEF Stop, AbstractPool!Close
<1>5. ASSUME NEW t \in Threads, ScanTakes(t) PROVE AbstractPool!Take(t)
  <2>1. task[t] = NoTask
    BY <1>5 DEF ScanTakes, IndInv, TypeOK, TaskHeld, ActivePc
  <2>2. t \notin gone
    BY <1>5 DEF ScanTakes, IndInv, NoEarlyLeave, Stopping
  <2>3. PICK i \in 1..Len(m_tasks) :
          /\ Eligible(t, m_tasks[i])
          /\ \A j \in 1..(i - 1) : ~Eligible(t, m_tasks[j])
          /\ task' = [task EXCEPT ![t] = m_tasks[i]]
          /\ m_tasks' = RemoveAt(m_tasks, i)
    BY <1>5, Zenon DEF ScanTakes
  <2>4. m_stopping' = m_stopping /\ gone' = gone  BY <1>5 DEF ScanTakes
  <2>5. RemoveAt(m_tasks, i) = AbstractPool!RemoveAt(m_tasks, i)
    BY DEF RemoveAt, AbstractPool!RemoveAt
  <2>6. QED  BY <2>1, <2>2, <2>3, <2>4, <2>5, Zenon DEF AbstractPool!Take
<1>6. ASSUME NEW t \in Threads, Dec(t) PROVE AbstractPool!GiveBack(t)
  <2>1. task[t] # NoTask  BY <1>6, SchedulerAssumption DEF Dec, IndInv, TaskHeld, ActivePc, Tasks, NoTask
  <2>2. QED  BY <1>6, <2>1 DEF Dec, AbstractPool!GiveBack
<1>7. ASSUME NEW t \in Threads, idle(t) PROVE AbstractPool!Leave(t) \/ UNCHANGED AbstractPool!poolVars
  <2>1. idleState[t] = "RUNNING"  BY <1>7 DEF idle, IndInv, OwnerOrder
  <2>2. CASE Stopping
    <3>1. gone' = gone \cup {t}  BY <1>7, <2>2 DEF idle, IndInv, TypeOK
    <3>2. AbstractPool!Drained  BY <2>2, NobodyActive DEF AbstractPool!Drained, Stopping
    <3>3. QED  BY <1>7, <3>1, <3>2 DEF idle, AbstractPool!Leave
  <2>3. CASE ~Stopping
    <3>1. gone' = gone  BY <1>7, <2>1, <2>3 DEF idle, IndInv, TypeOK
    <3>2. QED  BY <1>7, <3>1 DEF idle
  <2>4. QED  BY <2>2, <2>3
<1>8. ASSUME NEW t \in Threads, EnterIdle(t) PROVE UNCHANGED AbstractPool!poolVars
  <2>1. gone' = gone  BY <1>8 DEF EnterIdle, IndInv, TypeOK
  <2>2. QED  BY <1>8, <2>1 DEF EnterIdle
<1>9. ASSUME NEW t \in Threads, Serve(t) \/ Body(t)
      PROVE  AbstractPool!PoolNext \/ UNCHANGED AbstractPool!poolVars
  BY <1>3, <1>5, <1>6, <1>7, <1>8, <1>9 DEF Serve, Body, ScanFindsNone, LockFiber, RunCb, Unlock,
     Break, LeaveIdle, Yield, Finish
<1>10. CASE Start \/ StopProceeds \/ StopAgain \/ UNCHANGED vars
  BY <1>10 DEF Start, StopProceeds, ResumeRoot, RootDone, Join, StopAgain, vars
<1>11. QED  BY <1>2, <1>4, <1>9, <1>10 DEF Next

\* Every behaviour of the scheduler is a behaviour of the abstract pool.
THEOREM SchedulerImplementsPool == Spec => ImplementsPool
BY PoolInitRefined, PoolStepRefined, SpecIndInv, PTL DEF Spec, ImplementsPool, AbstractPool!PoolSpec
=============================================================================
