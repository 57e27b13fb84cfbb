---------------------------- MODULE ThreadProofs ----------------------------
(***************************************************************************)
(* Proofs about Thread.tla for a pool of any size.                         *)
(***************************************************************************)
EXTENDS Thread, TLAPS

-----------------------------------------------------------------------------
(* The inductive invariant, besides the properties it is made of.           *)

\* The threads start() has constructed, and those it has recorded: the loop of
\* start() takes them one after the other.
Recorded(w) ==
  \/ mainPc \in {"create", "threw", "wait", "record"} /\ w < i
  \/ mainPc \in {"started", "swap", "join", "stopped"}
Constructed(w) == Recorded(w) \/ (mainPc \in {"wait", "record"} /\ w = i)

LoopOrder ==
  /\ mainPc = "idle" => i = 1
  /\ mainPc \in {"wait", "record"} => i <= N
  /\ \A w \in Workers : workerPc[w] # "none" <=> Constructed(w)
  /\ \A w \in Workers : m_threadIds[w] # "none" <=> Recorded(w)

\* m_mutex is held exactly while start() runs, and keeps the workers out.
MutexHeld ==
  /\ locked <=> mainPc \in {"create", "wait", "record"}
  /\ (\E w \in Workers : workerPc[w] \in {"loop", "exited"}) => ~locked /\ mainPc # "idle"

\* A semaphore has been signalled once if its thread has, and decremented once if
\* start() has waited for it.
SemaphoreExact ==
  \A w \in Workers :
    count[w] = (IF workerPc[w] \in {"signalled", "loop", "exited"} THEN 1 ELSE 0)
               - (IF m_threadIds[w] # "none" \/ (mainPc = "record" /\ i = w) THEN 1 ELSE 0)

\* The inductive invariant.
IndInv == TypeOK /\ LoopOrder /\ MutexHeld /\ SemaphoreExact

-----------------------------------------------------------------------------
(* Proofs.                                                                  *)

\* Before start() nothing has been constructed, signalled or waited for.
LEMMA InitInv == Init => IndInv
<1> SUFFICES ASSUME Init PROVE IndInv
  OBVIOUS
<1>1. TypeOK
  <2>1. locked \in BOOLEAN /\ m_stopping \in BOOLEAN  BY DEF Init
  <2>2. i \in 1..(N + 1) /\ count \in [Workers -> {-1, 0, 1}]  BY NAssumption DEF Init
  <2>3. QED  BY <2>1, <2>2 DEF Init, TypeOK
<1>2. LoopOrder /\ MutexHeld /\ SemaphoreExact
  BY DEF Init, LoopOrder, Constructed, Recorded, MutexHeld, SemaphoreExact
<1>3. QED  BY <1>1, <1>2 DEF IndInv

\* Every step of start() keeps the invariant.
LEMMA StartingInv ==
  ASSUME IndInv, Starting
  PROVE  IndInv'
<1> USE NAssumption DEF Workers
<1>1. CASE Start
  <2>1. TypeOK'  BY <1>1 DEF IndInv, TypeOK, Start
  <2>2. LoopOrder'
    BY <1>1 DEF IndInv, TypeOK, LoopOrder, Constructed, Recorded, Start
  <2>3. MutexHeld'
    <3>1. \A w \in Workers : workerPc'[w] = "none"
      BY <1>1 DEF IndInv, LoopOrder, Constructed, Recorded, Start
    <3>2. locked' /\ mainPc' = "create"  BY <1>1 DEF Start
    <3>3. QED  BY <3>1, <3>2 DEF MutexHeld
  <2>4. SemaphoreExact'
    BY <1>1 DEF IndInv, TypeOK, SemaphoreExact, Start
  <2>5. QED  BY <2>1, <2>2, <2>3, <2>4 DEF IndInv
<1>2. CASE Create
  <2>1. TypeOK'  BY <1>2 DEF IndInv, TypeOK, Create
  <2>2. LoopOrder'
    BY <1>2 DEF IndInv, TypeOK, LoopOrder, Constructed, Recorded, Create
  <2>3. MutexHeld'
    BY <1>2 DEF IndInv, TypeOK, MutexHeld, Create
  <2>4. SemaphoreExact'
    <3>1. i \in Workers /\ workerPc[i] = "none"
      BY <1>2 DEF IndInv, TypeOK, LoopOrder, Constructed, Recorded, Create
    <3>2. QED  BY <1>2, <3>1 DEF IndInv, TypeOK, SemaphoreExact, Create
  <2>5. QED  BY <2>1, <2>2, <2>3, <2>4 DEF IndInv
<1>3. CASE CreateFails
  <2>1. TypeOK'
    <3>1. locked' \in BOOLEAN /\ m_stopping' \in BOOLEAN  BY <1>3 DEF IndInv, TypeOK, CreateFails
    <3>2. mainPc' = "threw" /\ UNCHANGED <<i, count, m_id, m_threadIds, m_thread, workerPc>>
      BY <1>3 DEF CreateFails
    <3>3. QED  BY <3>1, <3>2 DEF IndInv, TypeOK
  <2>2. LoopOrder' /\ MutexHeld' /\ SemaphoreExact'
    BY <1>3 DEF IndInv, TypeOK, LoopOrder, Constructed, Recorded, MutexHeld, SemaphoreExact, CreateFails
  <2>3. QED  BY <2>1, <2>2 DEF IndInv
<1>4. CASE wait
  <2>1. TypeOK'
    <3>1. i \in Workers  BY <1>4 DEF IndInv, TypeOK, LoopOrder, wait
    <3>2. QED  BY <1>4, <3>1 DEF IndInv, TypeOK, wait
  <2>2. LoopOrder' /\ MutexHeld'
    BY <1>4 DEF IndInv, TypeOK, LoopOrder, Constructed, Recorded, MutexHeld, wait
  <2>3. SemaphoreExact'
    <3>1. i \in Workers /\ m_threadIds[i] = "none"  BY <1>4 DEF IndInv, TypeOK, LoopOrder, Recorded, wait
    <3>2. QED  BY <1>4, <3>1 DEF IndInv, TypeOK, SemaphoreExact, wait
  <2>4. QED  BY <2>1, <2>2, <2>3 DEF IndInv
<1>5. CASE Record
  <2>1. i \in Workers  BY <1>5 DEF IndInv, TypeOK, LoopOrder, Record
  <2>2. TypeOK'  BY <1>5, <2>1 DEF IndInv, TypeOK, Record
  <2>3. LoopOrder' /\ MutexHeld'
    BY <1>5, <2>1 DEF IndInv, TypeOK, LoopOrder, Constructed, Recorded, MutexHeld, Record
  <2>4. SemaphoreExact'
    BY <1>5, <2>1 DEF IndInv, TypeOK, SemaphoreExact, Record
  <2>5. QED  BY <2>2, <2>3, <2>4 DEF IndInv
<1>6. CASE StartReturned
  <2>1. TypeOK'  BY <1>6 DEF IndInv, TypeOK, StartReturned
  <2>2. LoopOrder' /\ MutexHeld' /\ SemaphoreExact'
    BY <1>6 DEF IndInv, TypeOK, LoopOrder, Constructed, Recorded, MutexHeld, SemaphoreExact, StartReturned
  <2>3. QED  BY <2>1, <2>2 DEF IndInv
<1>7. QED  BY <1>1, <1>2, <1>3, <1>4, <1>5, <1>6 DEF Starting

\* Every step of stop() keeps the invariant.
LEMMA StoppingInv ==
  ASSUME IndInv, Stopping
  PROVE  IndInv'
<1> USE NAssumption DEF Workers
<1>1. CASE Stop \/ Swap \/ StopReturned
  <2>1. TypeOK'
    <3>1. locked' \in BOOLEAN /\ m_stopping' \in BOOLEAN  BY <1>1 DEF IndInv, TypeOK, Stop, Swap, StopReturned
    <3>2. QED  BY <1>1, <3>1 DEF IndInv, TypeOK, Stop, Swap, StopReturned
  <2>2. LoopOrder' /\ MutexHeld' /\ SemaphoreExact'
    BY <1>1 DEF IndInv, TypeOK, LoopOrder, Constructed, Recorded, MutexHeld, SemaphoreExact, Stop, Swap, StopReturned
  <2>3. QED  BY <2>1, <2>2 DEF IndInv
<1>2. CASE join
  <2>1. TypeOK'  BY <1>2 DEF IndInv, TypeOK, join
  <2>2. LoopOrder' /\ MutexHeld' /\ SemaphoreExact'
    BY <1>2 DEF IndInv, TypeOK, LoopOrder, Constructed, Recorded, MutexHeld, SemaphoreExact, join
  <2>3. QED  BY <2>1, <2>2 DEF IndInv
<1>3. QED  BY <1>1, <1>2 DEF Stopping

\* Every step of Thread::run() keeps the invariant.
LEMMA RunInv ==
  ASSUME IndInv, NEW w \in Workers, Run(w)
  PROVE  IndInv'
<1>1. workerPc[w] # "none" /\ UNCHANGED <<mainPc, i, locked, m_stopping, m_threadIds, m_thread>>
  BY DEF Run, WriteId, signal, EnterLoop, Exit
<1>2. PICK p \in {"named", "signalled", "loop", "exited"} : workerPc' = [workerPc EXCEPT ![w] = p]
  BY DEF Run, WriteId, signal, EnterLoop, Exit
<1>3. LoopOrder'
  BY <1>1, <1>2 DEF IndInv, TypeOK, LoopOrder, Constructed, Recorded
<1>4. MutexHeld'
  <2>1. mainPc # "idle"  BY <1>1 DEF IndInv, LoopOrder, Constructed, Recorded
  <2>2. CASE EnterLoop(w)  BY <1>1, <2>1, <2>2 DEF IndInv, TypeOK, MutexHeld, EnterLoop
  <2>3. CASE Exit(w)  BY <1>1, <2>1, <2>3 DEF IndInv, TypeOK, MutexHeld, Exit
  <2>4. CASE WriteId(w) \/ signal(w)
    BY <1>1, <2>1, <2>4 DEF IndInv, TypeOK, MutexHeld, WriteId, signal
  <2>5. QED  BY <2>2, <2>3, <2>4 DEF Run
<1>5. SemaphoreExact'
  <2>1. CASE signal(w)  BY <1>1, <2>1 DEF IndInv, TypeOK, SemaphoreExact, signal
  <2>2. CASE WriteId(w) \/ EnterLoop(w) \/ Exit(w)
    BY <1>1, <2>2 DEF IndInv, TypeOK, SemaphoreExact, WriteId, EnterLoop, Exit
  <2>3. QED  BY <2>1, <2>2 DEF Run
<1>6. TypeOK'
  <2>1. CASE signal(w)
    <3>1. count[w] \in {-1, 0}  BY <2>1 DEF IndInv, TypeOK, SemaphoreExact, signal
    <3>2. QED  BY <1>1, <1>2, <2>1, <3>1 DEF IndInv, TypeOK, signal
  <2>2. CASE WriteId(w) \/ EnterLoop(w) \/ Exit(w)
    BY <1>1, <1>2, <2>2 DEF IndInv, TypeOK, WriteId, EnterLoop, Exit
  <2>3. QED  BY <2>1, <2>2 DEF Run
<1>7. QED  BY <1>3, <1>4, <1>5, <1>6 DEF IndInv

\* The inductive invariant of start(), stop() and the thread function.
THEOREM SpecIndInv == Spec => []IndInv
<1>1. Init => IndInv  BY InitInv
<1>2. IndInv /\ [Next]_vars => IndInv'
  <2> SUFFICES ASSUME IndInv, [Next]_vars PROVE IndInv'
    OBVIOUS
  <2>1. CASE Next  BY <2>1, StartingInv, StoppingInv, RunInv DEF Next
  <2>2. CASE UNCHANGED vars
    BY <2>2 DEF vars, IndInv, TypeOK, LoopOrder, Constructed, Recorded, MutexHeld, SemaphoreExact
  <2>3. QED  BY <2>1, <2>2
<1>3. QED  BY <1>1, <1>2, PTL DEF Spec

\* Because start() holds m_mutex until every Thread is constructed and recorded, a
\* worker that has taken the mutex finds them all there, or start() threw.
THEOREM SpecLoopAfterStart == Spec => []LoopAfterStart
<1>1. IndInv => LoopAfterStart
  <2> SUFFICES ASSUME IndInv, \E w \in Workers : workerPc[w] \in {"loop", "exited"}, mainPc # "threw"
               PROVE  \A w \in Workers : workerPc[w] # "none" /\ m_threadIds[w] # "none"
    BY DEF LoopAfterStart
  <2>1. mainPc \in {"started", "swap", "join", "stopped"}
    BY DEF IndInv, TypeOK, MutexHeld
  <2>2. QED  BY <2>1 DEF IndInv, LoopOrder, Constructed, Recorded
<1>2. QED  BY <1>1, SpecIndInv, PTL
=============================================================================
