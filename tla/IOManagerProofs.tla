--------------------------- MODULE IOManagerProofs ---------------------------
(***************************************************************************)
(* Proofs about IOManager.tla for every pool, with and without the owner's *)
(* thread, any set of events, any capacity of the pipe and any bound.      *)
(***************************************************************************)
EXTENDS IOManager, TLAPS, FiniteSetTheorems

-----------------------------------------------------------------------------
(* The inductive invariant, besides the properties it is made of.           *)

\* The places in idle() where m_idleThreadCount counts a thread.
IdlePc == {"stop1", "stop2", "stop3", "next", "wait", "expire", "post", "postTickle",
           "dispatch", "dispatchTickle", "dispatchDec", "idleDec"}

\* The atomic counters of the base class are the numbers of threads they stand for.
CountersExact == m_activeThreadCount = CountAt(ActivePc) /\ m_idleThreadCount = CountAt(IdlePc)

\* A thread has callbacks only while it posts them, and reports only from
\* epoll_wait to the end of the loop over them.
LocalsEmpty ==
  \A t \in Threads :
    /\ pc[t] \notin {"post", "postTickle"} => cbs[t] = 0
    /\ pc[t] \notin {"expire", "post", "postTickle", "dispatch", "dispatchTickle", "dispatchDec"} => evs[t] = <<>>

\* How far the owner is says whether m_stopping is set, whether the owner's
\* own thread takes part, and who has left.
OwnerOrder ==
  /\ m_stopping <=> mainPc \notin {"up", "upTickle"}
  /\ \A t \in Threads : pc[t] = "off" <=> t = Root /\ mainPc \in {"up", "upTickle", "tickling"}
  /\ mainPc = "inRun" => UseCaller
  /\ mainPc \in {"join", "stopped"} /\ UseCaller => pc[Root] = "exited"
  /\ mainPc = "stopped" => \A t \in Pool : pc[t] = "exited"

\* A thread leaves after its idle fiber has ended, which it does after stop().
LeaversDone ==
  \A t \in Threads : (pc[t] = "exited" => idleDone[t]) /\ (idleDone[t] => m_stopping)

\* The threads that will not look at the queue again; the last of them to look
\* found it empty.
Gone(t) == pc[t] = "exited" \/ (pc[t] = "noTask" /\ idleDone[t])
LastLook == (\A t \in Threads : Gone(t)) => m_tasks = 0

\* The inductive invariant.
IndInv ==
  /\ PendingExact /\ CountersExact /\ WorkConserved /\ PipeAttended
  /\ LocalsEmpty /\ OwnerOrder /\ LeaversDone /\ LastLook

-----------------------------------------------------------------------------
(* Counting.                                                                *)

\* Two subsets of a finite set that differ at most in t.
LEMMA OneMoves ==
  ASSUME NEW T, IsFiniteSet(T), NEW A \in SUBSET T, NEW B \in SUBSET T, NEW t \in T,
         \A u \in T \ {t} : u \in A <=> u \in B
  PROVE  /\ Cardinality(A) \in Nat /\ Cardinality(B) \in Nat
         /\ (t \in A <=> t \in B) => Cardinality(B) = Cardinality(A)
         /\ t \notin A /\ t \in B => Cardinality(B) = Cardinality(A) + 1
         /\ t \in A /\ t \notin B => Cardinality(B) = Cardinality(A) - 1
<1>1. IsFiniteSet(A) /\ IsFiniteSet(B)  BY FS_Subset
<1>2. Cardinality(A) \in Nat /\ Cardinality(B) \in Nat  BY <1>1, FS_CardinalityType
<1>3. (t \in A <=> t \in B) => A = B  OBVIOUS
<1>4. t \notin A /\ t \in B => B = A \cup {t}  OBVIOUS
<1>5. t \in A /\ t \notin B => B = A \ {t}  OBVIOUS
<1>6. Cardinality(A \cup {t}) = (IF t \in A THEN Cardinality(A) ELSE Cardinality(A) + 1)  BY <1>1, FS_AddElement
<1>7. Cardinality(A \ {t}) = (IF t \in A THEN Cardinality(A) - 1 ELSE Cardinality(A))  BY <1>1, FS_RemoveElement
<1>8. QED  BY <1>2, <1>3, <1>4, <1>5, <1>6, <1>7

\* The threads are finite in number.
LEMMA ThreadsFinite ==
  ASSUME TypeOK
  PROVE  IsFiniteSet(Threads)
<1>1. Threads \in SUBSET (PoolThreads \cup {Root})
  BY IOManagerAssumption DEF TypeOK, Threads, Pool, UseCaller
<1>2. IsFiniteSet(PoolThreads \cup {Root})  BY IOManagerAssumption, FS_AddElement
<1>3. QED  BY <1>1, <1>2, FS_Subset

\* The constructor's arguments stay, and so do the threads that may take part.
LEMMA ThreadsKept ==
  ASSUME config' = config
  PROVE  Threads' = Threads /\ Pool' = Pool /\ UseCaller' = UseCaller
BY DEF Threads, Pool, UseCaller

\* What a thread's step from one place to another does to the number of threads
\* at some places.
LEMMA CountMoves ==
  ASSUME TypeOK, config' = config, NEW t \in Threads, NEW p, pc' = [pc EXCEPT ![t] = p], NEW X
  PROVE  /\ CountAt(X) \in Nat /\ CountAt(X)' \in Nat
         /\ (pc[t] \in X <=> p \in X) => CountAt(X)' = CountAt(X)
         /\ pc[t] \notin X /\ p \in X => CountAt(X)' = CountAt(X) + 1
         /\ pc[t] \in X /\ p \notin X => CountAt(X)' = CountAt(X) - 1
<1>1. IsFiniteSet(Threads) /\ Threads' = Threads  BY ThreadsFinite, ThreadsKept
<1>2. (\A u \in Threads \ {t} : pc'[u] = pc[u]) /\ pc'[t] = p  BY DEF TypeOK
<1>3. /\ CountAt(X) = Cardinality({u \in Threads : pc[u] \in X})
      /\ CountAt(X)' = Cardinality({u \in Threads : pc'[u] \in X})
  BY <1>1 DEF CountAt
<1> DEFINE A == {u \in Threads : pc[u] \in X}
           B == {u \in Threads : pc'[u] \in X}
<1>4. /\ A \in SUBSET Threads /\ B \in SUBSET Threads
      /\ \A u \in Threads \ {t} : u \in A <=> u \in B
      /\ (t \in A <=> pc[t] \in X) /\ (t \in B <=> p \in X)
  BY <1>2
<1>5. CountAt(X) = Cardinality(A) /\ CountAt(X)' = Cardinality(B)  BY <1>3
<1> HIDE DEF A, B
<1>6. QED  BY <1>1, <1>4, <1>5, OneMoves

\* The same when no thread moves.
LEMMA CountStays ==
  ASSUME TypeOK, config' = config, pc' = pc, NEW X
  PROVE  CountAt(X) \in Nat /\ CountAt(X)' = CountAt(X)
<1>1. IsFiniteSet(Threads) /\ Threads' = Threads  BY ThreadsFinite, ThreadsKept
<1>2. {u \in Threads : pc[u] \in X} \in SUBSET Threads  OBVIOUS
<1>3. Cardinality({u \in Threads : pc[u] \in X}) \in Nat  BY <1>1, <1>2, FS_Subset, FS_CardinalityType
<1>4. QED  BY <1>1, <1>3 DEF CountAt

\* A thread at one of these places makes the number of such threads positive.
LEMMA CountPositive ==
  ASSUME TypeOK, NEW t \in Threads, NEW X, pc[t] \in X
  PROVE  CountAt(X) \in Nat \ {0}
<1> DEFINE A == {u \in Threads : pc[u] \in X}
<1>1. A \in SUBSET Threads /\ A # {}  OBVIOUS
<1>2. IsFiniteSet(A)  BY <1>1, ThreadsFinite, FS_Subset
<1> HIDE DEF A
<1>3. Cardinality(A) \in Nat /\ Cardinality(A) # 0  BY <1>1, <1>2, FS_CardinalityType, FS_EmptySet
<1>4. QED  BY <1>3 DEF CountAt, A

\* One event is registered or forgotten.
LEMMA RegisteredMoves ==
  ASSUME TypeOK, NEW e \in Events, NEW s \in {"none", "armed", "ready", "reported"},
         event' = [event EXCEPT ![e] = s]
  PROVE  /\ Cardinality(Registered) \in Nat
         /\ (event[e] = "none" <=> s = "none") => Cardinality(Registered') = Cardinality(Registered)
         /\ event[e] = "none" /\ s # "none" => Cardinality(Registered') = Cardinality(Registered) + 1
         /\ event[e] # "none" /\ s = "none" =>
              Cardinality(Registered) > 0 /\ Cardinality(Registered') = Cardinality(Registered) - 1
<1>1. IsFiniteSet(Events)  BY IOManagerAssumption
<1>2. /\ Registered \in SUBSET Events /\ Registered' \in SUBSET Events
      /\ \A d \in Events \ {e} : d \in Registered <=> d \in Registered'
      /\ (e \in Registered <=> event[e] # "none") /\ (e \in Registered' <=> s # "none")
  BY DEF TypeOK, Registered
<1>3. /\ Cardinality(Registered) \in Nat /\ Cardinality(Registered') \in Nat
      /\ (e \in Registered <=> e \in Registered') => Cardinality(Registered') = Cardinality(Registered)
      /\ e \notin Registered /\ e \in Registered' => Cardinality(Registered') = Cardinality(Registered) + 1
      /\ e \in Registered /\ e \notin Registered' => Cardinality(Registered') = Cardinality(Registered) - 1
  BY <1>1, <1>2, OneMoves
<1>4. QED  BY <1>2, <1>3

\* The registered events are finite in number.
LEMMA RegisteredCount == Cardinality(Registered) \in Nat
<1>1. Registered \in SUBSET Events  BY DEF Registered
<1>2. QED  BY <1>1, IOManagerAssumption, FS_Subset, FS_CardinalityType

\* The callbacks that the threads of T have collected: replacing the share of one
\* thread changes the total by the difference.
LEMMA SharesCounted ==
  ASSUME NEW T, IsFiniteSet(T), NEW f \in [T -> Nat], NEW t \in T, NEW n \in Nat
  PROVE  LET All(h) == UNION {{u} \X (1..h[u]) : u \in T}
             g == [f EXCEPT ![t] = n]
         IN  /\ Cardinality(All(f)) \in Nat
             /\ Cardinality(All(g)) = Cardinality(All(f)) - f[t] + n
<1> DEFINE g == [f EXCEPT ![t] = n]
           Share(h, u) == {u} \X (1..h[u])
           All(h) == UNION {{u} \X (1..h[u]) : u \in T}
           Others == UNION {{u} \X (1..f[u]) : u \in T \ {t}}
<1>1. ASSUME NEW h \in [T -> Nat], NEW u \in T
      PROVE  IsFiniteSet(Share(h, u)) /\ Cardinality(Share(h, u)) = h[u]
  <2>1. IsFiniteSet(1..h[u]) /\ Cardinality(1..h[u]) = h[u]
    <3>1. h[u] \in Nat  OBVIOUS
    <3>2. QED  BY <3>1, FS_Interval
  <2>2. IsFiniteSet({u}) /\ Cardinality({u}) = 1  BY FS_Singleton
  <2>3. IsFiniteSet({u} \X (1..h[u])) /\ Cardinality({u} \X (1..h[u])) = Cardinality({u}) * Cardinality(1..h[u])
    BY <2>1, <2>2, FS_Product
  <2>4. QED  BY <2>1, <2>2, <2>3
<1>2. IsFiniteSet(Others)
  <2> DEFINE F == [u \in T \ {t} |-> {u} \X (1..f[u])]
             R == {{u} \X (1..f[u]) : u \in T \ {t}}
  <2>1. IsFiniteSet(T \ {t})  BY FS_RemoveElement
  <2>2. F \in Surjection(T \ {t}, R)  BY DEF Surjection
  <2>3. IsFiniteSet(R)
    <3> HIDE DEF F, R
    <3>1. QED  BY <2>1, <2>2, FS_Surjection
  <2>4. \A S \in R : IsFiniteSet(S)  BY <1>1
  <2> HIDE DEF R
  <2>5. IsFiniteSet(UNION R)  BY <2>3, <2>4, FS_UNION
  <2>6. QED  BY <2>5 DEF R
<1>3. g \in [T -> Nat] /\ g[t] = n /\ \A u \in T \ {t} : g[u] = f[u]  OBVIOUS
<1>4. ASSUME NEW h \in [T -> Nat], \A u \in T \ {t} : h[u] = f[u]
      PROVE  /\ All(h) = Others \cup Share(h, t)
             /\ Cardinality(All(h)) = Cardinality(Others) + h[t]
  <2>1. All(h) = Others \cup Share(h, t)  BY <1>4
  <2>2. Others \cap Share(h, t) = {}  OBVIOUS
  <2>3. IsFiniteSet(Share(h, t)) /\ Cardinality(Share(h, t)) = h[t]  BY <1>1
  <2> HIDE DEF Others, Share, All
  <2>4. Cardinality(Others \cup Share(h, t))
          = Cardinality(Others) + Cardinality(Share(h, t)) - Cardinality(Others \cap Share(h, t))
    BY <1>2, <2>3, FS_Union
  <2>5. Cardinality(Others \cap Share(h, t)) = 0  BY <2>2, FS_EmptySet
  <2>6. Cardinality(Others) \in Nat  BY <1>2, FS_CardinalityType
  <2>7. h[t] \in Nat  OBVIOUS
  <2>8. QED  BY <2>1, <2>3, <2>4, <2>5, <2>6, <2>7
<1> HIDE DEF Others, All, g
<1>5. Cardinality(Others) \in Nat  BY <1>2, FS_CardinalityType
<1>6. Cardinality(All(f)) = Cardinality(Others) + f[t]  BY <1>4
<1>7. Cardinality(All(g)) = Cardinality(Others) + n  BY <1>3, <1>4
<1>8. f[t] \in Nat  OBVIOUS
<1>9. Cardinality(All(f)) \in Nat /\ Cardinality(All(g)) = Cardinality(All(f)) - f[t] + n
  BY <1>5, <1>6, <1>7, <1>8
<1>10. QED  BY <1>9 DEF All, g

\* The callbacks that have been collected are finite in number.
LEMMA SharesNat ==
  ASSUME NEW T, IsFiniteSet(T), NEW f \in [T -> Nat], NEW t \in T
  PROVE  Cardinality(UNION {{u} \X (1..f[u]) : u \in T}) \in Nat
<1>1. ASSUME NEW n \in Nat
      PROVE  /\ Cardinality(UNION {{u} \X (1..f[u]) : u \in T}) \in Nat
             /\ Cardinality(UNION {{u} \X (1..[f EXCEPT ![t] = n][u]) : u \in T})
                  = Cardinality(UNION {{u} \X (1..f[u]) : u \in T}) - f[t] + n
  BY SharesCounted
<1>2. 0 \in Nat  OBVIOUS
<1>3. QED  BY <1>1, <1>2

\* The same for the variable cbs.
LEMMA CollectedMoves ==
  ASSUME TypeOK, config' = config, NEW t \in Threads, NEW n \in Nat, cbs' = [cbs EXCEPT ![t] = n]
  PROVE  /\ Cardinality(Collected) \in Nat
         /\ Cardinality(Collected') = Cardinality(Collected) - cbs[t] + n
<1>1. IsFiniteSet(Threads) /\ Threads' = Threads  BY ThreadsFinite, ThreadsKept
<1>2. cbs \in [Threads -> Nat]  BY DEF TypeOK
<1>3. Collected' = UNION {{u} \X (1..[cbs EXCEPT ![t] = n][u]) : u \in Threads}  BY <1>1 DEF Collected
<1>4. QED  BY <1>1, <1>2, <1>3, SharesCounted DEF Collected

\* What the callbacks and the registrations are counted by does not change if cbs
\* and event do not.
LEMMA CollectedKept ==
  ASSUME config' = config, cbs' = cbs
  PROVE  Collected' = Collected
BY ThreadsKept DEF Collected

LEMMA RegisteredKept ==
  ASSUME event' = event
  PROVE  Registered' = Registered
BY DEF Registered

-----------------------------------------------------------------------------
(* The shape of a step.                                                     *)

\* The types of the variables that a thread's step may change, counters apart.
SharedTypes ==
  /\ m_tasks \in Nat /\ armed \in Nat /\ due \in Nat /\ tied \in Nat /\ m_tickled \in BOOLEAN
  /\ event \in [Events -> {"none", "armed", "ready", "reported"}]
  /\ held \in [Threads -> SUBSET Events] /\ wants \in [Threads -> SUBSET Events]
  /\ bytes \in 0..PipeCapacity /\ edge \in BOOLEAN /\ blocked \in SUBSET (Threads \cup {Root})
  /\ cbs \in [Threads -> Nat]
  /\ evs \in [Threads -> Seq(Events \cup {Pipe})]
  /\ idleDone \in [Threads -> BOOLEAN]
  /\ work \in Nat /\ done \in Nat

\* Work that is not in a thread's hands; a thread's share of a count.
Elsewhere == done + m_tasks + armed + due + tied + Cardinality(Collected) + Cardinality(Registered)
Ind(place, X) == IF place \in X THEN 1 ELSE 0

LEMMA SharedTypesHold ==
  ASSUME TypeOK
  PROVE  SharedTypes
BY DEF TypeOK, SharedTypes

\* The number of threads at some places, after thread t has gone to p.
LEMMA IndMoves ==
  ASSUME TypeOK, config' = config, NEW t \in Threads, NEW p, pc' = [pc EXCEPT ![t] = p], NEW X
  PROVE  /\ CountAt(X) \in Nat /\ CountAt(X)' \in Nat
         /\ CountAt(X)' = CountAt(X) + Ind(p, X) - Ind(pc[t], X)
<1>1. /\ CountAt(X) \in Nat /\ CountAt(X)' \in Nat
      /\ (pc[t] \in X <=> p \in X) => CountAt(X)' = CountAt(X)
      /\ pc[t] \notin X /\ p \in X => CountAt(X)' = CountAt(X) + 1
      /\ pc[t] \in X /\ p \notin X => CountAt(X)' = CountAt(X) - 1
  BY CountMoves
<1>2. QED  BY <1>1 DEF Ind

\* There is a thread: the owner's or one of the pool.
LEMMA SomeThread ==
  ASSUME TypeOK
  PROVE  Threads # {}
BY IOManagerAssumption DEF TypeOK, Threads, Pool, UseCaller

\* The balance of the work after thread t has gone to p.
LEMMA BalanceMoves ==
  ASSUME NEW t, NEW p,
         Elsewhere \in Nat, Elsewhere' \in Nat, CountAt(RunningPc) \in Nat, CountAt(CancellingPc) \in Nat,
         Ind(p, RunningPc) \in Nat, Ind(pc[t], RunningPc) \in Nat,
         Ind(p, CancellingPc) \in Nat, Ind(pc[t], CancellingPc) \in Nat,
         work = Elsewhere + CountAt(RunningPc) + CountAt(CancellingPc),
         CountAt(RunningPc)' = CountAt(RunningPc) + Ind(p, RunningPc) - Ind(pc[t], RunningPc),
         CountAt(CancellingPc)' = CountAt(CancellingPc) + Ind(p, CancellingPc) - Ind(pc[t], CancellingPc),
         work' = work + (Elsewhere' + Ind(p, RunningPc) + Ind(p, CancellingPc))
                      - (Elsewhere + Ind(pc[t], RunningPc) + Ind(pc[t], CancellingPc))
  PROVE  work' = Elsewhere' + CountAt(RunningPc)' + CountAt(CancellingPc)'
OBVIOUS

\* A step in which thread t goes to p and the counters, the work and the pipe
\* change as that requires keeps the invariant.
LEMMA ThreadStep ==
  ASSUME IndInv, config' = config, NEW t \in Threads, NEW p \in PcNames \ {"off"},
         pc[t] \notin {"off", "exited"}, pc' = [pc EXCEPT ![t] = p],
         SharedTypes', UNCHANGED <<m_stopping, mainPc, stopTickles>>,
         m_activeThreadCount' = m_activeThreadCount + Ind(p, ActivePc) - Ind(pc[t], ActivePc),
         m_idleThreadCount' = m_idleThreadCount + Ind(p, IdlePc) - Ind(pc[t], IdlePc),
         m_pendingEvenCount' = m_pendingEvenCount + (Cardinality(Registered') + Ind(p, TriggeringPc))
                                                  - (Cardinality(Registered) + Ind(pc[t], TriggeringPc)),
         work' = work + (Elsewhere' + Ind(p, RunningPc) + Ind(p, CancellingPc))
                      - (Elsewhere + Ind(pc[t], RunningPc) + Ind(pc[t], CancellingPc)),
         PipeAttended',
         \A u \in Threads \ {t} : cbs'[u] = cbs[u] /\ evs'[u] = evs[u] /\ idleDone'[u] = idleDone[u],
         p \notin {"post", "postTickle"} => cbs'[t] = 0,
         p \notin {"expire", "post", "postTickle", "dispatch", "dispatchTickle", "dispatchDec"} => evs'[t] = <<>>,
         p = "exited" => idleDone'[t], idleDone'[t] => m_stopping,
         m_tasks' = 0 \/ ~Gone(t)' \/ (Gone(t) /\ m_tasks' = m_tasks)
  PROVE  IndInv'
<1>1. TypeOK  BY DEF IndInv, PendingExact
<1>2. Threads' = Threads /\ Pool' = Pool /\ UseCaller' = UseCaller  BY ThreadsKept
<1>3. \A X : /\ CountAt(X) \in Nat /\ CountAt(X)' \in Nat
             /\ CountAt(X)' = CountAt(X) + Ind(p, X) - Ind(pc[t], X)
  BY <1>1, IndMoves
<1>4. pc'[t] = p /\ \A u \in Threads \ {t} : pc'[u] = pc[u]  BY <1>1 DEF TypeOK
<1>5. CountersExact'
  <2>1. m_activeThreadCount' = CountAt(ActivePc)'  BY <1>3 DEF IndInv, CountersExact
  <2>2. m_idleThreadCount' = CountAt(IdlePc)'  BY <1>3 DEF IndInv, CountersExact
  <2>3. QED  BY <2>1, <2>2 DEF CountersExact
<1>6. Cardinality(Registered) \in Nat /\ Cardinality(Registered') \in Nat
  <2>1. Cardinality(Registered) \in Nat  BY RegisteredCount
  <2>2. Registered' \in SUBSET Events  BY DEF Registered
  <2>3. QED  BY <2>1, <2>2, IOManagerAssumption, FS_Subset, FS_CardinalityType
<1>7. m_pendingEvenCount' = Cardinality(Registered') + CountAt(TriggeringPc)'
  <2>1. m_pendingEvenCount = Cardinality(Registered) + CountAt(TriggeringPc)  BY DEF IndInv, PendingExact
  <2>2. CountAt(TriggeringPc)' = CountAt(TriggeringPc) + Ind(p, TriggeringPc) - Ind(pc[t], TriggeringPc)
    BY <1>3
  <2>3. Ind(p, TriggeringPc) \in Nat /\ Ind(pc[t], TriggeringPc) \in Nat  BY DEF Ind
  <2>4. QED  BY <1>3, <1>6, <2>1, <2>2, <2>3
<1>8. TypeOK'
  <2>1. m_activeThreadCount' \in Nat /\ m_idleThreadCount' \in Nat /\ m_pendingEvenCount' \in Nat
    BY <1>3, <1>5, <1>6, <1>7 DEF CountersExact
  <2>2. config' \in Configs /\ m_stopping' \in BOOLEAN /\ mainPc' \in MainPcNames /\ stopTickles' \in Nat
    BY <1>1 DEF TypeOK
  <2>3. pc' \in [Threads' -> PcNames]  BY <1>1, <1>2 DEF TypeOK
  <2>4. QED  BY <2>1, <2>2, <2>3 DEF TypeOK, SharedTypes
<1>9. PendingExact'  BY <1>7, <1>8 DEF PendingExact
<1>10. WorkConserved'
  <2>1. work = Elsewhere + CountAt(RunningPc) + CountAt(CancellingPc)
    BY DEF IndInv, WorkConserved, Elsewhere
  <2>2. /\ CountAt(RunningPc)' = CountAt(RunningPc) + Ind(p, RunningPc) - Ind(pc[t], RunningPc)
        /\ CountAt(CancellingPc)' = CountAt(CancellingPc) + Ind(p, CancellingPc) - Ind(pc[t], CancellingPc)
        /\ CountAt(RunningPc) \in Nat /\ CountAt(CancellingPc) \in Nat
    BY <1>3
  <2>3. /\ Ind(p, RunningPc) \in Nat /\ Ind(pc[t], RunningPc) \in Nat
        /\ Ind(p, CancellingPc) \in Nat /\ Ind(pc[t], CancellingPc) \in Nat
    BY DEF Ind
  <2>4. Elsewhere \in Nat /\ Elsewhere' \in Nat
    <3>1. Cardinality(Collected) \in Nat
      <4>1. IsFiniteSet(Threads) /\ cbs \in [Threads -> Nat]  BY <1>1, ThreadsFinite DEF TypeOK
      <4>2. QED  BY <4>1, SharesNat DEF Collected
    <3>2. Cardinality(Collected') \in Nat
      <4>1. cbs' \in [Threads -> Nat]  BY <1>2 DEF SharedTypes
      <4>2. Collected' = UNION {{u} \X (1..cbs'[u]) : u \in Threads}  BY <1>2 DEF Collected
      <4>3. IsFiniteSet(Threads)  BY <1>1, ThreadsFinite
      <4>4. QED  BY <4>1, <4>2, <4>3, SharesNat
    <3>3. m_tasks \in Nat /\ armed \in Nat /\ due \in Nat /\ tied \in Nat /\ done \in Nat  BY <1>1 DEF TypeOK
    <3>4. m_tasks' \in Nat /\ armed' \in Nat /\ due' \in Nat /\ tied' \in Nat /\ done' \in Nat  BY DEF SharedTypes
    <3>5. Elsewhere \in Nat  BY <1>6, <3>1, <3>3 DEF Elsewhere
    <3>6. \A a, b, c, d, e, f, g \in Nat : a + b + c + d + e + f + g \in Nat  OBVIOUS
    <3>7. Elsewhere' = done' + m_tasks' + armed' + due' + tied' + Cardinality(Collected') + Cardinality(Registered')
      BY DEF Elsewhere
    <3>8. Elsewhere' \in Nat  BY <1>6, <3>2, <3>4, <3>6, <3>7, Zenon
    <3>9. QED  BY <3>5, <3>8
  <2>5. work' = Elsewhere' + CountAt(RunningPc)' + CountAt(CancellingPc)'
    BY <2>1, <2>2, <2>3, <2>4, BalanceMoves, Zenon
  <2>6. QED  BY <2>5 DEF WorkConserved, Elsewhere
<1>11. LocalsEmpty'  BY <1>2, <1>4 DEF IndInv, LocalsEmpty
<1>12. OwnerOrder'
  <2>1. \A u \in Threads : pc'[u] = "off" <=> u = Root /\ mainPc' \in {"up", "upTickle", "tickling"}
    BY <1>4 DEF IndInv, OwnerOrder
  <2>2. mainPc' \in {"join", "stopped"} /\ UseCaller' => pc'[Root] = "exited"
    <3>1. UseCaller => Root \in Threads  BY DEF Threads
    <3>2. QED  BY <1>2, <1>4, <3>1 DEF IndInv, OwnerOrder
  <2>3. mainPc' = "stopped" => \A u \in Pool' : pc'[u] = "exited"
    <3>1. Pool \subseteq Threads  BY DEF Threads
    <3>2. QED  BY <1>2, <1>4, <3>1 DEF IndInv, OwnerOrder
  <2>4. QED  BY <1>2, <2>1, <2>2, <2>3 DEF IndInv, OwnerOrder
<1>13. LeaversDone'  BY <1>2, <1>4 DEF IndInv, LeaversDone
<1>14. LastLook'
  <2> SUFFICES ASSUME \A u \in Threads : Gone(u)' PROVE m_tasks' = 0
    BY <1>2 DEF LastLook
  <2>1. CASE m_tasks' = 0  BY <2>1
  <2>2. CASE Gone(t) /\ m_tasks' = m_tasks
    <3>1. \A u \in Threads : Gone(u)  BY <1>4, <2>2 DEF Gone
    <3>2. QED  BY <2>2, <3>1 DEF IndInv, LastLook
  <2>3. QED  BY <2>1, <2>2
<1>15. QED  BY <1>5, <1>9, <1>10, <1>11, <1>12, <1>13, <1>14 DEF IndInv

\* What every step starts from.
LEMMA Known ==
  ASSUME IndInv
  PROVE  /\ TypeOK /\ SharedTypes /\ PipeAttended /\ LocalsEmpty /\ LeaversDone
         /\ Cardinality(Registered) \in Nat /\ Cardinality(Collected) \in Nat /\ Elsewhere \in Nat
<1>1. TypeOK /\ PipeAttended /\ LocalsEmpty /\ LeaversDone  BY DEF IndInv, PendingExact
<1>2. PICK t : t \in Threads  BY <1>1, SomeThread
<1>3. IsFiniteSet(Threads) /\ cbs \in [Threads -> Nat]  BY <1>1, ThreadsFinite DEF TypeOK
<1>4. Cardinality(Collected) \in Nat  BY <1>2, <1>3, SharesNat DEF Collected
<1>5. Cardinality(Registered) \in Nat  BY RegisteredCount
<1>6. Elsewhere \in Nat  BY <1>1, <1>4, <1>5 DEF Elsewhere, TypeOK
<1>7. QED  BY <1>1, <1>4, <1>5, <1>6, SharedTypesHold

\* What epoll_wait has filled in is an array of what was to be reported, complete.
LEMMA ArrayFacts ==
  ASSUME NEW s \in Arrays(Reports)
  PROVE  s \in Seq(Events \cup {Pipe}) /\ Reports \subseteq Holds(s)
<1>1. Reports \in SUBSET (Events \cup {Pipe})  BY DEF Reports
<1>2. IsFiniteSet(Events \cup {Pipe})  BY IOManagerAssumption, FS_AddElement
<1>3. IsFiniteSet(Reports)  BY <1>1, <1>2, FS_Subset
<1>4. Cardinality(Reports) \in Nat  BY <1>3, FS_CardinalityType
<1> DEFINE n == Cardinality(Reports)
<1>5. s \in [1..n -> Reports] /\ \A e \in Reports : \E i \in DOMAIN s : s[i] = e  BY DEF Arrays
<1>6. n \in Nat  BY <1>4
<1> HIDE DEF n
<1>7. s \in Seq(Reports) /\ Len(s) = n /\ DOMAIN s = 1..n  BY <1>5, <1>6
<1>8. s \in Seq(Events \cup {Pipe})  BY <1>1, <1>5, <1>6
<1>9. Reports \subseteq Holds(s)  BY <1>5, <1>7 DEF Holds
<1>10. QED  BY <1>8, <1>9

\* The loop over the array goes on to the next report: what follows is still an array, and
\* holds the pipe as before if the report was another.
LEMMA NextReport ==
  ASSUME SharedTypes, NEW t \in Threads, evs[t] # <<>>, evs' = [evs EXCEPT ![t] = Tail(@)]
  PROVE  /\ evs' \in [Threads -> Seq(Events \cup {Pipe})]
         /\ Head(evs[t]) # Pipe => \A u \in Threads : Pipe \in Holds(evs'[u]) <=> Pipe \in Holds(evs[u])
<1>1. PICK s \in Seq(Events \cup {Pipe}) : s = evs[t]  BY DEF SharedTypes
<1>2. /\ Tail(s) \in Seq(Events \cup {Pipe}) /\ Len(s) \in Nat \ {0} /\ Len(Tail(s)) = Len(s) - 1
      /\ \A i \in 1..(Len(s) - 1) : Tail(s)[i] = s[i + 1]
  BY <1>1
<1>3. Head(s) = s[1]  BY <1>1
<1>4. Head(s) # Pipe => (Pipe \in Holds(Tail(s)) <=> Pipe \in Holds(s))
  <2> SUFFICES ASSUME s[1] # Pipe PROVE Pipe \in Holds(Tail(s)) <=> Pipe \in Holds(s)
    BY <1>3
  <2>1. ASSUME NEW i \in 1..Len(Tail(s)), Tail(s)[i] = Pipe PROVE Pipe \in Holds(s)
    <3>1. i + 1 \in 1..Len(s) /\ s[i + 1] = Pipe  BY <1>2, <2>1
    <3>2. QED  BY <3>1 DEF Holds
  <2>2. ASSUME NEW i \in 1..Len(s), s[i] = Pipe PROVE Pipe \in Holds(Tail(s))
    <3>1. i - 1 \in 1..Len(Tail(s)) /\ Tail(s)[i - 1] = Pipe  BY <1>2, <2>2
    <3>2. QED  BY <3>1 DEF Holds
  <2>3. QED  BY <2>1, <2>2 DEF Holds
<1>5. evs'[t] = Tail(s) /\ \A u \in Threads \ {t} : evs'[u] = evs[u]  BY <1>1 DEF SharedTypes
<1>6. evs' \in [Threads -> Seq(Events \cup {Pipe})]  BY <1>1, <1>2 DEF SharedTypes
<1>7. QED  BY <1>1, <1>4, <1>5, <1>6

\* A thread's step between places that all counts treat alike, which changes at
\* most m_tickled and whether its idle fiber has ended.
LEMMA QuietStep ==
  ASSUME IndInv, config' = config, NEW t \in Threads, NEW p \in PcNames \ {"off"},
         pc[t] \notin {"off", "exited"}, pc' = [pc EXCEPT ![t] = p],
         UNCHANGED <<m_tasks, m_activeThreadCount, m_idleThreadCount, m_stopping, armed, due, tied,
                     event, held, wants, m_pendingEvenCount, bytes, edge, blocked, cbs, evs,
                     mainPc, stopTickles, work, done>>,
         m_tickled' \in BOOLEAN, idleDone' \in [Threads -> BOOLEAN],
         p \in ActivePc <=> pc[t] \in ActivePc, p \in IdlePc <=> pc[t] \in IdlePc,
         p \in RunningPc <=> pc[t] \in RunningPc, p \in CancellingPc <=> pc[t] \in CancellingPc,
         p \in TriggeringPc <=> pc[t] \in TriggeringPc,
         \A u \in Threads \ {t} : idleDone'[u] = idleDone[u],
         p \notin {"post", "postTickle"} => cbs[t] = 0,
         p \notin {"expire", "post", "postTickle", "dispatch", "dispatchTickle", "dispatchDec"} => evs[t] = <<>>,
         p = "exited" => idleDone'[t], idleDone'[t] => m_stopping,
         m_tasks' = 0 \/ ~Gone(t)' \/ (Gone(t) /\ m_tasks' = m_tasks)
  PROVE  IndInv'
<1>1. /\ TypeOK /\ SharedTypes /\ PipeAttended
      /\ Cardinality(Registered) \in Nat /\ Cardinality(Collected) \in Nat /\ Elsewhere \in Nat
  BY Known
<1>2. Threads' = Threads /\ Collected' = Collected /\ Registered' = Registered
  BY ThreadsKept, CollectedKept, RegisteredKept
<1>3. SharedTypes'  BY <1>1, <1>2 DEF SharedTypes
<1>4. /\ Ind(p, ActivePc) = Ind(pc[t], ActivePc) /\ Ind(p, IdlePc) = Ind(pc[t], IdlePc)
      /\ Ind(p, RunningPc) = Ind(pc[t], RunningPc) /\ Ind(p, CancellingPc) = Ind(pc[t], CancellingPc)
      /\ Ind(p, TriggeringPc) = Ind(pc[t], TriggeringPc)
  BY DEF Ind
<1>5. \A X : Ind(pc[t], X) \in Nat  BY DEF Ind
<1>6. m_activeThreadCount' = m_activeThreadCount + Ind(p, ActivePc) - Ind(pc[t], ActivePc)
  BY <1>1, <1>4, <1>5 DEF TypeOK
<1>7. m_idleThreadCount' = m_idleThreadCount + Ind(p, IdlePc) - Ind(pc[t], IdlePc)
  BY <1>1, <1>4, <1>5 DEF TypeOK
<1>8. m_pendingEvenCount' = m_pendingEvenCount + (Cardinality(Registered') + Ind(p, TriggeringPc))
                                               - (Cardinality(Registered) + Ind(pc[t], TriggeringPc))
  BY <1>1, <1>2, <1>4, <1>5 DEF TypeOK
<1>9. Elsewhere' = Elsewhere  BY <1>2 DEF Elsewhere
<1>10. work' = work + (Elsewhere' + Ind(p, RunningPc) + Ind(p, CancellingPc))
                    - (Elsewhere + Ind(pc[t], RunningPc) + Ind(pc[t], CancellingPc))
  BY <1>1, <1>4, <1>5, <1>9 DEF TypeOK
<1>11. PipeAttended'  BY <1>1, <1>2 DEF PipeAttended
<1>12. QED  BY <1>3, <1>6, <1>7, <1>8, <1>10, <1>11, ThreadStep

-----------------------------------------------------------------------------
(* The steps of run() and idle() that move nothing but the thread.          *)

\* run() finds the queue empty.
LEMMA ScanFindsNoneInv ==
  ASSUME IndInv, config' = config, NEW t \in Threads, ScanFindsNone(t)
  PROVE  IndInv'
<1>1. TypeOK /\ LocalsEmpty /\ LeaversDone  BY Known
<1>2. PICK p \in {"noTask"} :
        /\ pc[t] = "scan" /\ pc' = [pc EXCEPT ![t] = p] /\ m_tasks = 0
        /\ UNCHANGED <<m_tasks, m_activeThreadCount, m_idleThreadCount, m_stopping, armed, due, tied,
                       event, held, wants, m_pendingEvenCount, bytes, edge, blocked, cbs, evs,
                       mainPc, stopTickles, work, done>>
        /\ idleDone' = idleDone /\ m_tickled' = m_tickled
  BY DEF ScanFindsNone, Goto, sched, timers, events, pipe, local, owner, bounds
<1>3. /\ p \in PcNames \ {"off"}
      /\ (p \in ActivePc <=> pc[t] \in ActivePc) /\ (p \in IdlePc <=> pc[t] \in IdlePc)
      /\ (p \in RunningPc <=> pc[t] \in RunningPc) /\ (p \in CancellingPc <=> pc[t] \in CancellingPc)
      /\ (p \in TriggeringPc <=> pc[t] \in TriggeringPc)
  BY <1>2 DEF ActivePc, IdlePc, RunningPc, CancellingPc, TriggeringPc, PcNames
<1>4. m_tickled' \in BOOLEAN /\ idleDone' \in [Threads -> BOOLEAN]  BY <1>1, <1>2 DEF TypeOK
<1>5. /\ p \notin {"post", "postTickle"} => cbs[t] = 0
      /\ p \notin {"expire", "post", "postTickle", "dispatch", "dispatchTickle", "dispatchDec"} => evs[t] = <<>>
  BY <1>1, <1>2 DEF LocalsEmpty
<1>6. (p = "exited" => idleDone'[t]) /\ (idleDone'[t] => m_stopping)
  BY <1>1, <1>2 DEF LeaversDone
<1>7. m_tasks' = 0 \/ ~Gone(t)' \/ (Gone(t) /\ m_tasks' = m_tasks)
  BY <1>1, <1>2 DEF Gone, TypeOK
<1>8. QED  BY <1>2, <1>3, <1>4, <1>5, <1>6, <1>7, QuietStep

\* run() leaves its loop once the idle fiber has ended.
LEMMA BreakInv ==
  ASSUME IndInv, config' = config, NEW t \in Threads, Break(t)
  PROVE  IndInv'
<1>1. TypeOK /\ LocalsEmpty /\ LeaversDone  BY Known
<1>2. PICK p \in {"exited"} :
        /\ pc[t] = "noTask" /\ pc' = [pc EXCEPT ![t] = p] /\ idleDone[t]
        /\ UNCHANGED <<m_tasks, m_activeThreadCount, m_idleThreadCount, m_stopping, armed, due, tied,
                       event, held, wants, m_pendingEvenCount, bytes, edge, blocked, cbs, evs,
                       mainPc, stopTickles, work, done>>
        /\ idleDone' = idleDone /\ m_tickled' = m_tickled
  BY DEF Break, Goto, sched, timers, events, pipe, local, owner, bounds
<1>3. /\ p \in PcNames \ {"off"}
      /\ (p \in ActivePc <=> pc[t] \in ActivePc) /\ (p \in IdlePc <=> pc[t] \in IdlePc)
      /\ (p \in RunningPc <=> pc[t] \in RunningPc) /\ (p \in CancellingPc <=> pc[t] \in CancellingPc)
      /\ (p \in TriggeringPc <=> pc[t] \in TriggeringPc)
  BY <1>2 DEF ActivePc, IdlePc, RunningPc, CancellingPc, TriggeringPc, PcNames
<1>4. m_tickled' \in BOOLEAN /\ idleDone' \in [Threads -> BOOLEAN]  BY <1>1, <1>2 DEF TypeOK
<1>5. /\ p \notin {"post", "postTickle"} => cbs[t] = 0
      /\ p \notin {"expire", "post", "postTickle", "dispatch", "dispatchTickle", "dispatchDec"} => evs[t] = <<>>
  BY <1>1, <1>2 DEF LocalsEmpty
<1>6. (p = "exited" => idleDone'[t]) /\ (idleDone'[t] => m_stopping)
  BY <1>1, <1>2 DEF LeaversDone
<1>7. m_tasks' = 0 \/ ~Gone(t)' \/ (Gone(t) /\ m_tasks' = m_tasks)
  BY <1>1, <1>2 DEF Gone, TypeOK
<1>8. QED  BY <1>2, <1>3, <1>4, <1>5, <1>6, <1>7, QuietStep

\* stopping() looks at the timers.
LEMMA StoppingTimersInv ==
  ASSUME IndInv, config' = config, NEW t \in Threads, StoppingTimers(t)
  PROVE  IndInv'
<1>1. TypeOK /\ LocalsEmpty /\ LeaversDone  BY Known
<1>2. PICK p \in {"stop2", "next"} :
        /\ pc[t] = "stop1" /\ pc' = [pc EXCEPT ![t] = p]
        /\ UNCHANGED <<m_tasks, m_activeThreadCount, m_idleThreadCount, m_stopping, armed, due, tied,
                       event, held, wants, m_pendingEvenCount, bytes, edge, blocked, cbs, evs,
                       mainPc, stopTickles, work, done>>
        /\ idleDone' = idleDone /\ m_tickled' = FALSE
  BY DEF StoppingTimers, Goto, sched, timers, events, pipe, local, owner, bounds
<1>3. /\ p \in PcNames \ {"off"}
      /\ (p \in ActivePc <=> pc[t] \in ActivePc) /\ (p \in IdlePc <=> pc[t] \in IdlePc)
      /\ (p \in RunningPc <=> pc[t] \in RunningPc) /\ (p \in CancellingPc <=> pc[t] \in CancellingPc)
      /\ (p \in TriggeringPc <=> pc[t] \in TriggeringPc)
  BY <1>2 DEF ActivePc, IdlePc, RunningPc, CancellingPc, TriggeringPc, PcNames
<1>4. m_tickled' \in BOOLEAN /\ idleDone' \in [Threads -> BOOLEAN]  BY <1>1, <1>2 DEF TypeOK
<1>5. /\ p \notin {"post", "postTickle"} => cbs[t] = 0
      /\ p \notin {"expire", "post", "postTickle", "dispatch", "dispatchTickle", "dispatchDec"} => evs[t] = <<>>
  BY <1>1, <1>2 DEF LocalsEmpty
<1>6. (p = "exited" => idleDone'[t]) /\ (idleDone'[t] => m_stopping)
  BY <1>1, <1>2 DEF LeaversDone
<1>7. m_tasks' = 0 \/ ~Gone(t)' \/ (Gone(t) /\ m_tasks' = m_tasks)
  BY <1>1, <1>2 DEF Gone, TypeOK
<1>8. QED  BY <1>2, <1>3, <1>4, <1>5, <1>6, <1>7, QuietStep

\* stopping() looks at the count of events.
LEMMA StoppingEventsInv ==
  ASSUME IndInv, config' = config, NEW t \in Threads, StoppingEvents(t)
  PROVE  IndInv'
<1>1. TypeOK /\ LocalsEmpty /\ LeaversDone  BY Known
<1>2. PICK p \in {"stop3", "next"} :
        /\ pc[t] = "stop2" /\ pc' = [pc EXCEPT ![t] = p]
        /\ UNCHANGED <<m_tasks, m_activeThreadCount, m_idleThreadCount, m_stopping, armed, due, tied,
                       event, held, wants, m_pendingEvenCount, bytes, edge, blocked, cbs, evs,
                       mainPc, stopTickles, work, done>>
        /\ idleDone' = idleDone /\ m_tickled' = m_tickled
  BY DEF StoppingEvents, Goto, sched, timers, events, pipe, local, owner, bounds
<1>3. /\ p \in PcNames \ {"off"}
      /\ (p \in ActivePc <=> pc[t] \in ActivePc) /\ (p \in IdlePc <=> pc[t] \in IdlePc)
      /\ (p \in RunningPc <=> pc[t] \in RunningPc) /\ (p \in CancellingPc <=> pc[t] \in CancellingPc)
      /\ (p \in TriggeringPc <=> pc[t] \in TriggeringPc)
  BY <1>2 DEF ActivePc, IdlePc, RunningPc, CancellingPc, TriggeringPc, PcNames
<1>4. m_tickled' \in BOOLEAN /\ idleDone' \in [Threads -> BOOLEAN]  BY <1>1, <1>2 DEF TypeOK
<1>5. /\ p \notin {"post", "postTickle"} => cbs[t] = 0
      /\ p \notin {"expire", "post", "postTickle", "dispatch", "dispatchTickle", "dispatchDec"} => evs[t] = <<>>
  BY <1>1, <1>2 DEF LocalsEmpty
<1>6. (p = "exited" => idleDone'[t]) /\ (idleDone'[t] => m_stopping)
  BY <1>1, <1>2 DEF LeaversDone
<1>7. m_tasks' = 0 \/ ~Gone(t)' \/ (Gone(t) /\ m_tasks' = m_tasks)
  BY <1>1, <1>2 DEF Gone, TypeOK
<1>8. QED  BY <1>2, <1>3, <1>4, <1>5, <1>6, <1>7, QuietStep

\* getNextTimer() computes the timeout.
LEMMA NextTimeoutInv ==
  ASSUME IndInv, config' = config, NEW t \in Threads, NextTimeout(t)
  PROVE  IndInv'
<1>1. TypeOK /\ LocalsEmpty /\ LeaversDone  BY Known
<1>2. PICK p \in {"wait"} :
        /\ pc[t] = "next" /\ pc' = [pc EXCEPT ![t] = p]
        /\ UNCHANGED <<m_tasks, m_activeThreadCount, m_idleThreadCount, m_stopping, armed, due, tied,
                       event, held, wants, m_pendingEvenCount, bytes, edge, blocked, cbs, evs,
                       mainPc, stopTickles, work, done>>
        /\ idleDone' = idleDone /\ m_tickled' = FALSE
  BY DEF NextTimeout, Goto, sched, timers, events, pipe, local, owner, bounds
<1>3. /\ p \in PcNames \ {"off"}
      /\ (p \in ActivePc <=> pc[t] \in ActivePc) /\ (p \in IdlePc <=> pc[t] \in IdlePc)
      /\ (p \in RunningPc <=> pc[t] \in RunningPc) /\ (p \in CancellingPc <=> pc[t] \in CancellingPc)
      /\ (p \in TriggeringPc <=> pc[t] \in TriggeringPc)
  BY <1>2 DEF ActivePc, IdlePc, RunningPc, CancellingPc, TriggeringPc, PcNames
<1>4. m_tickled' \in BOOLEAN /\ idleDone' \in [Threads -> BOOLEAN]  BY <1>1, <1>2 DEF TypeOK
<1>5. /\ p \notin {"post", "postTickle"} => cbs[t] = 0
      /\ p \notin {"expire", "post", "postTickle", "dispatch", "dispatchTickle", "dispatchDec"} => evs[t] = <<>>
  BY <1>1, <1>2 DEF LocalsEmpty
<1>6. (p = "exited" => idleDone'[t]) /\ (idleDone'[t] => m_stopping)
  BY <1>1, <1>2 DEF LeaversDone
<1>7. m_tasks' = 0 \/ ~Gone(t)' \/ (Gone(t) /\ m_tasks' = m_tasks)
  BY <1>1, <1>2 DEF Gone, TypeOK
<1>8. QED  BY <1>2, <1>3, <1>4, <1>5, <1>6, <1>7, QuietStep

\* epoll_wait returns without a report.
LEMMA EpollTimesOutInv ==
  ASSUME IndInv, config' = config, NEW t \in Threads, EpollTimesOut(t)
  PROVE  IndInv'
<1>1. TypeOK /\ LocalsEmpty /\ LeaversDone  BY Known
<1>2. PICK p \in {"expire"} :
        /\ pc[t] = "wait" /\ pc' = [pc EXCEPT ![t] = p]
        /\ UNCHANGED <<m_tasks, m_activeThreadCount, m_idleThreadCount, m_stopping, armed, due, tied,
                       event, held, wants, m_pendingEvenCount, bytes, edge, blocked, cbs, evs,
                       mainPc, stopTickles, work, done>>
        /\ idleDone' = idleDone /\ m_tickled' = m_tickled
  BY DEF EpollTimesOut, Goto, sched, timers, events, pipe, local, owner, bounds
<1>3. /\ p \in PcNames \ {"off"}
      /\ (p \in ActivePc <=> pc[t] \in ActivePc) /\ (p \in IdlePc <=> pc[t] \in IdlePc)
      /\ (p \in RunningPc <=> pc[t] \in RunningPc) /\ (p \in CancellingPc <=> pc[t] \in CancellingPc)
      /\ (p \in TriggeringPc <=> pc[t] \in TriggeringPc)
  BY <1>2 DEF ActivePc, IdlePc, RunningPc, CancellingPc, TriggeringPc, PcNames
<1>4. m_tickled' \in BOOLEAN /\ idleDone' \in [Threads -> BOOLEAN]  BY <1>1, <1>2 DEF TypeOK
<1>5. /\ p \notin {"post", "postTickle"} => cbs[t] = 0
      /\ p \notin {"expire", "post", "postTickle", "dispatch", "dispatchTickle", "dispatchDec"} => evs[t] = <<>>
  BY <1>1, <1>2 DEF LocalsEmpty
<1>6. (p = "exited" => idleDone'[t]) /\ (idleDone'[t] => m_stopping)
  BY <1>1, <1>2 DEF LeaversDone
<1>7. m_tasks' = 0 \/ ~Gone(t)' \/ (Gone(t) /\ m_tasks' = m_tasks)
  BY <1>1, <1>2 DEF Gone, TypeOK
<1>8. QED  BY <1>2, <1>3, <1>4, <1>5, <1>6, <1>7, QuietStep

\* The idle fiber yields after the last report.
LEMMA DispatchEndsInv ==
  ASSUME IndInv, config' = config, NEW t \in Threads, DispatchEnds(t)
  PROVE  IndInv'
<1>1. TypeOK /\ LocalsEmpty /\ LeaversDone  BY Known
<1>2. PICK p \in {"idleDec"} :
        /\ pc[t] = "dispatch" /\ pc' = [pc EXCEPT ![t] = p] /\ evs[t] = <<>>
        /\ UNCHANGED <<m_tasks, m_activeThreadCount, m_idleThreadCount, m_stopping, armed, due, tied,
                       event, held, wants, m_pendingEvenCount, bytes, edge, blocked, cbs, evs,
                       mainPc, stopTickles, work, done>>
        /\ idleDone' = idleDone /\ m_tickled' = m_tickled
  BY DEF DispatchEnds, Goto, sched, timers, events, pipe, local, owner, bounds
<1>3. /\ p \in PcNames \ {"off"}
      /\ (p \in ActivePc <=> pc[t] \in ActivePc) /\ (p \in IdlePc <=> pc[t] \in IdlePc)
      /\ (p \in RunningPc <=> pc[t] \in RunningPc) /\ (p \in CancellingPc <=> pc[t] \in CancellingPc)
      /\ (p \in TriggeringPc <=> pc[t] \in TriggeringPc)
  BY <1>2 DEF ActivePc, IdlePc, RunningPc, CancellingPc, TriggeringPc, PcNames
<1>4. m_tickled' \in BOOLEAN /\ idleDone' \in [Threads -> BOOLEAN]  BY <1>1, <1>2 DEF TypeOK
<1>5. /\ p \notin {"post", "postTickle"} => cbs[t] = 0
      /\ p \notin {"expire", "post", "postTickle", "dispatch", "dispatchTickle", "dispatchDec"} => evs[t] = <<>>
  BY <1>1, <1>2 DEF LocalsEmpty
<1>6. (p = "exited" => idleDone'[t]) /\ (idleDone'[t] => m_stopping)
  BY <1>1, <1>2 DEF LeaversDone
<1>7. m_tasks' = 0 \/ ~Gone(t)' \/ (Gone(t) /\ m_tasks' = m_tasks)
  BY <1>1, <1>2 DEF Gone, TypeOK
<1>8. QED  BY <1>2, <1>3, <1>4, <1>5, <1>6, <1>7, QuietStep

\* stopping() asks the base class; what it finds decides whether the idle fiber ends.
LEMMA StoppingBaseInv ==
  ASSUME IndInv, config' = config, NEW t \in Threads, StoppingBase(t)
  PROVE  IndInv'
<1>1. TypeOK /\ LocalsEmpty /\ LeaversDone  BY Known
<1>2. PICK p \in {"idleDec", "next"} :
        /\ pc[t] = "stop3" /\ pc' = [pc EXCEPT ![t] = p]
        /\ UNCHANGED <<m_tasks, m_activeThreadCount, m_idleThreadCount, m_stopping, armed, due, tied,
                       event, held, wants, m_pendingEvenCount, bytes, edge, blocked, cbs, evs,
                       mainPc, stopTickles, work, done>>
        /\ m_tickled' = m_tickled
  BY DEF StoppingBase, Goto, sched, timers, events, pipe, owner, bounds
<1>3. idleDone' = [idleDone EXCEPT ![t] = Scheduler_stopping]  BY DEF StoppingBase
<1>4. Scheduler_stopping \in BOOLEAN /\ (Scheduler_stopping => m_stopping)
  BY DEF Scheduler_stopping
<1>5. /\ m_tickled' \in BOOLEAN /\ idleDone' \in [Threads -> BOOLEAN]
      /\ idleDone'[t] = Scheduler_stopping /\ \A u \in Threads \ {t} : idleDone'[u] = idleDone[u]
  BY <1>1, <1>2, <1>3, <1>4 DEF TypeOK
<1>6. /\ p \in PcNames \ {"off"}
      /\ (p \in ActivePc <=> pc[t] \in ActivePc) /\ (p \in IdlePc <=> pc[t] \in IdlePc)
      /\ (p \in RunningPc <=> pc[t] \in RunningPc) /\ (p \in CancellingPc <=> pc[t] \in CancellingPc)
      /\ (p \in TriggeringPc <=> pc[t] \in TriggeringPc)
  BY <1>2 DEF ActivePc, IdlePc, RunningPc, CancellingPc, TriggeringPc, PcNames
<1>7. cbs[t] = 0 /\ evs[t] = <<>> /\ p # "exited"  BY <1>1, <1>2 DEF LocalsEmpty
<1>8. ~Gone(t)'  BY <1>1, <1>2 DEF Gone, TypeOK
<1>9. pc[t] \notin {"off", "exited"} /\ (idleDone'[t] => m_stopping)  BY <1>2, <1>4, <1>5
<1>10. QED  BY <1>2, <1>5, <1>6, <1>7, <1>8, <1>9, QuietStep

\* epoll_wait is interrupted by a signal and called again.
LEMMA EpollInterruptedInv ==
  ASSUME IndInv, config' = config, NEW t \in Threads, EpollInterrupted(t)
  PROVE  IndInv'
<1>1. TypeOK /\ LocalsEmpty /\ LeaversDone  BY Known
<1>2. /\ pc[t] = "wait" /\ pc' = pc /\ idleDone' = idleDone /\ m_tickled' = FALSE
      /\ UNCHANGED <<m_tasks, m_activeThreadCount, m_idleThreadCount, m_stopping, armed, due, tied,
                     event, held, wants, m_pendingEvenCount, bytes, edge, blocked, cbs, evs,
                     mainPc, stopTickles, work, done>>
  BY DEF EpollInterrupted, sched, timers, events, pipe, local, owner, bounds
<1>3. pc' = [pc EXCEPT ![t] = "wait"] /\ "wait" \in PcNames \ {"off"}  BY <1>1, <1>2 DEF TypeOK, PcNames
<1>4. m_tickled' \in BOOLEAN /\ idleDone' \in [Threads -> BOOLEAN]  BY <1>1, <1>2 DEF TypeOK
<1>5. cbs[t] = 0 /\ evs[t] = <<>>  BY <1>1, <1>2 DEF LocalsEmpty
<1>6. idleDone'[t] => m_stopping  BY <1>1, <1>2 DEF LeaversDone
<1>7. ~Gone(t)'  BY <1>2 DEF Gone
<1>8. QED  BY <1>2, <1>3, <1>4, <1>5, <1>6, <1>7, QuietStep

-----------------------------------------------------------------------------
(* The other steps of run() and idle().                                     *)

\* run() takes a task and counts itself active.
LEMMA ScanTakesInv ==
  ASSUME IndInv, config' = config, NEW t \in Threads, ScanTakes(t)
  PROVE  IndInv'
<1>1. /\ TypeOK /\ SharedTypes /\ PipeAttended /\ LocalsEmpty /\ LeaversDone
      /\ Cardinality(Registered) \in Nat /\ Cardinality(Collected) \in Nat /\ Elsewhere \in Nat
  BY Known
<1>2. PICK p \in {"scanTickle", "run"} :
        /\ pc[t] = "scan" /\ pc' = [pc EXCEPT ![t] = p]
        /\ m_tasks > 0 /\ m_tasks' = m_tasks - 1 /\ m_activeThreadCount' = m_activeThreadCount + 1
        /\ UNCHANGED <<m_idleThreadCount, m_stopping, armed, due, tied, m_tickled, event, held, wants,
                      m_pendingEvenCount, bytes, edge, blocked, cbs, evs, idleDone, mainPc,
                      stopTickles, work, done>>
  BY DEF ScanTakes, Goto, sched, timers, events, pipe, local, owner, bounds
<1>3. Threads' = Threads /\ Collected' = Collected /\ Registered' = Registered
  BY <1>2, ThreadsKept, CollectedKept, RegisteredKept
<1>4. PipeAttended'  BY <1>1, <1>2, <1>3 DEF PipeAttended
<1>5. SharedTypes'  BY <1>1, <1>2, <1>3 DEF SharedTypes
<1>6. /\ Ind(p, ActivePc) = 1 /\ Ind(pc[t], ActivePc) = 0
      /\ Ind(p, IdlePc) = 0 /\ Ind(pc[t], IdlePc) = 0
      /\ Ind(p, RunningPc) = 1 /\ Ind(pc[t], RunningPc) = 0
      /\ Ind(p, CancellingPc) = 0 /\ Ind(pc[t], CancellingPc) = 0
      /\ Ind(p, TriggeringPc) = 0 /\ Ind(pc[t], TriggeringPc) = 0
  BY <1>2 DEF Ind, ActivePc, IdlePc, RunningPc, CancellingPc, TriggeringPc
<1>7. /\ m_activeThreadCount' = m_activeThreadCount + Ind(p, ActivePc) - Ind(pc[t], ActivePc)
      /\ m_idleThreadCount' = m_idleThreadCount + Ind(p, IdlePc) - Ind(pc[t], IdlePc)
  BY <1>1, <1>2, <1>6 DEF TypeOK
<1>8. m_pendingEvenCount' = m_pendingEvenCount + (Cardinality(Registered') + Ind(p, TriggeringPc))
                                               - (Cardinality(Registered) + Ind(pc[t], TriggeringPc))
  BY <1>1, <1>2, <1>3, <1>6 DEF TypeOK
<1>9. work' = work + (Elsewhere' + Ind(p, RunningPc) + Ind(p, CancellingPc))
                   - (Elsewhere + Ind(pc[t], RunningPc) + Ind(pc[t], CancellingPc))
  BY <1>1, <1>2, <1>3, <1>6 DEF TypeOK, Elsewhere
<1>10. /\ p \notin {"post", "postTickle"} => cbs'[t] = 0
       /\ p \notin {"expire", "post", "postTickle", "dispatch", "dispatchTickle", "dispatchDec"} => evs'[t] = <<>>
       /\ \A u \in Threads \ {t} : cbs'[u] = cbs[u] /\ evs'[u] = evs[u] /\ idleDone'[u] = idleDone[u]
  BY <1>1, <1>2 DEF LocalsEmpty, TypeOK
<1>11. /\ p \in PcNames \ {"off"} /\ pc[t] \notin {"off", "exited"}
       /\ pc' = [pc EXCEPT ![t] = p] /\ UNCHANGED <<m_stopping, mainPc, stopTickles>>
       /\ (p = "exited" => idleDone'[t]) /\ (idleDone'[t] => m_stopping)
       /\ m_tasks' = 0 \/ ~Gone(t)' \/ (Gone(t) /\ m_tasks' = m_tasks)
  BY <1>1, <1>2 DEF LeaversDone, Gone, PcNames, TypeOK
<1>12. QED  BY <1>4, <1>5, <1>7, <1>8, <1>9, <1>10, <1>11, ThreadStep

\* A thread has given its task back.
LEMMA DecInv ==
  ASSUME IndInv, config' = config, NEW t \in Threads, Dec(t)
  PROVE  IndInv'
<1>1. /\ TypeOK /\ SharedTypes /\ PipeAttended /\ LocalsEmpty /\ LeaversDone
      /\ Cardinality(Registered) \in Nat /\ Cardinality(Collected) \in Nat /\ Elsewhere \in Nat
  BY Known
<1> DEFINE p == "scan"
<1>2. /\ pc[t] = "dec" /\ pc' = [pc EXCEPT ![t] = p]
      /\ m_activeThreadCount' = m_activeThreadCount - 1
      /\ UNCHANGED <<m_tasks, m_idleThreadCount, m_stopping, armed, due, tied, m_tickled, event,
                    held, wants, m_pendingEvenCount, bytes, edge, blocked, cbs, evs, idleDone,
                    mainPc, stopTickles, work, done>>
  BY DEF Dec, Goto, sched, timers, events, pipe, local, owner, bounds
<1>3. Threads' = Threads /\ Collected' = Collected /\ Registered' = Registered
  BY <1>2, ThreadsKept, CollectedKept, RegisteredKept
<1>4. PipeAttended'  BY <1>1, <1>2, <1>3 DEF PipeAttended
<1>5. SharedTypes'  BY <1>1, <1>2, <1>3 DEF SharedTypes
<1>6. /\ Ind(p, ActivePc) = 0 /\ Ind(pc[t], ActivePc) = 1
      /\ Ind(p, IdlePc) = 0 /\ Ind(pc[t], IdlePc) = 0
      /\ Ind(p, RunningPc) = 0 /\ Ind(pc[t], RunningPc) = 0
      /\ Ind(p, CancellingPc) = 0 /\ Ind(pc[t], CancellingPc) = 0
      /\ Ind(p, TriggeringPc) = 0 /\ Ind(pc[t], TriggeringPc) = 0
  BY <1>2 DEF Ind, ActivePc, IdlePc, RunningPc, CancellingPc, TriggeringPc
<1>7. /\ m_activeThreadCount' = m_activeThreadCount + Ind(p, ActivePc) - Ind(pc[t], ActivePc)
      /\ m_idleThreadCount' = m_idleThreadCount + Ind(p, IdlePc) - Ind(pc[t], IdlePc)
  BY <1>1, <1>2, <1>6 DEF TypeOK
<1>8. m_pendingEvenCount' = m_pendingEvenCount + (Cardinality(Registered') + Ind(p, TriggeringPc))
                                               - (Cardinality(Registered) + Ind(pc[t], TriggeringPc))
  BY <1>1, <1>2, <1>3, <1>6 DEF TypeOK
<1>9. work' = work + (Elsewhere' + Ind(p, RunningPc) + Ind(p, CancellingPc))
                   - (Elsewhere + Ind(pc[t], RunningPc) + Ind(pc[t], CancellingPc))
  BY <1>1, <1>2, <1>3, <1>6 DEF TypeOK, Elsewhere
<1>10. /\ p \notin {"post", "postTickle"} => cbs'[t] = 0
       /\ p \notin {"expire", "post", "postTickle", "dispatch", "dispatchTickle", "dispatchDec"} => evs'[t] = <<>>
       /\ \A u \in Threads \ {t} : cbs'[u] = cbs[u] /\ evs'[u] = evs[u] /\ idleDone'[u] = idleDone[u]
  BY <1>1, <1>2 DEF LocalsEmpty, TypeOK
<1>11. /\ p \in PcNames \ {"off"} /\ pc[t] \notin {"off", "exited"}
       /\ pc' = [pc EXCEPT ![t] = p] /\ UNCHANGED <<m_stopping, mainPc, stopTickles>>
       /\ (p = "exited" => idleDone'[t]) /\ (idleDone'[t] => m_stopping)
       /\ m_tasks' = 0 \/ ~Gone(t)' \/ (Gone(t) /\ m_tasks' = m_tasks)
  BY <1>1, <1>2 DEF LeaversDone, Gone, PcNames, TypeOK
<1> HIDE DEF p
<1>12. QED  BY <1>4, <1>5, <1>7, <1>8, <1>9, <1>10, <1>11, ThreadStep

\* A thread resumes its idle fiber.
LEMMA EnterIdleInv ==
  ASSUME IndInv, config' = config, NEW t \in Threads, EnterIdle(t)
  PROVE  IndInv'
<1>1. /\ TypeOK /\ SharedTypes /\ PipeAttended /\ LocalsEmpty /\ LeaversDone
      /\ Cardinality(Registered) \in Nat /\ Cardinality(Collected) \in Nat /\ Elsewhere \in Nat
  BY Known
<1> DEFINE p == "stop1"
<1>2. /\ pc[t] = "noTask" /\ pc' = [pc EXCEPT ![t] = p]
      /\ m_idleThreadCount' = m_idleThreadCount + 1
      /\ UNCHANGED <<m_tasks, m_activeThreadCount, m_stopping, armed, due, tied, m_tickled,
                    event, held, wants, m_pendingEvenCount, bytes, edge, blocked, cbs, evs,
                    idleDone, mainPc, stopTickles, work, done>>
  BY DEF EnterIdle, Goto, sched, timers, events, pipe, local, owner, bounds
<1>3. Threads' = Threads /\ Collected' = Collected /\ Registered' = Registered
  BY <1>2, ThreadsKept, CollectedKept, RegisteredKept
<1>4. PipeAttended'  BY <1>1, <1>2, <1>3 DEF PipeAttended
<1>5. SharedTypes'  BY <1>1, <1>2, <1>3 DEF SharedTypes
<1>6. /\ Ind(p, ActivePc) = 0 /\ Ind(pc[t], ActivePc) = 0
      /\ Ind(p, IdlePc) = 1 /\ Ind(pc[t], IdlePc) = 0
      /\ Ind(p, RunningPc) = 0 /\ Ind(pc[t], RunningPc) = 0
      /\ Ind(p, CancellingPc) = 0 /\ Ind(pc[t], CancellingPc) = 0
      /\ Ind(p, TriggeringPc) = 0 /\ Ind(pc[t], TriggeringPc) = 0
  BY <1>2 DEF Ind, ActivePc, IdlePc, RunningPc, CancellingPc, TriggeringPc
<1>7. /\ m_activeThreadCount' = m_activeThreadCount + Ind(p, ActivePc) - Ind(pc[t], ActivePc)
      /\ m_idleThreadCount' = m_idleThreadCount + Ind(p, IdlePc) - Ind(pc[t], IdlePc)
  BY <1>1, <1>2, <1>6 DEF TypeOK
<1>8. m_pendingEvenCount' = m_pendingEvenCount + (Cardinality(Registered') + Ind(p, TriggeringPc))
                                               - (Cardinality(Registered) + Ind(pc[t], TriggeringPc))
  BY <1>1, <1>2, <1>3, <1>6 DEF TypeOK
<1>9. work' = work + (Elsewhere' + Ind(p, RunningPc) + Ind(p, CancellingPc))
                   - (Elsewhere + Ind(pc[t], RunningPc) + Ind(pc[t], CancellingPc))
  BY <1>1, <1>2, <1>3, <1>6 DEF TypeOK, Elsewhere
<1>10. /\ p \notin {"post", "postTickle"} => cbs'[t] = 0
       /\ p \notin {"expire", "post", "postTickle", "dispatch", "dispatchTickle", "dispatchDec"} => evs'[t] = <<>>
       /\ \A u \in Threads \ {t} : cbs'[u] = cbs[u] /\ evs'[u] = evs[u] /\ idleDone'[u] = idleDone[u]
  BY <1>1, <1>2 DEF LocalsEmpty, TypeOK
<1>11. /\ p \in PcNames \ {"off"} /\ pc[t] \notin {"off", "exited"}
       /\ pc' = [pc EXCEPT ![t] = p] /\ UNCHANGED <<m_stopping, mainPc, stopTickles>>
       /\ (p = "exited" => idleDone'[t]) /\ (idleDone'[t] => m_stopping)
       /\ m_tasks' = 0 \/ ~Gone(t)' \/ (Gone(t) /\ m_tasks' = m_tasks)
  BY <1>1, <1>2 DEF LeaversDone, Gone, PcNames, TypeOK
<1> HIDE DEF p
<1>12. QED  BY <1>4, <1>5, <1>7, <1>8, <1>9, <1>10, <1>11, ThreadStep

\* The idle fiber has yielded or ended.
LEMMA LeaveIdleInv ==
  ASSUME IndInv, config' = config, NEW t \in Threads, LeaveIdle(t)
  PROVE  IndInv'
<1>1. /\ TypeOK /\ SharedTypes /\ PipeAttended /\ LocalsEmpty /\ LeaversDone
      /\ Cardinality(Registered) \in Nat /\ Cardinality(Collected) \in Nat /\ Elsewhere \in Nat
  BY Known
<1> DEFINE p == "scan"
<1>2. /\ pc[t] = "idleDec" /\ pc' = [pc EXCEPT ![t] = p]
      /\ m_idleThreadCount' = m_idleThreadCount - 1
      /\ UNCHANGED <<m_tasks, m_activeThreadCount, m_stopping, armed, due, tied, m_tickled,
                    event, held, wants, m_pendingEvenCount, bytes, edge, blocked, cbs, evs,
                    idleDone, mainPc, stopTickles, work, done>>
  BY DEF LeaveIdle, Goto, sched, timers, events, pipe, local, owner, bounds
<1>3. Threads' = Threads /\ Collected' = Collected /\ Registered' = Registered
  BY <1>2, ThreadsKept, CollectedKept, RegisteredKept
<1>4. PipeAttended'  BY <1>1, <1>2, <1>3 DEF PipeAttended
<1>5. SharedTypes'  BY <1>1, <1>2, <1>3 DEF SharedTypes
<1>6. /\ Ind(p, ActivePc) = 0 /\ Ind(pc[t], ActivePc) = 0
      /\ Ind(p, IdlePc) = 0 /\ Ind(pc[t], IdlePc) = 1
      /\ Ind(p, RunningPc) = 0 /\ Ind(pc[t], RunningPc) = 0
      /\ Ind(p, CancellingPc) = 0 /\ Ind(pc[t], CancellingPc) = 0
      /\ Ind(p, TriggeringPc) = 0 /\ Ind(pc[t], TriggeringPc) = 0
  BY <1>2 DEF Ind, ActivePc, IdlePc, RunningPc, CancellingPc, TriggeringPc
<1>7. /\ m_activeThreadCount' = m_activeThreadCount + Ind(p, ActivePc) - Ind(pc[t], ActivePc)
      /\ m_idleThreadCount' = m_idleThreadCount + Ind(p, IdlePc) - Ind(pc[t], IdlePc)
  BY <1>1, <1>2, <1>6 DEF TypeOK
<1>8. m_pendingEvenCount' = m_pendingEvenCount + (Cardinality(Registered') + Ind(p, TriggeringPc))
                                               - (Cardinality(Registered) + Ind(pc[t], TriggeringPc))
  BY <1>1, <1>2, <1>3, <1>6 DEF TypeOK
<1>9. work' = work + (Elsewhere' + Ind(p, RunningPc) + Ind(p, CancellingPc))
                   - (Elsewhere + Ind(pc[t], RunningPc) + Ind(pc[t], CancellingPc))
  BY <1>1, <1>2, <1>3, <1>6 DEF TypeOK, Elsewhere
<1>10. /\ p \notin {"post", "postTickle"} => cbs'[t] = 0
       /\ p \notin {"expire", "post", "postTickle", "dispatch", "dispatchTickle", "dispatchDec"} => evs'[t] = <<>>
       /\ \A u \in Threads \ {t} : cbs'[u] = cbs[u] /\ evs'[u] = evs[u] /\ idleDone'[u] = idleDone[u]
  BY <1>1, <1>2 DEF LocalsEmpty, TypeOK
<1>11. /\ p \in PcNames \ {"off"} /\ pc[t] \notin {"off", "exited"}
       /\ pc' = [pc EXCEPT ![t] = p] /\ UNCHANGED <<m_stopping, mainPc, stopTickles>>
       /\ (p = "exited" => idleDone'[t]) /\ (idleDone'[t] => m_stopping)
       /\ m_tasks' = 0 \/ ~Gone(t)' \/ (Gone(t) /\ m_tasks' = m_tasks)
  BY <1>1, <1>2 DEF LeaversDone, Gone, PcNames, TypeOK
<1> HIDE DEF p
<1>12. QED  BY <1>4, <1>5, <1>7, <1>8, <1>9, <1>10, <1>11, ThreadStep

\* A task posts another.
LEMMA TaskPostsInv ==
  ASSUME IndInv, config' = config, NEW t \in Threads, TaskPosts(t)
  PROVE  IndInv'
<1>1. /\ TypeOK /\ SharedTypes /\ PipeAttended /\ LocalsEmpty /\ LeaversDone
      /\ Cardinality(Registered) \in Nat /\ Cardinality(Collected) \in Nat /\ Elsewhere \in Nat
  BY Known
<1>2. PICK p \in {"runTickle", "run"} :
        /\ pc[t] = "run" /\ pc' = [pc EXCEPT ![t] = p]
        /\ m_tasks' = m_tasks + 1 /\ work' = work + 1
        /\ UNCHANGED <<m_activeThreadCount, m_idleThreadCount, m_stopping, armed, due, tied,
                      m_tickled, event, held, wants, m_pendingEvenCount, bytes, edge, blocked,
                      cbs, evs, idleDone, mainPc, stopTickles, done>>
  BY DEF TaskPosts, Goto, sched, timers, events, pipe, local, owner, bounds, ClientWork, Push
<1>3. Threads' = Threads /\ Collected' = Collected /\ Registered' = Registered
  BY <1>2, ThreadsKept, CollectedKept, RegisteredKept
<1>4. PipeAttended'  BY <1>1, <1>2, <1>3 DEF PipeAttended
<1>5. SharedTypes'  BY <1>1, <1>2, <1>3 DEF SharedTypes
<1>6. /\ Ind(p, ActivePc) = 1 /\ Ind(pc[t], ActivePc) = 1
      /\ Ind(p, IdlePc) = 0 /\ Ind(pc[t], IdlePc) = 0
      /\ Ind(p, RunningPc) = 1 /\ Ind(pc[t], RunningPc) = 1
      /\ Ind(p, CancellingPc) = 0 /\ Ind(pc[t], CancellingPc) = 0
      /\ Ind(p, TriggeringPc) = 0 /\ Ind(pc[t], TriggeringPc) = 0
  BY <1>2 DEF Ind, ActivePc, IdlePc, RunningPc, CancellingPc, TriggeringPc
<1>7. /\ m_activeThreadCount' = m_activeThreadCount + Ind(p, ActivePc) - Ind(pc[t], ActivePc)
      /\ m_idleThreadCount' = m_idleThreadCount + Ind(p, IdlePc) - Ind(pc[t], IdlePc)
  BY <1>1, <1>2, <1>6 DEF TypeOK
<1>8. m_pendingEvenCount' = m_pendingEvenCount + (Cardinality(Registered') + Ind(p, TriggeringPc))
                                               - (Cardinality(Registered) + Ind(pc[t], TriggeringPc))
  BY <1>1, <1>2, <1>3, <1>6 DEF TypeOK
<1>9. work' = work + (Elsewhere' + Ind(p, RunningPc) + Ind(p, CancellingPc))
                   - (Elsewhere + Ind(pc[t], RunningPc) + Ind(pc[t], CancellingPc))
  <2>1. m_tasks \in Nat /\ armed \in Nat /\ due \in Nat /\ tied \in Nat /\ done \in Nat /\ work \in Nat
    BY <1>1 DEF TypeOK
  <2>2. Elsewhere' = Elsewhere + 1  BY <1>1, <1>2, <1>3, <2>1 DEF Elsewhere
  <2>3. QED  BY <1>1, <1>2, <1>6, <2>1, <2>2
<1>10. /\ p \notin {"post", "postTickle"} => cbs'[t] = 0
       /\ p \notin {"expire", "post", "postTickle", "dispatch", "dispatchTickle", "dispatchDec"} => evs'[t] = <<>>
       /\ \A u \in Threads \ {t} : cbs'[u] = cbs[u] /\ evs'[u] = evs[u] /\ idleDone'[u] = idleDone[u]
  BY <1>1, <1>2 DEF LocalsEmpty, TypeOK
<1>11. /\ p \in PcNames \ {"off"} /\ pc[t] \notin {"off", "exited"}
       /\ pc' = [pc EXCEPT ![t] = p] /\ UNCHANGED <<m_stopping, mainPc, stopTickles>>
       /\ (p = "exited" => idleDone'[t]) /\ (idleDone'[t] => m_stopping)
       /\ m_tasks' = 0 \/ ~Gone(t)' \/ (Gone(t) /\ m_tasks' = m_tasks)
  BY <1>1, <1>2 DEF LeaversDone, Gone, PcNames, TypeOK
<1>12. QED  BY <1>4, <1>5, <1>7, <1>8, <1>9, <1>10, <1>11, ThreadStep

\* A task adds a timer.
LEMMA TaskAddsTimerInv ==
  ASSUME IndInv, config' = config, NEW t \in Threads, TaskAddsTimer(t)
  PROVE  IndInv'
<1>1. /\ TypeOK /\ SharedTypes /\ PipeAttended /\ LocalsEmpty /\ LeaversDone
      /\ Cardinality(Registered) \in Nat /\ Cardinality(Collected) \in Nat /\ Elsewhere \in Nat
  BY Known
<1>2. PICK p \in {"runTickle", "run"} :
        /\ pc[t] = "run" /\ pc' = [pc EXCEPT ![t] = p]
        /\ (armed' = armed + 1 /\ tied' = tied) \/ (armed' = armed /\ tied' = tied + 1)
        /\ work' = work + 1 /\ m_tickled' \in BOOLEAN
        /\ UNCHANGED <<m_tasks, m_activeThreadCount, m_idleThreadCount, m_stopping, due,
                      event, held, wants, m_pendingEvenCount, bytes, edge, blocked, cbs, evs,
                      idleDone, mainPc, stopTickles, done>>
  BY DEF TaskAddsTimer, Goto, sched, timers, events, pipe, local, owner, bounds, ClientWork, addTimer
<1>3. Threads' = Threads /\ Collected' = Collected /\ Registered' = Registered
  BY <1>2, ThreadsKept, CollectedKept, RegisteredKept
<1>4. PipeAttended'  BY <1>1, <1>2, <1>3 DEF PipeAttended
<1>5. SharedTypes'
  <2>1. armed' \in Nat /\ tied' \in Nat  BY <1>1, <1>2 DEF SharedTypes
  <2>2. QED  BY <1>1, <1>2, <1>3, <2>1 DEF SharedTypes
<1>6. /\ Ind(p, ActivePc) = 1 /\ Ind(pc[t], ActivePc) = 1
      /\ Ind(p, IdlePc) = 0 /\ Ind(pc[t], IdlePc) = 0
      /\ Ind(p, RunningPc) = 1 /\ Ind(pc[t], RunningPc) = 1
      /\ Ind(p, CancellingPc) = 0 /\ Ind(pc[t], CancellingPc) = 0
      /\ Ind(p, TriggeringPc) = 0 /\ Ind(pc[t], TriggeringPc) = 0
  BY <1>2 DEF Ind, ActivePc, IdlePc, RunningPc, CancellingPc, TriggeringPc
<1>7. /\ m_activeThreadCount' = m_activeThreadCount + Ind(p, ActivePc) - Ind(pc[t], ActivePc)
      /\ m_idleThreadCount' = m_idleThreadCount + Ind(p, IdlePc) - Ind(pc[t], IdlePc)
  BY <1>1, <1>2, <1>6 DEF TypeOK
<1>8. m_pendingEvenCount' = m_pendingEvenCount + (Cardinality(Registered') + Ind(p, TriggeringPc))
                                               - (Cardinality(Registered) + Ind(pc[t], TriggeringPc))
  BY <1>1, <1>2, <1>3, <1>6 DEF TypeOK
<1>9. work' = work + (Elsewhere' + Ind(p, RunningPc) + Ind(p, CancellingPc))
                   - (Elsewhere + Ind(pc[t], RunningPc) + Ind(pc[t], CancellingPc))
  <2>1. m_tasks \in Nat /\ armed \in Nat /\ due \in Nat /\ tied \in Nat /\ done \in Nat /\ work \in Nat
    BY <1>1 DEF TypeOK
  <2>2. CASE armed' = armed + 1 /\ tied' = tied
    <3>1. Elsewhere' = Elsewhere + 1  BY <1>1, <1>2, <1>3, <2>1, <2>2 DEF Elsewhere
    <3>2. QED  BY <1>1, <1>2, <1>6, <2>1, <3>1
  <2>3. CASE armed' = armed /\ tied' = tied + 1
    <3>1. Elsewhere' = Elsewhere + 1  BY <1>1, <1>2, <1>3, <2>1, <2>3 DEF Elsewhere
    <3>2. QED  BY <1>1, <1>2, <1>6, <2>1, <3>1
  <2>4. QED  BY <1>2, <2>2, <2>3
<1>10. /\ p \notin {"post", "postTickle"} => cbs'[t] = 0
       /\ p \notin {"expire", "post", "postTickle", "dispatch", "dispatchTickle", "dispatchDec"} => evs'[t] = <<>>
       /\ \A u \in Threads \ {t} : cbs'[u] = cbs[u] /\ evs'[u] = evs[u] /\ idleDone'[u] = idleDone[u]
  BY <1>1, <1>2 DEF LocalsEmpty, TypeOK
<1>11. /\ p \in PcNames \ {"off"} /\ pc[t] \notin {"off", "exited"}
       /\ pc' = [pc EXCEPT ![t] = p] /\ UNCHANGED <<m_stopping, mainPc, stopTickles>>
       /\ (p = "exited" => idleDone'[t]) /\ (idleDone'[t] => m_stopping)
       /\ m_tasks' = 0 \/ ~Gone(t)' \/ (Gone(t) /\ m_tasks' = m_tasks)
  BY <1>1, <1>2 DEF LeaversDone, Gone, PcNames, TypeOK
<1>12. QED  BY <1>4, <1>5, <1>7, <1>8, <1>9, <1>10, <1>11, ThreadStep

\* A task waits for an event: addEvent counts it before the task yields.
LEMMA addEventInv ==
  ASSUME IndInv, config' = config, NEW t \in Threads, NEW e \in Events, addEvent(t, e)
  PROVE  IndInv'
<1>1. /\ TypeOK /\ SharedTypes /\ PipeAttended /\ LocalsEmpty /\ LeaversDone
      /\ Cardinality(Registered) \in Nat /\ Cardinality(Collected) \in Nat /\ Elsewhere \in Nat
  BY Known
<1> DEFINE p == "run"
<1>2. /\ pc[t] = "run" /\ pc' = [pc EXCEPT ![t] = p]
      /\ event[e] = "none" /\ event' = [event EXCEPT ![e] = "armed"]
      /\ m_pendingEvenCount' = m_pendingEvenCount + 1 /\ work' = work + 1
      /\ UNCHANGED <<m_tasks, m_activeThreadCount, m_idleThreadCount, m_stopping, armed,
                    due, tied, m_tickled, held, wants, bytes, edge, blocked, cbs, evs, idleDone,
                    mainPc, stopTickles, done>>
  BY <1>1 DEF addEvent, Goto, sched, timers, events, pipe, local, owner, bounds, ClientWork, TypeOK
<1>3. Threads' = Threads /\ Collected' = Collected
  BY <1>2, ThreadsKept, CollectedKept
<1>4. Cardinality(Registered') = Cardinality(Registered) + 1
  BY <1>1, <1>2, RegisteredMoves
<1>5. PipeAttended'  BY <1>1, <1>2, <1>3 DEF PipeAttended
<1>6. SharedTypes'  BY <1>1, <1>2, <1>3 DEF SharedTypes
<1>7. /\ Ind(p, ActivePc) = 1 /\ Ind(pc[t], ActivePc) = 1
      /\ Ind(p, IdlePc) = 0 /\ Ind(pc[t], IdlePc) = 0
      /\ Ind(p, RunningPc) = 1 /\ Ind(pc[t], RunningPc) = 1
      /\ Ind(p, CancellingPc) = 0 /\ Ind(pc[t], CancellingPc) = 0
      /\ Ind(p, TriggeringPc) = 0 /\ Ind(pc[t], TriggeringPc) = 0
  BY <1>2 DEF Ind, ActivePc, IdlePc, RunningPc, CancellingPc, TriggeringPc
<1>8. /\ m_activeThreadCount' = m_activeThreadCount + Ind(p, ActivePc) - Ind(pc[t], ActivePc)
      /\ m_idleThreadCount' = m_idleThreadCount + Ind(p, IdlePc) - Ind(pc[t], IdlePc)
  BY <1>1, <1>2, <1>7 DEF TypeOK
<1>9. m_pendingEvenCount' = m_pendingEvenCount + (Cardinality(Registered') + Ind(p, TriggeringPc))
                                               - (Cardinality(Registered) + Ind(pc[t], TriggeringPc))
  BY <1>1, <1>2, <1>3, <1>4, <1>7 DEF TypeOK
<1>10. work' = work + (Elsewhere' + Ind(p, RunningPc) + Ind(p, CancellingPc))
                   - (Elsewhere + Ind(pc[t], RunningPc) + Ind(pc[t], CancellingPc))
  <2>1. m_tasks \in Nat /\ armed \in Nat /\ due \in Nat /\ tied \in Nat /\ done \in Nat /\ work \in Nat
    BY <1>1 DEF TypeOK
  <2>2. Elsewhere' = Elsewhere + 1  BY <1>1, <1>2, <1>3, <1>4, <2>1 DEF Elsewhere
  <2>3. QED  BY <1>1, <1>2, <1>7, <2>1, <2>2
<1>11. /\ p \notin {"post", "postTickle"} => cbs'[t] = 0
       /\ p \notin {"expire", "post", "postTickle", "dispatch", "dispatchTickle", "dispatchDec"} => evs'[t] = <<>>
       /\ \A u \in Threads \ {t} : cbs'[u] = cbs[u] /\ evs'[u] = evs[u] /\ idleDone'[u] = idleDone[u]
  BY <1>1, <1>2 DEF LocalsEmpty, TypeOK
<1>12. /\ p \in PcNames \ {"off"} /\ pc[t] \notin {"off", "exited"}
       /\ pc' = [pc EXCEPT ![t] = p] /\ UNCHANGED <<m_stopping, mainPc, stopTickles>>
       /\ (p = "exited" => idleDone'[t]) /\ (idleDone'[t] => m_stopping)
       /\ m_tasks' = 0 \/ ~Gone(t)' \/ (Gone(t) /\ m_tasks' = m_tasks)
  BY <1>1, <1>2 DEF LeaversDone, Gone, PcNames, TypeOK
<1> HIDE DEF p
<1>13. QED  BY <1>5, <1>6, <1>8, <1>9, <1>10, <1>11, <1>12, ThreadStep

\* cancelEvent counts an event out and has its waiter to post.
LEMMA cancelEventInv ==
  ASSUME IndInv, config' = config, NEW t \in Threads, NEW e \in Events, cancelEvent(t, e)
  PROVE  IndInv'
<1>1. /\ TypeOK /\ SharedTypes /\ PipeAttended /\ LocalsEmpty /\ LeaversDone
      /\ Cardinality(Registered) \in Nat /\ Cardinality(Collected) \in Nat /\ Elsewhere \in Nat
  BY Known
<1> DEFINE p == "cancelPush"
<1>2. /\ pc[t] = "run" /\ pc' = [pc EXCEPT ![t] = p]
      /\ event[e] # "none" /\ event' = [event EXCEPT ![e] = "none"]
      /\ m_pendingEvenCount' = m_pendingEvenCount - 1 /\ held' = [held EXCEPT ![t] = {e}]
      /\ UNCHANGED <<m_tasks, m_activeThreadCount, m_idleThreadCount, m_stopping, armed,
                    due, tied, m_tickled, wants, bytes, edge, blocked, cbs, evs, idleDone,
                    mainPc, stopTickles, work, done>>
  BY DEF cancelEvent, Goto, sched, timers, events, pipe, local, owner, bounds
<1>3. Threads' = Threads /\ Collected' = Collected
  BY <1>2, ThreadsKept, CollectedKept
<1>4. Cardinality(Registered') = Cardinality(Registered) - 1
  BY <1>1, <1>2, RegisteredMoves
<1>5. PipeAttended'  BY <1>1, <1>2, <1>3 DEF PipeAttended
<1>6. SharedTypes'  BY <1>1, <1>2, <1>3 DEF SharedTypes
<1>7. /\ Ind(p, ActivePc) = 1 /\ Ind(pc[t], ActivePc) = 1
      /\ Ind(p, IdlePc) = 0 /\ Ind(pc[t], IdlePc) = 0
      /\ Ind(p, RunningPc) = 1 /\ Ind(pc[t], RunningPc) = 1
      /\ Ind(p, CancellingPc) = 1 /\ Ind(pc[t], CancellingPc) = 0
      /\ Ind(p, TriggeringPc) = 0 /\ Ind(pc[t], TriggeringPc) = 0
  BY <1>2 DEF Ind, ActivePc, IdlePc, RunningPc, CancellingPc, TriggeringPc
<1>8. /\ m_activeThreadCount' = m_activeThreadCount + Ind(p, ActivePc) - Ind(pc[t], ActivePc)
      /\ m_idleThreadCount' = m_idleThreadCount + Ind(p, IdlePc) - Ind(pc[t], IdlePc)
  BY <1>1, <1>2, <1>7 DEF TypeOK
<1>9. m_pendingEvenCount' = m_pendingEvenCount + (Cardinality(Registered') + Ind(p, TriggeringPc))
                                               - (Cardinality(Registered) + Ind(pc[t], TriggeringPc))
  BY <1>1, <1>2, <1>3, <1>4, <1>7 DEF TypeOK
<1>10. work' = work + (Elsewhere' + Ind(p, RunningPc) + Ind(p, CancellingPc))
                   - (Elsewhere + Ind(pc[t], RunningPc) + Ind(pc[t], CancellingPc))
  BY <1>1, <1>2, <1>3, <1>4, <1>7 DEF TypeOK, Elsewhere
<1>11. /\ p \notin {"post", "postTickle"} => cbs'[t] = 0
       /\ p \notin {"expire", "post", "postTickle", "dispatch", "dispatchTickle", "dispatchDec"} => evs'[t] = <<>>
       /\ \A u \in Threads \ {t} : cbs'[u] = cbs[u] /\ evs'[u] = evs[u] /\ idleDone'[u] = idleDone[u]
  BY <1>1, <1>2 DEF LocalsEmpty, TypeOK
<1>12. /\ p \in PcNames \ {"off"} /\ pc[t] \notin {"off", "exited"}
       /\ pc' = [pc EXCEPT ![t] = p] /\ UNCHANGED <<m_stopping, mainPc, stopTickles>>
       /\ (p = "exited" => idleDone'[t]) /\ (idleDone'[t] => m_stopping)
       /\ m_tasks' = 0 \/ ~Gone(t)' \/ (Gone(t) /\ m_tasks' = m_tasks)
  BY <1>1, <1>2 DEF LeaversDone, Gone, PcNames, TypeOK
<1> HIDE DEF p
<1>13. QED  BY <1>5, <1>6, <1>8, <1>9, <1>10, <1>11, <1>12, ThreadStep

\* cancelEvent hands the waiter to the scheduler.
LEMMA CancelPushesInv ==
  ASSUME IndInv, config' = config, NEW t \in Threads, CancelPushes(t)
  PROVE  IndInv'
<1>1. /\ TypeOK /\ SharedTypes /\ PipeAttended /\ LocalsEmpty /\ LeaversDone
      /\ Cardinality(Registered) \in Nat /\ Cardinality(Collected) \in Nat /\ Elsewhere \in Nat
  BY Known
<1>2. PICK p \in {"cancelTickle", "run"} :
        /\ pc[t] = "cancelPush" /\ pc' = [pc EXCEPT ![t] = p]
        /\ m_tasks' = m_tasks + 1
        /\ held' = held \/ held' = [held EXCEPT ![t] = {}]
        /\ UNCHANGED <<m_activeThreadCount, m_idleThreadCount, m_stopping, armed, due, tied,
                      m_tickled, event, wants, m_pendingEvenCount, bytes, edge, blocked,
                      cbs, evs, idleDone, mainPc, stopTickles, work, done>>
  BY DEF CancelPushes, Goto, sched, timers, events, pipe, local, owner, bounds, Push
<1>3. Threads' = Threads /\ Collected' = Collected /\ Registered' = Registered
  BY <1>2, ThreadsKept, CollectedKept, RegisteredKept
<1>4. PipeAttended'  BY <1>1, <1>2, <1>3 DEF PipeAttended
<1>5. SharedTypes'
  <2>1. held' \in [Threads -> SUBSET Events]  BY <1>1, <1>2 DEF SharedTypes
  <2>2. QED  BY <1>1, <1>2, <1>3, <2>1 DEF SharedTypes
<1>6. /\ Ind(p, ActivePc) = 1 /\ Ind(pc[t], ActivePc) = 1
      /\ Ind(p, IdlePc) = 0 /\ Ind(pc[t], IdlePc) = 0
      /\ Ind(p, RunningPc) = 1 /\ Ind(pc[t], RunningPc) = 1
      /\ Ind(p, CancellingPc) = 0 /\ Ind(pc[t], CancellingPc) = 1
      /\ Ind(p, TriggeringPc) = 0 /\ Ind(pc[t], TriggeringPc) = 0
  BY <1>2 DEF Ind, ActivePc, IdlePc, RunningPc, CancellingPc, TriggeringPc
<1>7. /\ m_activeThreadCount' = m_activeThreadCount + Ind(p, ActivePc) - Ind(pc[t], ActivePc)
      /\ m_idleThreadCount' = m_idleThreadCount + Ind(p, IdlePc) - Ind(pc[t], IdlePc)
  BY <1>1, <1>2, <1>6 DEF TypeOK
<1>8. m_pendingEvenCount' = m_pendingEvenCount + (Cardinality(Registered') + Ind(p, TriggeringPc))
                                               - (Cardinality(Registered) + Ind(pc[t], TriggeringPc))
  BY <1>1, <1>2, <1>3, <1>6 DEF TypeOK
<1>9. work' = work + (Elsewhere' + Ind(p, RunningPc) + Ind(p, CancellingPc))
                   - (Elsewhere + Ind(pc[t], RunningPc) + Ind(pc[t], CancellingPc))
  BY <1>1, <1>2, <1>3, <1>6 DEF TypeOK, Elsewhere
<1>10. /\ p \notin {"post", "postTickle"} => cbs'[t] = 0
       /\ p \notin {"expire", "post", "postTickle", "dispatch", "dispatchTickle", "dispatchDec"} => evs'[t] = <<>>
       /\ \A u \in Threads \ {t} : cbs'[u] = cbs[u] /\ evs'[u] = evs[u] /\ idleDone'[u] = idleDone[u]
  BY <1>1, <1>2 DEF LocalsEmpty, TypeOK
<1>11. /\ p \in PcNames \ {"off"} /\ pc[t] \notin {"off", "exited"}
       /\ pc' = [pc EXCEPT ![t] = p] /\ UNCHANGED <<m_stopping, mainPc, stopTickles>>
       /\ (p = "exited" => idleDone'[t]) /\ (idleDone'[t] => m_stopping)
       /\ m_tasks' = 0 \/ ~Gone(t)' \/ (Gone(t) /\ m_tasks' = m_tasks)
  BY <1>1, <1>2 DEF LeaversDone, Gone, PcNames, TypeOK
<1>12. QED  BY <1>4, <1>5, <1>7, <1>8, <1>9, <1>10, <1>11, ThreadStep

\* A task returns or yields.
LEMMA TaskEndsInv ==
  ASSUME IndInv, config' = config, NEW t \in Threads, TaskEnds(t)
  PROVE  IndInv'
<1>1. /\ TypeOK /\ SharedTypes /\ PipeAttended /\ LocalsEmpty /\ LeaversDone
      /\ Cardinality(Registered) \in Nat /\ Cardinality(Collected) \in Nat /\ Elsewhere \in Nat
  BY Known
<1> DEFINE p == "dec"
<1>2. /\ pc[t] = "run" /\ pc' = [pc EXCEPT ![t] = p]
      /\ done' = done + 1
      /\ UNCHANGED <<m_tasks, m_activeThreadCount, m_idleThreadCount, m_stopping, armed,
                    due, tied, m_tickled, event, held, wants, m_pendingEvenCount, bytes, edge,
                    blocked, cbs, evs, idleDone, mainPc, stopTickles, work>>
  BY DEF TaskEnds, Goto, sched, timers, events, pipe, local, owner, bounds
<1>3. Threads' = Threads /\ Collected' = Collected /\ Registered' = Registered
  BY <1>2, ThreadsKept, CollectedKept, RegisteredKept
<1>4. PipeAttended'  BY <1>1, <1>2, <1>3 DEF PipeAttended
<1>5. SharedTypes'  BY <1>1, <1>2, <1>3 DEF SharedTypes
<1>6. /\ Ind(p, ActivePc) = 1 /\ Ind(pc[t], ActivePc) = 1
      /\ Ind(p, IdlePc) = 0 /\ Ind(pc[t], IdlePc) = 0
      /\ Ind(p, RunningPc) = 0 /\ Ind(pc[t], RunningPc) = 1
      /\ Ind(p, CancellingPc) = 0 /\ Ind(pc[t], CancellingPc) = 0
      /\ Ind(p, TriggeringPc) = 0 /\ Ind(pc[t], TriggeringPc) = 0
  BY <1>2 DEF Ind, ActivePc, IdlePc, RunningPc, CancellingPc, TriggeringPc
<1>7. /\ m_activeThreadCount' = m_activeThreadCount + Ind(p, ActivePc) - Ind(pc[t], ActivePc)
      /\ m_idleThreadCount' = m_idleThreadCount + Ind(p, IdlePc) - Ind(pc[t], IdlePc)
  BY <1>1, <1>2, <1>6 DEF TypeOK
<1>8. m_pendingEvenCount' = m_pendingEvenCount + (Cardinality(Registered') + Ind(p, TriggeringPc))
                                               - (Cardinality(Registered) + Ind(pc[t], TriggeringPc))
  BY <1>1, <1>2, <1>3, <1>6 DEF TypeOK
<1>9. work' = work + (Elsewhere' + Ind(p, RunningPc) + Ind(p, CancellingPc))
                   - (Elsewhere + Ind(pc[t], RunningPc) + Ind(pc[t], CancellingPc))
  BY <1>1, <1>2, <1>3, <1>6 DEF TypeOK, Elsewhere
<1>10. /\ p \notin {"post", "postTickle"} => cbs'[t] = 0
       /\ p \notin {"expire", "post", "postTickle", "dispatch", "dispatchTickle", "dispatchDec"} => evs'[t] = <<>>
       /\ \A u \in Threads \ {t} : cbs'[u] = cbs[u] /\ evs'[u] = evs[u] /\ idleDone'[u] = idleDone[u]
  BY <1>1, <1>2 DEF LocalsEmpty, TypeOK
<1>11. /\ p \in PcNames \ {"off"} /\ pc[t] \notin {"off", "exited"}
       /\ pc' = [pc EXCEPT ![t] = p] /\ UNCHANGED <<m_stopping, mainPc, stopTickles>>
       /\ (p = "exited" => idleDone'[t]) /\ (idleDone'[t] => m_stopping)
       /\ m_tasks' = 0 \/ ~Gone(t)' \/ (Gone(t) /\ m_tasks' = m_tasks)
  BY <1>1, <1>2 DEF LeaversDone, Gone, PcNames, TypeOK
<1> HIDE DEF p
<1>12. QED  BY <1>4, <1>5, <1>7, <1>8, <1>9, <1>10, <1>11, ThreadStep

\* listExpiredCb moves what is due into the thread's vector, which was empty.
LEMMA listExpiredCbInv ==
  ASSUME IndInv, config' = config, NEW t \in Threads, listExpiredCb(t)
  PROVE  IndInv'
<1>1. /\ TypeOK /\ SharedTypes /\ PipeAttended /\ LocalsEmpty /\ LeaversDone
      /\ Cardinality(Registered) \in Nat /\ Cardinality(Collected) \in Nat /\ Elsewhere \in Nat
  BY Known
<1> DEFINE p == "post"
<1>2. /\ pc[t] = "expire" /\ pc' = [pc EXCEPT ![t] = p]
      /\ cbs' = [cbs EXCEPT ![t] = due] /\ due' = 0
      /\ UNCHANGED <<m_tasks, m_activeThreadCount, m_idleThreadCount, m_stopping, armed, tied,
                    m_tickled, event, held, wants, m_pendingEvenCount, bytes, edge, blocked,
                    evs, idleDone, mainPc, stopTickles, work, done>>
  BY DEF listExpiredCb, Goto, sched, timers, events, pipe, local, owner, bounds
<1>3. Threads' = Threads /\ Registered' = Registered
  BY <1>2, ThreadsKept, RegisteredKept
<1>4. Cardinality(Collected') = Cardinality(Collected) + due
  <2>1. cbs[t] = 0 /\ due \in Nat  BY <1>1, <1>2 DEF LocalsEmpty, TypeOK
  <2>2. Cardinality(Collected') = Cardinality(Collected) - cbs[t] + due  BY <1>1, <1>2, <2>1, CollectedMoves
  <2>3. QED  BY <1>1, <2>1, <2>2
<1>5. PipeAttended'  BY <1>1, <1>2, <1>3 DEF PipeAttended
<1>6. SharedTypes'  BY <1>1, <1>2, <1>3 DEF SharedTypes
<1>7. /\ Ind(p, ActivePc) = 0 /\ Ind(pc[t], ActivePc) = 0
      /\ Ind(p, IdlePc) = 1 /\ Ind(pc[t], IdlePc) = 1
      /\ Ind(p, RunningPc) = 0 /\ Ind(pc[t], RunningPc) = 0
      /\ Ind(p, CancellingPc) = 0 /\ Ind(pc[t], CancellingPc) = 0
      /\ Ind(p, TriggeringPc) = 0 /\ Ind(pc[t], TriggeringPc) = 0
  BY <1>2 DEF Ind, ActivePc, IdlePc, RunningPc, CancellingPc, TriggeringPc
<1>8. /\ m_activeThreadCount' = m_activeThreadCount + Ind(p, ActivePc) - Ind(pc[t], ActivePc)
      /\ m_idleThreadCount' = m_idleThreadCount + Ind(p, IdlePc) - Ind(pc[t], IdlePc)
  BY <1>1, <1>2, <1>7 DEF TypeOK
<1>9. m_pendingEvenCount' = m_pendingEvenCount + (Cardinality(Registered') + Ind(p, TriggeringPc))
                                               - (Cardinality(Registered) + Ind(pc[t], TriggeringPc))
  BY <1>1, <1>2, <1>3, <1>4, <1>7 DEF TypeOK
<1>10. work' = work + (Elsewhere' + Ind(p, RunningPc) + Ind(p, CancellingPc))
                   - (Elsewhere + Ind(pc[t], RunningPc) + Ind(pc[t], CancellingPc))
  BY <1>1, <1>2, <1>3, <1>4, <1>7 DEF TypeOK, Elsewhere
<1>11. /\ p \notin {"post", "postTickle"} => cbs'[t] = 0
       /\ p \notin {"expire", "post", "postTickle", "dispatch", "dispatchTickle", "dispatchDec"} => evs'[t] = <<>>
       /\ \A u \in Threads \ {t} : cbs'[u] = cbs[u] /\ evs'[u] = evs[u] /\ idleDone'[u] = idleDone[u]
  BY <1>1, <1>2 DEF LocalsEmpty, TypeOK
<1>12. /\ p \in PcNames \ {"off"} /\ pc[t] \notin {"off", "exited"}
       /\ pc' = [pc EXCEPT ![t] = p] /\ UNCHANGED <<m_stopping, mainPc, stopTickles>>
       /\ (p = "exited" => idleDone'[t]) /\ (idleDone'[t] => m_stopping)
       /\ m_tasks' = 0 \/ ~Gone(t)' \/ (Gone(t) /\ m_tasks' = m_tasks)
  BY <1>1, <1>2 DEF LeaversDone, Gone, PcNames, TypeOK
<1> HIDE DEF p
<1>13. QED  BY <1>5, <1>6, <1>8, <1>9, <1>10, <1>11, <1>12, ThreadStep

\* The loop of idle() posts one of the callbacks it has collected.
LEMMA PostOneInv ==
  ASSUME IndInv, config' = config, NEW t \in Threads, PostExpired(t), cbs[t] > 0
  PROVE  IndInv'
<1>1. /\ TypeOK /\ SharedTypes /\ PipeAttended /\ LocalsEmpty /\ LeaversDone
      /\ Cardinality(Registered) \in Nat /\ Cardinality(Collected) \in Nat /\ Elsewhere \in Nat
  BY Known
<1>2. PICK p \in {"postTickle", "post"} :
        /\ pc[t] = "post" /\ pc' = [pc EXCEPT ![t] = p]
        /\ cbs[t] > 0 /\ cbs' = [cbs EXCEPT ![t] = @ - 1] /\ m_tasks' = m_tasks + 1
        /\ UNCHANGED <<m_activeThreadCount, m_idleThreadCount, m_stopping, armed, due, tied,
                      m_tickled, event, held, wants, m_pendingEvenCount, bytes, edge, blocked,
                      evs, idleDone, mainPc, stopTickles, work, done>>
  BY DEF PostExpired, Goto, sched, timers, events, pipe, local, owner, bounds, Push
<1>3. Threads' = Threads /\ Registered' = Registered
  BY <1>2, ThreadsKept, RegisteredKept
<1>4. Cardinality(Collected') = Cardinality(Collected) - 1
  <2>1. cbs[t] \in Nat /\ cbs[t] - 1 \in Nat  BY <1>1, <1>2 DEF TypeOK
  <2>2. Cardinality(Collected') = Cardinality(Collected) - cbs[t] + (cbs[t] - 1)  BY <1>1, <1>2, <2>1, CollectedMoves
  <2>3. QED  BY <1>1, <2>1, <2>2
<1>5. PipeAttended'  BY <1>1, <1>2, <1>3 DEF PipeAttended
<1>6. SharedTypes'  BY <1>1, <1>2, <1>3 DEF SharedTypes
<1>7. /\ Ind(p, ActivePc) = 0 /\ Ind(pc[t], ActivePc) = 0
      /\ Ind(p, IdlePc) = 1 /\ Ind(pc[t], IdlePc) = 1
      /\ Ind(p, RunningPc) = 0 /\ Ind(pc[t], RunningPc) = 0
      /\ Ind(p, CancellingPc) = 0 /\ Ind(pc[t], CancellingPc) = 0
      /\ Ind(p, TriggeringPc) = 0 /\ Ind(pc[t], TriggeringPc) = 0
  BY <1>2 DEF Ind, ActivePc, IdlePc, RunningPc, CancellingPc, TriggeringPc
<1>8. /\ m_activeThreadCount' = m_activeThreadCount + Ind(p, ActivePc) - Ind(pc[t], ActivePc)
      /\ m_idleThreadCount' = m_idleThreadCount + Ind(p, IdlePc) - Ind(pc[t], IdlePc)
  BY <1>1, <1>2, <1>7 DEF TypeOK
<1>9. m_pendingEvenCount' = m_pendingEvenCount + (Cardinality(Registered') + Ind(p, TriggeringPc))
                                               - (Cardinality(Registered) + Ind(pc[t], TriggeringPc))
  BY <1>1, <1>2, <1>3, <1>4, <1>7 DEF TypeOK
<1>10. work' = work + (Elsewhere' + Ind(p, RunningPc) + Ind(p, CancellingPc))
                   - (Elsewhere + Ind(pc[t], RunningPc) + Ind(pc[t], CancellingPc))
  BY <1>1, <1>2, <1>3, <1>4, <1>7 DEF TypeOK, Elsewhere
<1>11. /\ p \notin {"post", "postTickle"} => cbs'[t] = 0
       /\ p \notin {"expire", "post", "postTickle", "dispatch", "dispatchTickle", "dispatchDec"} => evs'[t] = <<>>
       /\ \A u \in Threads \ {t} : cbs'[u] = cbs[u] /\ evs'[u] = evs[u] /\ idleDone'[u] = idleDone[u]
  BY <1>1, <1>2 DEF LocalsEmpty, TypeOK
<1>12. /\ p \in PcNames \ {"off"} /\ pc[t] \notin {"off", "exited"}
       /\ pc' = [pc EXCEPT ![t] = p] /\ UNCHANGED <<m_stopping, mainPc, stopTickles>>
       /\ (p = "exited" => idleDone'[t]) /\ (idleDone'[t] => m_stopping)
       /\ m_tasks' = 0 \/ ~Gone(t)' \/ (Gone(t) /\ m_tasks' = m_tasks)
  BY <1>1, <1>2 DEF LeaversDone, Gone, PcNames, TypeOK
<1>13. QED  BY <1>5, <1>6, <1>8, <1>9, <1>10, <1>11, <1>12, ThreadStep

\* The loop of idle() triggers the waiter of a reported event.
LEMMA DispatchTriggersInv ==
  ASSUME IndInv, config' = config, NEW t \in Threads, DispatchTriggers(t)
  PROVE  IndInv'
<1>1. /\ TypeOK /\ SharedTypes /\ PipeAttended /\ LocalsEmpty /\ LeaversDone
      /\ Cardinality(Registered) \in Nat /\ Cardinality(Collected) \in Nat /\ Elsewhere \in Nat
  BY Known
<1>2. PICK p \in {"dispatchTickle", "dispatchDec"}, e \in Events :
        /\ pc[t] = "dispatch" /\ pc' = [pc EXCEPT ![t] = p]
        /\ event[e] # "none" /\ event' = [event EXCEPT ![e] = "none"]
        /\ evs' = [evs EXCEPT ![t] = Tail(@)] /\ held' = [held EXCEPT ![t] = {e}] /\ m_tasks' = m_tasks + 1
        /\ e # Pipe /\ evs[t] # <<>> /\ Head(evs[t]) = e
        /\ UNCHANGED <<m_activeThreadCount, m_idleThreadCount, m_stopping, armed, due, tied,
                      m_tickled, wants, m_pendingEvenCount, bytes, edge, blocked, cbs, idleDone,
                      mainPc, stopTickles, work, done>>
  BY IOManagerAssumption DEF DispatchTriggers, Reached, Goto, sched, timers, events, pipe, local, owner, bounds, Push
<1>3. Threads' = Threads /\ Collected' = Collected
  BY <1>2, ThreadsKept, CollectedKept
<1>4. Cardinality(Registered') = Cardinality(Registered) - 1
  BY <1>1, <1>2, RegisteredMoves
<1>5. PipeAttended'
  <2>1. \A u \in Threads : Pipe \in Holds(evs'[u]) <=> Pipe \in Holds(evs[u])  BY <1>1, <1>2, NextReport
  <2>2. QED  BY <1>1, <1>2, <1>3, <2>1 DEF PipeAttended
<1>6. SharedTypes'
  <2>1. evs' \in [Threads -> Seq(Events \cup {Pipe})]  BY <1>1, <1>2, NextReport
  <2>2. QED  BY <1>1, <1>2, <1>3, <2>1 DEF SharedTypes
<1>7. /\ Ind(p, ActivePc) = 0 /\ Ind(pc[t], ActivePc) = 0
      /\ Ind(p, IdlePc) = 1 /\ Ind(pc[t], IdlePc) = 1
      /\ Ind(p, RunningPc) = 0 /\ Ind(pc[t], RunningPc) = 0
      /\ Ind(p, CancellingPc) = 0 /\ Ind(pc[t], CancellingPc) = 0
      /\ Ind(p, TriggeringPc) = 1 /\ Ind(pc[t], TriggeringPc) = 0
  BY <1>2 DEF Ind, ActivePc, IdlePc, RunningPc, CancellingPc, TriggeringPc
<1>8. /\ m_activeThreadCount' = m_activeThreadCount + Ind(p, ActivePc) - Ind(pc[t], ActivePc)
      /\ m_idleThreadCount' = m_idleThreadCount + Ind(p, IdlePc) - Ind(pc[t], IdlePc)
  BY <1>1, <1>2, <1>7 DEF TypeOK
<1>9. m_pendingEvenCount' = m_pendingEvenCount + (Cardinality(Registered') + Ind(p, TriggeringPc))
                                               - (Cardinality(Registered) + Ind(pc[t], TriggeringPc))
  BY <1>1, <1>2, <1>3, <1>4, <1>7 DEF TypeOK
<1>10. work' = work + (Elsewhere' + Ind(p, RunningPc) + Ind(p, CancellingPc))
                   - (Elsewhere + Ind(pc[t], RunningPc) + Ind(pc[t], CancellingPc))
  BY <1>1, <1>2, <1>3, <1>4, <1>7 DEF TypeOK, Elsewhere
<1>11. /\ p \notin {"post", "postTickle"} => cbs'[t] = 0
       /\ p \notin {"expire", "post", "postTickle", "dispatch", "dispatchTickle", "dispatchDec"} => evs'[t] = <<>>
       /\ \A u \in Threads \ {t} : cbs'[u] = cbs[u] /\ evs'[u] = evs[u] /\ idleDone'[u] = idleDone[u]
  BY <1>1, <1>2 DEF LocalsEmpty, TypeOK
<1>12. /\ p \in PcNames \ {"off"} /\ pc[t] \notin {"off", "exited"}
       /\ pc' = [pc EXCEPT ![t] = p] /\ UNCHANGED <<m_stopping, mainPc, stopTickles>>
       /\ (p = "exited" => idleDone'[t]) /\ (idleDone'[t] => m_stopping)
       /\ m_tasks' = 0 \/ ~Gone(t)' \/ (Gone(t) /\ m_tasks' = m_tasks)
  BY <1>1, <1>2 DEF LeaversDone, Gone, PcNames, TypeOK
<1>13. QED  BY <1>5, <1>6, <1>8, <1>9, <1>10, <1>11, <1>12, ThreadStep

\* The triggered event is counted out.
LEMMA DispatchCountsInv ==
  ASSUME IndInv, config' = config, NEW t \in Threads, DispatchCounts(t)
  PROVE  IndInv'
<1>1. /\ TypeOK /\ SharedTypes /\ PipeAttended /\ LocalsEmpty /\ LeaversDone
      /\ Cardinality(Registered) \in Nat /\ Cardinality(Collected) \in Nat /\ Elsewhere \in Nat
  BY Known
<1> DEFINE p == "dispatch"
<1>2. /\ pc[t] = "dispatchDec" /\ pc' = [pc EXCEPT ![t] = p]
      /\ m_pendingEvenCount' = m_pendingEvenCount - 1 /\ held' = [held EXCEPT ![t] = {}]
      /\ UNCHANGED <<m_tasks, m_activeThreadCount, m_idleThreadCount, m_stopping, armed,
                    due, tied, m_tickled, event, wants, bytes, edge, blocked, cbs, evs, idleDone,
                    mainPc, stopTickles, work, done>>
  BY DEF DispatchCounts, Goto, sched, timers, events, pipe, local, owner, bounds
<1>3. Threads' = Threads /\ Collected' = Collected /\ Registered' = Registered
  BY <1>2, ThreadsKept, CollectedKept, RegisteredKept
<1>4. PipeAttended'  BY <1>1, <1>2, <1>3 DEF PipeAttended
<1>5. SharedTypes'  BY <1>1, <1>2, <1>3 DEF SharedTypes
<1>6. /\ Ind(p, ActivePc) = 0 /\ Ind(pc[t], ActivePc) = 0
      /\ Ind(p, IdlePc) = 1 /\ Ind(pc[t], IdlePc) = 1
      /\ Ind(p, RunningPc) = 0 /\ Ind(pc[t], RunningPc) = 0
      /\ Ind(p, CancellingPc) = 0 /\ Ind(pc[t], CancellingPc) = 0
      /\ Ind(p, TriggeringPc) = 0 /\ Ind(pc[t], TriggeringPc) = 1
  BY <1>2 DEF Ind, ActivePc, IdlePc, RunningPc, CancellingPc, TriggeringPc
<1>7. /\ m_activeThreadCount' = m_activeThreadCount + Ind(p, ActivePc) - Ind(pc[t], ActivePc)
      /\ m_idleThreadCount' = m_idleThreadCount + Ind(p, IdlePc) - Ind(pc[t], IdlePc)
  BY <1>1, <1>2, <1>6 DEF TypeOK
<1>8. m_pendingEvenCount' = m_pendingEvenCount + (Cardinality(Registered') + Ind(p, TriggeringPc))
                                               - (Cardinality(Registered) + Ind(pc[t], TriggeringPc))
  BY <1>1, <1>2, <1>3, <1>6 DEF TypeOK
<1>9. work' = work + (Elsewhere' + Ind(p, RunningPc) + Ind(p, CancellingPc))
                   - (Elsewhere + Ind(pc[t], RunningPc) + Ind(pc[t], CancellingPc))
  BY <1>1, <1>2, <1>3, <1>6 DEF TypeOK, Elsewhere
<1>10. /\ p \notin {"post", "postTickle"} => cbs'[t] = 0
       /\ p \notin {"expire", "post", "postTickle", "dispatch", "dispatchTickle", "dispatchDec"} => evs'[t] = <<>>
       /\ \A u \in Threads \ {t} : cbs'[u] = cbs[u] /\ evs'[u] = evs[u] /\ idleDone'[u] = idleDone[u]
  BY <1>1, <1>2 DEF LocalsEmpty, TypeOK
<1>11. /\ p \in PcNames \ {"off"} /\ pc[t] \notin {"off", "exited"}
       /\ pc' = [pc EXCEPT ![t] = p] /\ UNCHANGED <<m_stopping, mainPc, stopTickles>>
       /\ (p = "exited" => idleDone'[t]) /\ (idleDone'[t] => m_stopping)
       /\ m_tasks' = 0 \/ ~Gone(t)' \/ (Gone(t) /\ m_tasks' = m_tasks)
  BY <1>1, <1>2 DEF LeaversDone, Gone, PcNames, TypeOK
<1> HIDE DEF p
<1>12. QED  BY <1>4, <1>5, <1>7, <1>8, <1>9, <1>10, <1>11, ThreadStep

\* After the last callback the loop goes on to the reports.
LEMMA PostEndsInv ==
  ASSUME IndInv, config' = config, NEW t \in Threads, PostExpired(t), ~(cbs[t] > 0)
  PROVE  IndInv'
<1>1. TypeOK /\ LocalsEmpty /\ LeaversDone  BY Known
<1>2. /\ pc[t] = "post" /\ pc' = [pc EXCEPT ![t] = "dispatch"] /\ cbs[t] = 0
      /\ UNCHANGED <<m_tasks, m_activeThreadCount, m_idleThreadCount, m_stopping, armed, due, tied,
                     event, held, wants, m_pendingEvenCount, bytes, edge, blocked, cbs, evs,
                     mainPc, stopTickles, work, done>>
      /\ idleDone' = idleDone /\ m_tickled' = m_tickled
  BY DEF PostExpired, Goto, timers, events, pipe, owner, bounds
<1>3. "dispatch" \in PcNames \ {"off"} /\ pc[t] \notin {"off", "exited"}  BY <1>2 DEF PcNames
<1>4. /\ "dispatch" \in ActivePc <=> pc[t] \in ActivePc
      /\ "dispatch" \in IdlePc <=> pc[t] \in IdlePc
      /\ "dispatch" \in RunningPc <=> pc[t] \in RunningPc
      /\ "dispatch" \in CancellingPc <=> pc[t] \in CancellingPc
      /\ "dispatch" \in TriggeringPc <=> pc[t] \in TriggeringPc
  BY <1>2 DEF ActivePc, IdlePc, RunningPc, CancellingPc, TriggeringPc
<1>5. m_tickled' \in BOOLEAN /\ idleDone' \in [Threads -> BOOLEAN]  BY <1>1, <1>2 DEF TypeOK
<1>6. (idleDone'[t] => m_stopping) /\ ~Gone(t)'  BY <1>1, <1>2 DEF LeaversDone, Gone, TypeOK
<1>7. QED  BY <1>2, <1>3, <1>4, <1>5, <1>6, QuietStep

-----------------------------------------------------------------------------
(* Steps about the pipe and the reports of epoll_wait.                      *)

\* A thread's step that changes only the pipe, what epoll has reported, mutexes, and
\* where the thread is, between places that all counts treat alike.
LEMMA PipeStep ==
  ASSUME IndInv, config' = config, NEW t \in Threads, NEW p \in PcNames \ {"off", "exited", "noTask"},
         pc[t] \notin {"off", "exited"}, pc' = [pc EXCEPT ![t] = p],
         UNCHANGED <<m_tasks, m_activeThreadCount, m_idleThreadCount, m_stopping, armed, due, tied,
                     m_pendingEvenCount, cbs, idleDone, mainPc, stopTickles, work, done>>,
         Registered' = Registered, SharedTypes', PipeAttended',
         p \in ActivePc <=> pc[t] \in ActivePc, p \in IdlePc <=> pc[t] \in IdlePc,
         p \in RunningPc <=> pc[t] \in RunningPc, p \in CancellingPc <=> pc[t] \in CancellingPc,
         p \in TriggeringPc <=> pc[t] \in TriggeringPc,
         \A u \in Threads \ {t} : evs'[u] = evs[u],
         p \notin {"post", "postTickle"} => cbs[t] = 0,
         p \notin {"expire", "post", "postTickle", "dispatch", "dispatchTickle", "dispatchDec"} => evs'[t] = <<>>
  PROVE  IndInv'
<1>1. /\ TypeOK /\ LeaversDone
      /\ Cardinality(Registered) \in Nat /\ Cardinality(Collected) \in Nat /\ Elsewhere \in Nat
  BY Known
<1>2. Collected' = Collected  BY CollectedKept
<1>3. /\ Ind(p, ActivePc) = Ind(pc[t], ActivePc) /\ Ind(p, IdlePc) = Ind(pc[t], IdlePc)
      /\ Ind(p, RunningPc) = Ind(pc[t], RunningPc) /\ Ind(p, CancellingPc) = Ind(pc[t], CancellingPc)
      /\ Ind(p, TriggeringPc) = Ind(pc[t], TriggeringPc)
  BY DEF Ind
<1>4. \A X : Ind(pc[t], X) \in Nat  BY DEF Ind
<1>5. m_activeThreadCount' = m_activeThreadCount + Ind(p, ActivePc) - Ind(pc[t], ActivePc)
  BY <1>1, <1>3, <1>4 DEF TypeOK
<1>6. m_idleThreadCount' = m_idleThreadCount + Ind(p, IdlePc) - Ind(pc[t], IdlePc)
  BY <1>1, <1>3, <1>4 DEF TypeOK
<1>7. m_pendingEvenCount' = m_pendingEvenCount + (Cardinality(Registered') + Ind(p, TriggeringPc))
                                               - (Cardinality(Registered) + Ind(pc[t], TriggeringPc))
  BY <1>1, <1>3, <1>4 DEF TypeOK
<1>8. Elsewhere' = Elsewhere  BY <1>2 DEF Elsewhere
<1>9. work' = work + (Elsewhere' + Ind(p, RunningPc) + Ind(p, CancellingPc))
                   - (Elsewhere + Ind(pc[t], RunningPc) + Ind(pc[t], CancellingPc))
  BY <1>1, <1>3, <1>4, <1>8 DEF TypeOK
<1>10. /\ \A u \in Threads \ {t} : cbs'[u] = cbs[u] /\ evs'[u] = evs[u] /\ idleDone'[u] = idleDone[u]
       /\ p \notin {"post", "postTickle"} => cbs'[t] = 0
       /\ p \in PcNames \ {"off"} /\ UNCHANGED <<m_stopping, mainPc, stopTickles>>
  OBVIOUS
<1>11. /\ (p = "exited" => idleDone'[t]) /\ (idleDone'[t] => m_stopping)
       /\ m_tasks' = 0 \/ ~Gone(t)' \/ (Gone(t) /\ m_tasks' = m_tasks)
  BY <1>1 DEF LeaversDone, Gone, TypeOK
<1>12. QED  BY <1>5, <1>6, <1>7, <1>9, <1>10, <1>11, ThreadStep

\* tickle() keeps the pipe looked after: it writes a byte only with an edge.
LEMMA TickleFacts ==
  ASSUME SharedTypes, PipeAttended, NEW w, tickle(w), config' = config, evs' = evs
  PROVE  /\ bytes' \in 0..PipeCapacity /\ edge' \in BOOLEAN /\ blocked' \in SUBSET (Threads \cup {Root})
         /\ PipeAttended'
<1>1. Threads' = Threads  BY ThreadsKept
<1>2. CASE UNCHANGED pipe
  <2>1. bytes' = bytes /\ edge' = edge /\ blocked' = blocked  BY <1>2 DEF pipe
  <2>2. QED  BY <1>1, <2>1 DEF SharedTypes, PipeAttended
<1>3. CASE bytes < PipeCapacity /\ bytes' = bytes + 1 /\ edge' = TRUE /\ blocked' = blocked \ {w}
  <2>1. bytes' \in 0..PipeCapacity /\ blocked' \in SUBSET (Threads \cup {Root})
    BY <1>3, IOManagerAssumption DEF SharedTypes
  <2>2. edge' \in BOOLEAN  BY <1>3
  <2>3. PipeAttended'  BY <1>3 DEF PipeAttended
  <2>4. QED  BY <2>1, <2>2, <2>3
<1>4. QED  BY <1>2, <1>3 DEF tickle

\* The call of tickle() after a critical section.
LEMMA TicklesInv ==
  ASSUME IndInv, config' = config, NEW t \in Threads, Tickles(t)
  PROVE  IndInv'
<1>1. TypeOK /\ SharedTypes /\ PipeAttended /\ LocalsEmpty  BY Known
<1>2. /\ tickle(t)
      /\ UNCHANGED <<m_tasks, m_activeThreadCount, m_idleThreadCount, m_stopping, armed, due, tied,
                     m_tickled, event, held, wants, m_pendingEvenCount, cbs, evs, idleDone,
                     mainPc, stopTickles, work, done>>
  BY DEF Tickles, sched, timers, events, local, owner, bounds
<1>3. Threads' = Threads /\ Registered' = Registered  BY <1>2, ThreadsKept, RegisteredKept
<1>4. /\ bytes' \in 0..PipeCapacity /\ edge' \in BOOLEAN /\ blocked' \in SUBSET (Threads \cup {Root})
      /\ PipeAttended'
  BY <1>1, <1>2, TickleFacts
<1>5. SharedTypes'  BY <1>1, <1>2, <1>3, <1>4 DEF SharedTypes
<1>6. PICK p \in {"run", "post", "dispatchDec"} :
        /\ pc' = [pc EXCEPT ![t] = p]
        /\ \/ p = "run" /\ pc[t] \in {"scanTickle", "runTickle"}
           \/ p = "post" /\ pc[t] = "postTickle"
           \/ p = "dispatchDec" /\ pc[t] = "dispatchTickle"
  BY DEF Tickles, Goto
<1>7. /\ p \in PcNames \ {"off", "exited", "noTask"} /\ pc[t] \notin {"off", "exited"}
      /\ (p \in ActivePc <=> pc[t] \in ActivePc) /\ (p \in IdlePc <=> pc[t] \in IdlePc)
      /\ (p \in RunningPc <=> pc[t] \in RunningPc) /\ (p \in CancellingPc <=> pc[t] \in CancellingPc)
      /\ (p \in TriggeringPc <=> pc[t] \in TriggeringPc)
  BY <1>6 DEF PcNames, ActivePc, IdlePc, RunningPc, CancellingPc, TriggeringPc
<1>8. /\ p \notin {"post", "postTickle"} => cbs[t] = 0
      /\ p \notin {"expire", "post", "postTickle", "dispatch", "dispatchTickle", "dispatchDec"} => evs'[t] = <<>>
  BY <1>1, <1>2, <1>6 DEF LocalsEmpty
<1>9. QED  BY <1>2, <1>3, <1>4, <1>5, <1>6, <1>7, <1>8, PipeStep

\* cancelEvent releases the mutex after its call of tickle().
LEMMA CancelTicklesInv ==
  ASSUME IndInv, config' = config, NEW t \in Threads, CancelTickles(t)
  PROVE  IndInv'
<1>1. TypeOK /\ SharedTypes /\ PipeAttended /\ LocalsEmpty  BY Known
<1>2. /\ tickle(t) /\ pc[t] = "cancelTickle" /\ pc' = [pc EXCEPT ![t] = "run"]
      /\ held' = [held EXCEPT ![t] = {}]
      /\ UNCHANGED <<m_tasks, m_activeThreadCount, m_idleThreadCount, m_stopping, armed, due, tied,
                     m_tickled, event, wants, m_pendingEvenCount, cbs, evs, idleDone,
                     mainPc, stopTickles, work, done>>
  BY DEF CancelTickles, Goto, sched, timers, local, owner, bounds
<1>3. Threads' = Threads /\ Registered' = Registered  BY <1>2, ThreadsKept, RegisteredKept
<1>4. /\ bytes' \in 0..PipeCapacity /\ edge' \in BOOLEAN /\ blocked' \in SUBSET (Threads \cup {Root})
      /\ PipeAttended'
  BY <1>1, <1>2, TickleFacts
<1>5. held' \in [Threads -> SUBSET Events]  BY <1>1, <1>2 DEF SharedTypes
<1>6. SharedTypes'  BY <1>1, <1>2, <1>3, <1>4, <1>5 DEF SharedTypes
<1>7. /\ "run" \in PcNames \ {"off", "exited", "noTask"} /\ pc[t] \notin {"off", "exited"}
      /\ ("run" \in ActivePc <=> pc[t] \in ActivePc) /\ ("run" \in IdlePc <=> pc[t] \in IdlePc)
      /\ ("run" \in RunningPc <=> pc[t] \in RunningPc) /\ ("run" \in CancellingPc <=> pc[t] \in CancellingPc)
      /\ ("run" \in TriggeringPc <=> pc[t] \in TriggeringPc)
  BY <1>2 DEF PcNames, ActivePc, IdlePc, RunningPc, CancellingPc, TriggeringPc
<1>8. cbs[t] = 0 /\ evs'[t] = <<>> /\ \A u \in Threads \ {t} : evs'[u] = evs[u]
  BY <1>1, <1>2 DEF LocalsEmpty
<1>9. QED  BY <1>2, <1>3, <1>4, <1>6, <1>7, <1>8, PipeStep

\* A task waits for the mutex of a descriptor, or has got it.
LEMMA TaskMutexInv ==
  ASSUME IndInv, config' = config, NEW t \in Threads,
         TaskLocks(t) \/ \E e \in Events : TaskWaits(t, e)
  PROVE  IndInv'
<1>1. TypeOK /\ SharedTypes /\ PipeAttended /\ LocalsEmpty  BY Known
<1>2. PICK p \in {"run", "runLock"}, W \in SUBSET Events :
        /\ pc[t] \in {"run", "runLock"} /\ pc' = [pc EXCEPT ![t] = p]
        /\ wants' = [wants EXCEPT ![t] = W]
        /\ UNCHANGED <<m_tasks, m_activeThreadCount, m_idleThreadCount, m_stopping, armed, due, tied,
                       m_tickled, event, held, m_pendingEvenCount, bytes, edge, blocked, cbs, evs,
                       idleDone, mainPc, stopTickles, work, done>>
  <2>1. CASE TaskLocks(t)
    <3>1. "run" \in {"run", "runLock"} /\ {} \in SUBSET Events  OBVIOUS
    <3>2. /\ pc[t] = "runLock" /\ pc' = [pc EXCEPT ![t] = "run"] /\ wants' = [wants EXCEPT ![t] = {}]
          /\ UNCHANGED <<m_tasks, m_activeThreadCount, m_idleThreadCount, m_stopping, armed, due, tied,
                         m_tickled, event, held, m_pendingEvenCount, bytes, edge, blocked, cbs, evs,
                         idleDone, mainPc, stopTickles, work, done>>
      BY <2>1 DEF TaskLocks, Goto, sched, timers, pipe, local, owner, bounds
    <3>3. QED  BY <3>1, <3>2
  <2>2. ASSUME NEW e \in Events, TaskWaits(t, e)
        PROVE  /\ pc[t] = "run" /\ pc' = [pc EXCEPT ![t] = "runLock"]
               /\ wants' = [wants EXCEPT ![t] = {e}] /\ {e} \in SUBSET Events
               /\ UNCHANGED <<m_tasks, m_activeThreadCount, m_idleThreadCount, m_stopping, armed, due, tied,
                              m_tickled, event, held, m_pendingEvenCount, bytes, edge, blocked, cbs, evs,
                              idleDone, mainPc, stopTickles, work, done>>
    BY <2>2 DEF TaskWaits, Goto, sched, timers, pipe, local, owner, bounds
  <2>3. QED  BY <2>1, <2>2
<1>3. Threads' = Threads /\ Registered' = Registered  BY <1>2, ThreadsKept, RegisteredKept
<1>4. wants' \in [Threads -> SUBSET Events]  BY <1>1, <1>2 DEF SharedTypes
<1>5. SharedTypes'  BY <1>1, <1>2, <1>3, <1>4 DEF SharedTypes
<1>6. PipeAttended'  BY <1>1, <1>2, <1>3 DEF PipeAttended
<1>7. /\ p \in PcNames \ {"off", "exited", "noTask"} /\ pc[t] \notin {"off", "exited"}
      /\ (p \in ActivePc <=> pc[t] \in ActivePc) /\ (p \in IdlePc <=> pc[t] \in IdlePc)
      /\ (p \in RunningPc <=> pc[t] \in RunningPc) /\ (p \in CancellingPc <=> pc[t] \in CancellingPc)
      /\ (p \in TriggeringPc <=> pc[t] \in TriggeringPc)
  BY <1>2 DEF PcNames, ActivePc, IdlePc, RunningPc, CancellingPc, TriggeringPc
<1>8. cbs[t] = 0 /\ evs'[t] = <<>> /\ \A u \in Threads \ {t} : evs'[u] = evs[u]
  BY <1>1, <1>2 DEF LocalsEmpty
<1>9. QED  BY <1>2, <1>3, <1>5, <1>6, <1>7, <1>8, PipeStep

\* A thread blocks in tickle() while the pipe is full.
LEMMA TickleBlocksInv ==
  ASSUME IndInv, config' = config, NEW t \in Threads, TickleBlocks(t)
  PROVE  IndInv'
<1>1. TypeOK /\ SharedTypes /\ PipeAttended /\ LocalsEmpty  BY Known
<1>2. /\ pc[t] \in {"scanTickle", "runTickle", "cancelTickle", "postTickle", "dispatchTickle"} /\ pc' = pc
      /\ blocked' = blocked \cup {t}
      /\ UNCHANGED <<m_tasks, m_activeThreadCount, m_idleThreadCount, m_stopping, armed, due, tied,
                     m_tickled, event, held, wants, m_pendingEvenCount, bytes, edge, cbs, evs, idleDone,
                     mainPc, stopTickles, work, done>>
  BY DEF TickleBlocks, Blocks, sched, timers, events, local, owner, bounds
<1>3. Threads' = Threads /\ Registered' = Registered  BY <1>2, ThreadsKept, RegisteredKept
<1>4. SharedTypes' /\ PipeAttended'  BY <1>1, <1>2, <1>3 DEF SharedTypes, PipeAttended
<1>5. /\ pc' = [pc EXCEPT ![t] = pc[t]]
      /\ pc[t] \in PcNames \ {"off", "exited", "noTask"} /\ pc[t] \notin {"off", "exited"}
  BY <1>1, <1>2 DEF TypeOK, PcNames
<1>6. /\ pc[t] \notin {"post", "postTickle"} => cbs[t] = 0
      /\ pc[t] \notin {"expire", "post", "postTickle", "dispatch", "dispatchTickle", "dispatchDec"} => evs'[t] = <<>>
      /\ \A u \in Threads \ {t} : evs'[u] = evs[u]
  BY <1>1, <1>2 DEF LocalsEmpty
<1>7. QED  BY <1>2, <1>3, <1>4, <1>5, <1>6, PipeStep

\* epoll_wait hands edges to a thread that has no reports left.
LEMMA EpollReportsInv ==
  ASSUME IndInv, config' = config, NEW t \in Threads, EpollReports(t)
  PROVE  IndInv'
<1>1. TypeOK /\ SharedTypes /\ PipeAttended /\ LocalsEmpty  BY Known
<1>2. /\ pc[t] = "wait" /\ pc' = [pc EXCEPT ![t] = "expire"]
      /\ event' = [e \in Events |-> IF event[e] = "ready" THEN "reported" ELSE event[e]]
      /\ UNCHANGED <<m_tasks, m_activeThreadCount, m_idleThreadCount, m_stopping, armed, due, tied,
                     m_tickled, held, wants, m_pendingEvenCount, bytes, blocked, cbs, idleDone,
                     mainPc, stopTickles, work, done>>
  BY DEF EpollReports, Goto, sched, timers, owner, bounds
<1>3. edge' = FALSE  BY DEF EpollReports
<1>4. edge' \in BOOLEAN  BY <1>3
<1>5. Threads' = Threads  BY ThreadsKept
<1>6. Registered' = Registered  BY <1>1, <1>2 DEF Registered, TypeOK
<1>7. PICK given \in Seq(Events \cup {Pipe}) :
        evs' = [evs EXCEPT ![t] = given] /\ (edge => Pipe \in Holds(given))
  <2>1. PICK s \in Arrays(Reports) : evs' = [evs EXCEPT ![t] = s]  BY DEF EpollReports
  <2>2. s \in Seq(Events \cup {Pipe}) /\ Reports \subseteq Holds(s)  BY ArrayFacts
  <2>3. edge => Pipe \in Reports  BY DEF Reports
  <2>4. QED  BY <2>1, <2>2, <2>3
<1>8. event' \in [Events -> {"none", "armed", "ready", "reported"}] /\ evs' \in [Threads -> Seq(Events \cup {Pipe})]
  BY <1>1, <1>2, <1>7 DEF TypeOK
<1>9. SharedTypes'  BY <1>1, <1>2, <1>4, <1>5, <1>8 DEF SharedTypes
<1>10. PipeAttended'
  <2> SUFFICES ASSUME bytes > 0 PROVE \E u \in Threads : Pipe \in Holds(evs'[u])
    BY <1>2, <1>5 DEF PipeAttended
  <2>1. CASE edge  BY <1>1, <1>2, <1>7, <2>1 DEF TypeOK
  <2>2. CASE \E u \in Threads : Pipe \in Holds(evs[u])
    <3>1. PICK u \in Threads : Pipe \in Holds(evs[u])  BY <2>2
    <3>2. evs[t] = <<>>  BY <1>1, <1>2 DEF LocalsEmpty
    <3>3. u # t  BY <3>1, <3>2 DEF Holds
    <3>4. evs'[u] = evs[u]  BY <1>1, <1>7, <3>3 DEF TypeOK
    <3>5. QED  BY <3>1, <3>4
  <2>3. QED  BY <1>1, <2>1, <2>2 DEF PipeAttended
<1>11. "expire" \in PcNames \ {"off", "exited", "noTask"} /\ pc[t] \notin {"off", "exited"}
  BY <1>2 DEF PcNames
<1>12. /\ "expire" \in ActivePc <=> pc[t] \in ActivePc
       /\ "expire" \in IdlePc <=> pc[t] \in IdlePc
       /\ "expire" \in RunningPc <=> pc[t] \in RunningPc
       /\ "expire" \in CancellingPc <=> pc[t] \in CancellingPc
       /\ "expire" \in TriggeringPc <=> pc[t] \in TriggeringPc
  BY <1>2 DEF ActivePc, IdlePc, RunningPc, CancellingPc, TriggeringPc
<1>13. cbs[t] = 0 /\ \A u \in Threads \ {t} : evs'[u] = evs[u]
  BY <1>1, <1>2, <1>7 DEF LocalsEmpty, TypeOK
<1>14. QED  BY <1>2, <1>6, <1>9, <1>10, <1>11, <1>12, <1>13, PipeStep

\* Reading the pipe empties it.
LEMMA DispatchReadsPipeInv ==
  ASSUME IndInv, config' = config, NEW t \in Threads, DispatchReadsPipe(t)
  PROVE  IndInv'
<1>1. TypeOK /\ SharedTypes /\ PipeAttended /\ LocalsEmpty  BY Known
<1>2. /\ pc[t] = "dispatch" /\ pc' = pc
      /\ evs' = [evs EXCEPT ![t] = Tail(@)] /\ evs[t] # <<>> /\ bytes' = 0
      /\ UNCHANGED <<m_tasks, m_activeThreadCount, m_idleThreadCount, m_stopping, armed, due, tied,
                     m_tickled, event, held, wants, m_pendingEvenCount, blocked, cbs, idleDone,
                     mainPc, stopTickles, work, done>>
  BY DEF DispatchReadsPipe, Reached, sched, timers, events, owner, bounds
<1>3. edge' \in BOOLEAN
  <2>1. edge' = FALSE  BY DEF DispatchReadsPipe
  <2>2. QED  BY <2>1
<1>4. Threads' = Threads /\ Registered' = Registered  BY <1>2, ThreadsKept, RegisteredKept
<1>5. SharedTypes' /\ PipeAttended'
  <2>1. evs' \in [Threads -> Seq(Events \cup {Pipe})]  BY <1>1, <1>2, NextReport
  <2>2. SharedTypes'  BY <1>1, <1>2, <1>3, <1>4, <2>1, IOManagerAssumption DEF SharedTypes
  <2>3. QED  BY <1>2, <2>2 DEF PipeAttended
<1>6. /\ pc' = [pc EXCEPT ![t] = pc[t]]
      /\ pc[t] \in PcNames \ {"off", "exited", "noTask"} /\ pc[t] \notin {"off", "exited"}
  BY <1>1, <1>2 DEF TypeOK, PcNames
<1>7. cbs[t] = 0 /\ \A u \in Threads \ {t} : evs'[u] = evs[u]
  BY <1>1, <1>2 DEF LocalsEmpty, TypeOK
<1>8. QED  BY <1>2, <1>4, <1>5, <1>6, <1>7, PipeStep

\* A report of an event that has been cancelled is skipped.
LEMMA DispatchSkipsInv ==
  ASSUME IndInv, config' = config, NEW t \in Threads, DispatchSkips(t)
  PROVE  IndInv'
<1>1. TypeOK /\ SharedTypes /\ PipeAttended /\ LocalsEmpty  BY Known
<1>2. /\ pc[t] = "dispatch" /\ pc' = pc
      /\ UNCHANGED <<m_tasks, m_activeThreadCount, m_idleThreadCount, m_stopping, armed, due, tied,
                     m_tickled, event, held, wants, m_pendingEvenCount, bytes, edge, blocked, cbs, idleDone,
                     mainPc, stopTickles, work, done>>
  BY DEF DispatchSkips, Reached, sched, timers, events, pipe, owner, bounds
<1>3. evs' = [evs EXCEPT ![t] = Tail(@)] /\ evs[t] # <<>> /\ Head(evs[t]) # Pipe
  BY IOManagerAssumption DEF DispatchSkips, Reached
<1>4. Threads' = Threads /\ Registered' = Registered  BY <1>2, ThreadsKept, RegisteredKept
<1>5. \A u \in Threads : Pipe \in Holds(evs'[u]) <=> Pipe \in Holds(evs[u])  BY <1>1, <1>3, NextReport
<1>6. SharedTypes'
  <2>1. evs' \in [Threads -> Seq(Events \cup {Pipe})]  BY <1>1, <1>3, NextReport
  <2>2. QED  BY <1>1, <1>2, <1>4, <2>1 DEF SharedTypes
<1>7. PipeAttended'  BY <1>1, <1>2, <1>4, <1>5 DEF PipeAttended
<1>8. /\ pc' = [pc EXCEPT ![t] = pc[t]]
      /\ pc[t] \in PcNames \ {"off", "exited", "noTask"} /\ pc[t] \notin {"off", "exited"}
  BY <1>1, <1>2 DEF TypeOK, PcNames
<1>9. cbs[t] = 0 /\ \A u \in Threads \ {t} : evs'[u] = evs[u]
  BY <1>1, <1>2, <1>3 DEF LocalsEmpty, TypeOK
<1>10. QED  BY <1>2, <1>4, <1>6, <1>7, <1>8, <1>9, PipeStep

-----------------------------------------------------------------------------
(* The owner and the world.                                                 *)

\* A step that moves no thread of the manager.
LEMMA OwnerStep ==
  ASSUME IndInv, config' = config, pc' = pc,
         UNCHANGED <<m_activeThreadCount, m_idleThreadCount, m_pendingEvenCount, cbs, evs, idleDone>>,
         SharedTypes', m_stopping' \in BOOLEAN, mainPc' \in MainPcNames, stopTickles' \in Nat,
         Registered' = Registered, work' = work + Elsewhere' - Elsewhere,
         PipeAttended', OwnerOrder', m_stopping => m_stopping', m_tasks' = m_tasks \/ ~m_stopping
  PROVE  IndInv'
<1>1. TypeOK /\ LocalsEmpty /\ LeaversDone /\ Elsewhere \in Nat  BY Known
<1>2. Threads' = Threads /\ Collected' = Collected  BY ThreadsKept, CollectedKept
<1>3. \A X : CountAt(X) \in Nat /\ CountAt(X)' = CountAt(X)  BY <1>1, CountStays
<1>4. CountersExact'  BY <1>3 DEF IndInv, CountersExact
<1>5. TypeOK'
  <2>1. config' \in Configs /\ pc' \in [Threads' -> PcNames]  BY <1>1, <1>2 DEF TypeOK
  <2>2. m_activeThreadCount' \in Nat /\ m_idleThreadCount' \in Nat /\ m_pendingEvenCount' \in Nat
    BY <1>1 DEF TypeOK
  <2>3. QED  BY <2>1, <2>2 DEF TypeOK, SharedTypes
<1>6. PendingExact'  BY <1>3, <1>5 DEF IndInv, PendingExact
<1>7. WorkConserved'
  <2>1. work = Elsewhere + CountAt(RunningPc) + CountAt(CancellingPc)
    BY DEF IndInv, WorkConserved, Elsewhere
  <2>2. Elsewhere' \in Nat
    <3>1. m_tasks' \in Nat /\ armed' \in Nat /\ due' \in Nat /\ tied' \in Nat /\ done' \in Nat  BY DEF SharedTypes
    <3>2. Cardinality(Collected) \in Nat /\ Cardinality(Registered) \in Nat  BY Known
    <3>3. QED  BY <1>2, <3>1, <3>2 DEF Elsewhere
  <2>3. work' = Elsewhere' + CountAt(RunningPc)' + CountAt(CancellingPc)'
    BY <1>1, <1>3, <2>1, <2>2
  <2>4. QED  BY <2>3 DEF WorkConserved, Elsewhere
<1>8. LocalsEmpty' /\ LeaversDone'  BY <1>1, <1>2 DEF LocalsEmpty, LeaversDone
<1>9. LastLook'
  <2> SUFFICES ASSUME \A u \in Threads : Gone(u) PROVE m_tasks' = 0
    BY <1>2 DEF LastLook, Gone
  <2>1. m_tasks = 0  BY DEF IndInv, LastLook
  <2>2. PICK u : u \in Threads  BY <1>1, SomeThread
  <2>3. m_stopping  BY <1>1, <2>2 DEF Gone, LeaversDone
  <2>4. QED  BY <2>1, <2>3
<1>10. QED  BY <1>4, <1>6, <1>7, <1>8, <1>9 DEF IndInv

\* The owner posts a task or adds a timer.
LEMMA MainCreatesInv ==
  ASSUME IndInv, config' = config, MainPosts \/ MainAddsTimer
  PROVE  IndInv'
<1>1. TypeOK /\ SharedTypes /\ PipeAttended /\ OwnerOrder
      /\ Cardinality(Registered) \in Nat /\ Cardinality(Collected) \in Nat
  BY Known DEF IndInv
<1>2. /\ mainPc = "up" /\ mainPc' \in {"up", "upTickle"} /\ work' = work + 1
      /\ pc' = pc /\ m_stopping' = m_stopping /\ due' = due /\ done' = done
      /\ UNCHANGED <<m_activeThreadCount, m_idleThreadCount, m_pendingEvenCount, event, held, wants,
                     bytes, edge, blocked, cbs, evs, idleDone, stopTickles>>
  BY DEF MainPosts, MainAddsTimer, ClientWork, addTimer, sched, timers, events, pipe, local
<1>3. \/ m_tasks' = m_tasks + 1 /\ armed' = armed /\ tied' = tied
      \/ m_tasks' = m_tasks /\ armed' = armed + 1 /\ tied' = tied
      \/ m_tasks' = m_tasks /\ armed' = armed /\ tied' = tied + 1
  BY DEF MainPosts, MainAddsTimer, addTimer, Push, sched, timers
<1>4. m_tickled' \in BOOLEAN
  <2>1. CASE MainPosts  BY <1>1, <2>1 DEF MainPosts, timers, TypeOK
  <2>2. CASE MainAddsTimer
    <3>1. PICK f \in BOOLEAN : m_tickled' = (m_tickled \/ f)  BY <2>2 DEF MainAddsTimer, addTimer
    <3>2. QED  BY <3>1
  <2>3. QED  BY <2>1, <2>2
<1>5. Threads' = Threads /\ Pool' = Pool /\ UseCaller' = UseCaller /\ Collected' = Collected /\ Registered' = Registered
  BY <1>2, ThreadsKept, CollectedKept, RegisteredKept
<1>6. SharedTypes'
  <2>1. m_tasks' \in Nat /\ armed' \in Nat /\ tied' \in Nat  BY <1>1, <1>3 DEF SharedTypes
  <2>2. QED  BY <1>1, <1>2, <1>4, <1>5, <2>1 DEF SharedTypes
<1>7. PipeAttended'  BY <1>1, <1>2, <1>5 DEF PipeAttended
<1>8. OwnerOrder'  BY <1>1, <1>2, <1>5 DEF OwnerOrder
<1>9. m_stopping' \in BOOLEAN /\ mainPc' \in MainPcNames /\ stopTickles' \in Nat
  BY <1>1, <1>2 DEF TypeOK, MainPcNames
<1>10. work' = work + Elsewhere' - Elsewhere
  <2>1. m_tasks \in Nat /\ armed \in Nat /\ due \in Nat /\ tied \in Nat /\ done \in Nat /\ work \in Nat
    BY <1>1 DEF TypeOK
  <2>2. Elsewhere' = done + m_tasks' + armed' + due + tied' + Cardinality(Collected) + Cardinality(Registered)
    BY <1>2, <1>5 DEF Elsewhere
  <2>3. CASE m_tasks' = m_tasks + 1 /\ armed' = armed /\ tied' = tied
    BY <1>1, <1>2, <2>1, <2>2, <2>3 DEF Elsewhere
  <2>4. CASE m_tasks' = m_tasks /\ armed' = armed + 1 /\ tied' = tied
    BY <1>1, <1>2, <2>1, <2>2, <2>4 DEF Elsewhere
  <2>5. CASE m_tasks' = m_tasks /\ armed' = armed /\ tied' = tied + 1
    BY <1>1, <1>2, <2>1, <2>2, <2>5 DEF Elsewhere
  <2>6. QED  BY <1>3, <2>3, <2>4, <2>5
<1>11. ~m_stopping  BY <1>1, <1>2 DEF OwnerOrder
<1>12. QED  BY <1>2, <1>5, <1>6, <1>7, <1>8, <1>9, <1>10, <1>11, OwnerStep

\* tickle() called by the owner, from schedule() or from stop(), returns or blocks.
LEMMA MainTicklesInv ==
  ASSUME IndInv, config' = config, MainTickles \/ StopTickles \/ MainBlocks
  PROVE  IndInv'
<1>1. TypeOK /\ SharedTypes /\ PipeAttended /\ OwnerOrder
      /\ Cardinality(Registered) \in Nat /\ Cardinality(Collected) \in Nat /\ Elsewhere \in Nat
  BY Known DEF IndInv
<1>2. /\ pc' = pc
      /\ UNCHANGED <<m_tasks, m_activeThreadCount, m_idleThreadCount, m_stopping, m_pendingEvenCount,
                     armed, due, tied, m_tickled, event, held, wants, cbs, evs, idleDone, work, done>>
  BY DEF MainTickles, StopTickles, MainBlocks, sched, timers, events, local, bounds
<1>3. Threads' = Threads /\ Pool' = Pool /\ UseCaller' = UseCaller /\ Collected' = Collected /\ Registered' = Registered
  BY <1>2, ThreadsKept, CollectedKept, RegisteredKept
<1>4. /\ bytes' \in 0..PipeCapacity /\ edge' \in BOOLEAN /\ blocked' \in SUBSET (Threads \cup {Root})
      /\ PipeAttended'
  <2>1. CASE MainTickles \/ StopTickles
    <3>1. tickle(Root)  BY <2>1 DEF MainTickles, StopTickles
    <3>2. QED  BY <1>1, <1>2, <3>1, TickleFacts
  <2>2. CASE MainBlocks
    <3>1. bytes' = bytes /\ edge' = edge /\ blocked' = blocked \cup {Root}  BY <2>2 DEF MainBlocks, Blocks
    <3>2. QED  BY <1>1, <1>2, <1>3, <3>1 DEF SharedTypes, PipeAttended
  <2>3. QED  BY <2>1, <2>2
<1>5. SharedTypes'  BY <1>1, <1>2, <1>3, <1>4 DEF SharedTypes
<1>6. stopTickles' \in Nat  BY <1>1 DEF TypeOK, MainTickles, StopTickles, MainBlocks, owner
<1>7. mainPc' = mainPc \/ (mainPc = "upTickle" /\ mainPc' = "up")
  BY DEF MainTickles, StopTickles, MainBlocks, owner
<1>8. OwnerOrder'  BY <1>1, <1>2, <1>3, <1>7 DEF OwnerOrder
<1>9. m_stopping' \in BOOLEAN /\ mainPc' \in MainPcNames  BY <1>1, <1>2, <1>7 DEF TypeOK, MainPcNames
<1>10. work' = work + Elsewhere' - Elsewhere
  BY <1>1, <1>2, <1>3 DEF Elsewhere, TypeOK
<1>11. QED  BY <1>2, <1>3, <1>4, <1>5, <1>6, <1>8, <1>9, <1>10, OwnerStep

\* stop() begins.
LEMMA StopInv ==
  ASSUME IndInv, config' = config, Stop
  PROVE  IndInv'
<1>1. TypeOK /\ SharedTypes /\ PipeAttended /\ OwnerOrder
      /\ Cardinality(Registered) \in Nat /\ Cardinality(Collected) \in Nat /\ Elsewhere \in Nat
  BY Known DEF IndInv
<1>2. /\ mainPc = "up" /\ mainPc' = "tickling" /\ pc' = pc /\ stopTickles' = Cardinality(Threads)
      /\ UNCHANGED <<m_tasks, m_activeThreadCount, m_idleThreadCount, m_pendingEvenCount,
                     armed, due, tied, event, held, wants, bytes, edge, blocked, cbs, evs, idleDone, work, done>>
  BY DEF Stop, events, pipe, local, bounds
<1>3. m_stopping' /\ m_stopping' \in BOOLEAN /\ m_tickled' \in BOOLEAN
  <2>1. m_stopping' = TRUE /\ m_tickled' = FALSE  BY DEF Stop
  <2>2. QED  BY <2>1
<1>4. Threads' = Threads /\ Pool' = Pool /\ UseCaller' = UseCaller /\ Collected' = Collected /\ Registered' = Registered
  BY <1>2, ThreadsKept, CollectedKept, RegisteredKept
<1>5. stopTickles' \in Nat  BY <1>1, <1>2, ThreadsFinite, FS_CardinalityType
<1>6. SharedTypes'  BY <1>1, <1>2, <1>3, <1>4 DEF SharedTypes
<1>7. PipeAttended'  BY <1>1, <1>2, <1>4 DEF PipeAttended
<1>8. OwnerOrder'  BY <1>1, <1>2, <1>3, <1>4 DEF OwnerOrder
<1>9. mainPc' \in MainPcNames  BY <1>2 DEF MainPcNames
<1>10. work' = work + Elsewhere' - Elsewhere  BY <1>1, <1>2, <1>4 DEF Elsewhere, TypeOK
<1>11. QED  BY <1>2, <1>3, <1>4, <1>5, <1>6, <1>7, <1>8, <1>9, <1>10, OwnerStep

\* The owner's thread has left run(), or the pool's threads have been joined.
LEMMA OwnerWaitsInv ==
  ASSUME IndInv, config' = config, RootDone \/ Join
  PROVE  IndInv'
<1>1. TypeOK /\ SharedTypes /\ PipeAttended /\ OwnerOrder
      /\ Cardinality(Registered) \in Nat /\ Cardinality(Collected) \in Nat /\ Elsewhere \in Nat
  BY Known DEF IndInv
<1>2. /\ \/ mainPc = "inRun" /\ mainPc' = "join" /\ pc[Root] = "exited"
         \/ mainPc = "join" /\ mainPc' = "stopped" /\ \A t \in Pool : pc[t] = "exited"
      /\ pc' = pc
      /\ UNCHANGED <<m_tasks, m_activeThreadCount, m_idleThreadCount, m_stopping, m_pendingEvenCount,
                     armed, due, tied, m_tickled, event, held, wants, bytes, edge, blocked, cbs, evs, idleDone,
                     stopTickles, work, done>>
  BY DEF RootDone, Join, sched, timers, events, pipe, local, bounds
<1>3. Threads' = Threads /\ Pool' = Pool /\ UseCaller' = UseCaller /\ Collected' = Collected /\ Registered' = Registered
  BY <1>2, ThreadsKept, CollectedKept, RegisteredKept
<1>4. SharedTypes'  BY <1>1, <1>2, <1>3 DEF SharedTypes
<1>5. PipeAttended'  BY <1>1, <1>2, <1>3 DEF PipeAttended
<1>6. OwnerOrder'  BY <1>1, <1>2, <1>3 DEF OwnerOrder
<1>7. m_stopping' \in BOOLEAN /\ mainPc' \in MainPcNames /\ stopTickles' \in Nat
  BY <1>1, <1>2 DEF TypeOK, MainPcNames
<1>8. work' = work + Elsewhere' - Elsewhere  BY <1>1, <1>2, <1>3 DEF Elsewhere, TypeOK
<1>9. QED  BY <1>2, <1>3, <1>4, <1>5, <1>6, <1>7, <1>8, OwnerStep

\* Time passes, a descriptor becomes ready.
LEMMA WorldInv ==
  ASSUME IndInv, config' = config, World
  PROVE  IndInv'
<1>1. TypeOK /\ SharedTypes /\ PipeAttended /\ OwnerOrder
      /\ Cardinality(Registered) \in Nat /\ Cardinality(Collected) \in Nat /\ Elsewhere \in Nat
  BY Known DEF IndInv
<1>2. /\ pc' = pc
      /\ UNCHANGED <<m_tasks, m_activeThreadCount, m_idleThreadCount, m_stopping, m_pendingEvenCount,
                     tied, m_tickled, held, wants, bytes, edge, blocked, cbs, evs, idleDone,
                     mainPc, stopTickles, work, done>>
  BY DEF World, TimerBecomesDue, DescriptorReady, sched, timers, events, pipe, local, owner, bounds
<1>3. \/ armed > 0 /\ armed' = armed - 1 /\ due' = due + 1 /\ event' = event
      \/ /\ armed' = armed /\ due' = due
         /\ \E e \in Events : event[e] = "armed" /\ event' = [event EXCEPT ![e] = "ready"]
  BY DEF World, TimerBecomesDue, DescriptorReady, timers, events
<1>4. Threads' = Threads /\ Pool' = Pool /\ UseCaller' = UseCaller /\ Collected' = Collected
  BY <1>2, ThreadsKept, CollectedKept
<1>5. Registered' = Registered /\ event' \in [Events -> {"none", "armed", "ready", "reported"}]
  BY <1>1, <1>3 DEF Registered, TypeOK
<1>6. armed' \in Nat /\ due' \in Nat
  <2>1. armed \in Nat /\ due \in Nat  BY <1>1 DEF TypeOK
  <2>2. QED  BY <1>3, <2>1
<1>7. SharedTypes'  BY <1>1, <1>2, <1>4, <1>5, <1>6 DEF SharedTypes
<1>8. PipeAttended'  BY <1>1, <1>2, <1>4 DEF PipeAttended
<1>9. OwnerOrder'  BY <1>1, <1>2, <1>4 DEF OwnerOrder
<1>10. m_stopping' \in BOOLEAN /\ mainPc' \in MainPcNames /\ stopTickles' \in Nat
  BY <1>1, <1>2 DEF TypeOK
<1>11. work' = work + Elsewhere' - Elsewhere
  <2>1. /\ m_tasks \in Nat /\ armed \in Nat /\ due \in Nat /\ tied \in Nat /\ done \in Nat /\ work \in Nat
        /\ m_tasks' = m_tasks /\ tied' = tied /\ done' = done /\ work' = work
    BY <1>1, <1>2 DEF TypeOK
  <2>2. Elsewhere' = done + m_tasks + armed' + due' + tied + Cardinality(Collected) + Cardinality(Registered)
    BY <1>4, <1>5, <2>1 DEF Elsewhere
  <2>3. \A d, m, a, u, i, c, r \in Nat :
          a > 0 => d + m + (a - 1) + (u + 1) + i + c + r = d + m + a + u + i + c + r
    OBVIOUS
  <2>4. Cardinality(Collected) \in Nat /\ Cardinality(Registered) \in Nat  BY <1>1
  <2>5. CASE armed > 0 /\ armed' = armed - 1 /\ due' = due + 1
    <3>1. Elsewhere' = done + m_tasks + (armed - 1) + (due + 1) + tied
                       + Cardinality(Collected) + Cardinality(Registered)
      BY <2>2, <2>5
    <3>2. Elsewhere' = Elsewhere  BY <2>1, <2>3, <2>4, <2>5, <3>1 DEF Elsewhere
    <3>3. QED  BY <1>1, <2>1, <3>2
  <2>6. CASE armed' = armed /\ due' = due
    <3>1. Elsewhere' = Elsewhere  BY <2>2, <2>6 DEF Elsewhere
    <3>2. QED  BY <1>1, <2>1, <3>1
  <2>7. QED  BY <1>3, <2>5, <2>6
<1>12. QED  BY <1>2, <1>5, <1>7, <1>8, <1>9, <1>10, <1>11, OwnerStep

\* stop() has woken the others: the owner's thread enters run(), if it is to work.
LEMMA StopGoesOnInv ==
  ASSUME IndInv, config' = config, StopGoesOn
  PROVE  IndInv'
<1>1. TypeOK /\ SharedTypes /\ PipeAttended /\ LocalsEmpty /\ LeaversDone /\ OwnerOrder
      /\ Cardinality(Registered) \in Nat /\ Cardinality(Collected) \in Nat /\ Elsewhere \in Nat
  BY Known DEF IndInv
<1>2. /\ mainPc = "tickling" /\ mainPc' = (IF UseCaller THEN "inRun" ELSE "join")
      /\ pc' = [t \in Threads |-> IF t = Root THEN "scan" ELSE pc[t]]
      /\ UNCHANGED <<m_tasks, m_activeThreadCount, m_idleThreadCount, m_stopping, m_pendingEvenCount,
                     armed, due, tied, m_tickled, event, held, wants, bytes, edge, blocked, cbs, evs, idleDone,
                     stopTickles, work, done>>
  BY DEF StopGoesOn, sched, timers, events, pipe, local, bounds
<1>3. Threads' = Threads /\ Pool' = Pool /\ UseCaller' = UseCaller /\ Collected' = Collected /\ Registered' = Registered
  BY <1>2, ThreadsKept, CollectedKept, RegisteredKept
<1>4. UseCaller <=> Root \in Threads
  BY <1>1, IOManagerAssumption DEF Threads, Pool, UseCaller, TypeOK
<1>5. SharedTypes'  BY <1>1, <1>2, <1>3 DEF SharedTypes
<1>6. PipeAttended'  BY <1>1, <1>2, <1>3 DEF PipeAttended
<1>7. m_stopping' \in BOOLEAN /\ mainPc' \in MainPcNames /\ stopTickles' \in Nat
  BY <1>1, <1>2 DEF TypeOK, MainPcNames
<1>8. work' = work + Elsewhere' - Elsewhere  BY <1>1, <1>2, <1>3 DEF Elsewhere, TypeOK
<1>9. OwnerOrder'
  <2>1. \A t \in Threads : pc[t] = "off" <=> t = Root  BY <1>1, <1>2 DEF OwnerOrder
  <2>2. \A t \in Threads : pc'[t] # "off"  BY <1>2, <2>1
  <2>3. mainPc' \in {"inRun", "join"} /\ (mainPc' = "inRun" <=> UseCaller)  BY <1>2
  <2>4. QED  BY <1>1, <1>2, <1>3, <2>2, <2>3 DEF OwnerOrder
<1>10. CASE ~UseCaller
  <2>1. pc' = pc  BY <1>1, <1>2, <1>4, <1>10 DEF TypeOK
  <2>2. QED  BY <1>2, <1>3, <1>5, <1>6, <1>7, <1>8, <1>9, <2>1, OwnerStep
<1>11. CASE UseCaller
  <2>1. Root \in Threads /\ pc[Root] = "off" /\ pc' = [pc EXCEPT ![Root] = "scan"]
    BY <1>1, <1>2, <1>4, <1>11 DEF OwnerOrder, TypeOK
  <2>2. \A X : /\ CountAt(X) \in Nat
               /\ CountAt(X)' = CountAt(X) + Ind("scan", X) - Ind(pc[Root], X)
    BY <1>1, <2>1, IndMoves
  <2>3. \A X \in {ActivePc, IdlePc, RunningPc, CancellingPc, TriggeringPc} :
          Ind("scan", X) = 0 /\ Ind(pc[Root], X) = 0
    BY <2>1 DEF Ind, ActivePc, IdlePc, RunningPc, CancellingPc, TriggeringPc
  <2>4. \A X \in {ActivePc, IdlePc, RunningPc, CancellingPc, TriggeringPc} : CountAt(X)' = CountAt(X)
    BY <2>2, <2>3
  <2>5. CountersExact'  BY <1>2, <2>4 DEF IndInv, CountersExact
  <2>6. TypeOK'
    <3>1. pc' \in [Threads' -> PcNames]  BY <1>1, <1>3, <2>1 DEF TypeOK, PcNames
    <3>2. /\ config' \in Configs /\ m_activeThreadCount' \in Nat /\ m_idleThreadCount' \in Nat
          /\ m_pendingEvenCount' \in Nat
      BY <1>1, <1>2 DEF TypeOK
    <3>3. QED  BY <1>5, <1>7, <3>1, <3>2 DEF TypeOK, SharedTypes
  <2>7. PendingExact'  BY <1>2, <1>3, <2>4, <2>6 DEF IndInv, PendingExact
  <2>8. WorkConserved'  BY <1>2, <1>3, <2>4 DEF IndInv, WorkConserved
  <2>9. LocalsEmpty' /\ LeaversDone'
    <3>1. \A t \in Threads : pc'[t] = IF t = Root THEN "scan" ELSE pc[t]  BY <1>1, <2>1 DEF TypeOK
    <3>2. LocalsEmpty'  BY <1>1, <1>2, <1>3, <2>1, <3>1 DEF LocalsEmpty
    <3>3. LeaversDone'  BY <1>1, <1>2, <1>3, <2>1, <3>1 DEF LeaversDone
    <3>4. QED  BY <3>2, <3>3
  <2>10. LastLook'  BY <1>1, <1>3, <2>1 DEF LastLook, Gone, TypeOK
  <2>11. QED  BY <1>6, <1>9, <2>5, <2>7, <2>8, <2>9, <2>10 DEF IndInv
<1>12. QED  BY <1>10, <1>11

\* A manager that is stopped or jammed, and stuttering.
LEMMA NothingHappens ==
  ASSUME IndInv, UNCHANGED vars
  PROVE  IndInv'
<1>1. TypeOK /\ SharedTypes /\ PipeAttended /\ OwnerOrder /\ Elsewhere \in Nat  BY Known DEF IndInv
<1>2. /\ config' = config /\ pc' = pc
      /\ UNCHANGED <<m_tasks, m_activeThreadCount, m_idleThreadCount, m_stopping, m_pendingEvenCount,
                     armed, due, tied, m_tickled, event, held, wants, bytes, edge, blocked, cbs, evs, idleDone,
                     mainPc, stopTickles, work, done>>
  BY DEF vars, sched, timers, events, pipe, local, owner, bounds
<1>3. Threads' = Threads /\ Pool' = Pool /\ UseCaller' = UseCaller /\ Collected' = Collected /\ Registered' = Registered
  BY <1>2, ThreadsKept, CollectedKept, RegisteredKept
<1>4. SharedTypes'  BY <1>1, <1>2, <1>3 DEF SharedTypes
<1>5. PipeAttended'  BY <1>1, <1>2, <1>3 DEF PipeAttended
<1>6. OwnerOrder'  BY <1>1, <1>2, <1>3 DEF OwnerOrder
<1>7. m_stopping' \in BOOLEAN /\ mainPc' \in MainPcNames /\ stopTickles' \in Nat  BY <1>1, <1>2 DEF TypeOK
<1>8. work' = work + Elsewhere' - Elsewhere  BY <1>1, <1>2, <1>3 DEF Elsewhere, TypeOK
<1>9. QED  BY <1>2, <1>3, <1>4, <1>5, <1>6, <1>7, <1>8, OwnerStep

-----------------------------------------------------------------------------
(* The theorems.                                                            *)

\* A new manager satisfies the inductive invariant.
LEMMA InitInv == Init => IndInv
<1> SUFFICES ASSUME Init PROVE IndInv
  OBVIOUS
<1>1. TypeOK
  <2>1. m_stopping \in BOOLEAN /\ m_tickled \in BOOLEAN /\ edge \in BOOLEAN  BY DEF Init
  <2>2. idleDone \in [Threads -> BOOLEAN]  BY DEF Init
  <2>3. pc \in [Threads -> PcNames] /\ mainPc \in MainPcNames  BY DEF Init, PcNames, MainPcNames
  <2>4. bytes \in 0..PipeCapacity  BY IOManagerAssumption DEF Init
  <2>5. /\ config \in Configs /\ m_tasks = 0 /\ m_activeThreadCount = 0 /\ m_idleThreadCount = 0
        /\ armed = 0 /\ due = 0 /\ tied = 0 /\ m_pendingEvenCount = 0 /\ blocked = {}
        /\ stopTickles = 0 /\ work = 0 /\ done = 0
        /\ event = [e \in Events |-> "none"] /\ held = [t \in Threads |-> {}] /\ wants = [t \in Threads |-> {}]
        /\ cbs = [t \in Threads |-> 0] /\ evs = [t \in Threads |-> <<>>]
    BY DEF Init
  <2>6. QED  BY <2>1, <2>2, <2>3, <2>4, <2>5 DEF TypeOK
<1>2. \A t \in Threads : pc[t] \in {"scan", "off"}  BY DEF Init
<1>3. Cardinality({}) = 0  BY FS_EmptySet
<1>4. \A X \in {ActivePc, IdlePc, RunningPc, CancellingPc, TriggeringPc} : CountAt(X) = 0
  <2>1. \A X \in {ActivePc, IdlePc, RunningPc, CancellingPc, TriggeringPc} : "scan" \notin X /\ "off" \notin X
    BY DEF ActivePc, IdlePc, RunningPc, CancellingPc, TriggeringPc
  <2>2. ASSUME NEW X \in {ActivePc, IdlePc, RunningPc, CancellingPc, TriggeringPc}
        PROVE  CountAt(X) = 0
    <3>1. {t \in Threads : pc[t] \in X} = {}  BY <1>2, <2>1
    <3>2. QED  BY <1>3, <3>1 DEF CountAt
  <2>3. QED  BY <2>2
<1>5. Registered = {}  BY DEF Init, Registered
<1>6. Collected = {}
  <2>1. \A t \in Threads : cbs[t] = 0  BY DEF Init
  <2>2. \A t \in Threads : {t} \X (1..cbs[t]) = {}  BY <2>1
  <2>3. QED  BY <2>2 DEF Collected
<1>7. PendingExact /\ CountersExact /\ WorkConserved
  BY <1>1, <1>3, <1>4, <1>5, <1>6 DEF Init, PendingExact, CountersExact, WorkConserved
<1>8. PipeAttended /\ LocalsEmpty /\ LastLook  BY DEF Init, PipeAttended, LocalsEmpty, LastLook
<1>9. ~m_stopping /\ \A t \in Threads : ~idleDone[t]  BY DEF Init
<1>10. LeaversDone  BY <1>2, <1>9 DEF LeaversDone
<1>11. OwnerOrder
  <2>1. \A t \in Threads : pc[t] = "off" <=> t = Root
    BY <1>1, IOManagerAssumption DEF Init, Threads, Pool, UseCaller, TypeOK
  <2>2. mainPc = "up"  BY DEF Init
  <2>3. QED  BY <1>9, <2>1, <2>2 DEF OwnerOrder
<1>12. QED  BY <1>7, <1>8, <1>10, <1>11 DEF IndInv

\* Every step of the owner, the threads and the world keeps it.
LEMMA NextInv == IndInv /\ [Next]_vars => IndInv'
<1> SUFFICES ASSUME IndInv, [Next]_vars PROVE IndInv'
  OBVIOUS
<1>1. CASE UNCHANGED vars  BY <1>1, NothingHappens
<1>2. CASE Next
  <2>1. config' = config  BY <1>2 DEF Next
  <2>2. CASE MainPosts \/ MainAddsTimer \/ Stop \/ OwnerProceeds
    BY <2>1, <2>2, MainCreatesInv, StopInv, MainTicklesInv, StopGoesOnInv, OwnerWaitsInv DEF OwnerProceeds
  <2>3. CASE Stopped \/ Jam  BY <2>3, NothingHappens DEF Stopped, Jam
  <2>4. CASE World  BY <2>1, <2>4, WorldInv
  <2>5. ASSUME NEW t \in Threads, Serve(t) PROVE IndInv'
    <3>1. CASE PostExpired(t)  BY <2>1, <3>1, PostOneInv, PostEndsInv
    <3>2. CASE ScanTakes(t) \/ ScanFindsNone(t) \/ Tickles(t) \/ CancelPushes(t) \/ CancelTickles(t) \/ TaskLocks(t) \/ Dec(t)
               \/ Break(t) \/ EnterIdle(t) \/ LeaveIdle(t)
      BY <2>1, <3>2, ScanTakesInv, ScanFindsNoneInv, TicklesInv, CancelPushesInv, CancelTicklesInv, TaskMutexInv, DecInv, BreakInv,
         EnterIdleInv, LeaveIdleInv
    <3>3. CASE StoppingTimers(t) \/ StoppingEvents(t) \/ StoppingBase(t) \/ NextTimeout(t)
               \/ EpollReports(t) \/ EpollTimesOut(t) \/ listExpiredCb(t)
      BY <2>1, <3>3, StoppingTimersInv, StoppingEventsInv, StoppingBaseInv, NextTimeoutInv,
         EpollReportsInv, EpollTimesOutInv, listExpiredCbInv
    <3>4. CASE TickleBlocks(t) \/ DispatchReadsPipe(t) \/ DispatchTriggers(t) \/ DispatchCounts(t)
               \/ DispatchSkips(t) \/ DispatchEnds(t)
      BY <2>1, <3>4, TickleBlocksInv, DispatchReadsPipeInv, DispatchTriggersInv, DispatchCountsInv,
         DispatchSkipsInv, DispatchEndsInv
    <3>5. QED  BY <2>5, <3>1, <3>2, <3>3, <3>4 DEF Serve
  <2>6. ASSUME NEW t \in Threads, Client(t) \/ TaskEnds(t) \/ EpollInterrupted(t) PROVE IndInv'
    BY <2>1, <2>6, TaskPostsInv, TaskAddsTimerInv, addEventInv, cancelEventInv, TaskMutexInv, TaskEndsInv,
       EpollInterruptedInv DEF Client
  <2>7. QED  BY <1>2, <2>2, <2>3, <2>4, <2>5, <2>6 DEF Next
<1>3. QED  BY <1>1, <1>2

\* The inductive invariant holds in every behaviour.
THEOREM SpecIndInv == Spec => []IndInv
<1>1. Init => IndInv  BY InitInv
<1>2. IndInv /\ [Next]_vars => IndInv'  BY NextInv
<1>3. QED  BY <1>1, <1>2, PTL DEF Spec

\* m_pendingEvenCount is exact and no counter of the manager underflows.
THEOREM SpecPendingExact == Spec => []PendingExact
<1>1. IndInv => PendingExact  BY DEF IndInv
<1>2. QED  BY <1>1, SpecIndInv, PTL

\* No task, timer or event is lost or run twice between addEvent, listExpiredCb, the
\* loop of idle(), cancelEvent and run(), a timer that addTimer drops on a tie excepted.
THEOREM SpecWorkConserved == Spec => []WorkConserved
<1>1. IndInv => WorkConserved  BY DEF IndInv
<1>2. QED  BY <1>1, SpecIndInv, PTL

\* Bytes that tickle() has written are never left in the pipe unnoticed.
THEOREM SpecPipeAttended == Spec => []PipeAttended
<1>1. IndInv => PipeAttended  BY DEF IndInv
<1>2. QED  BY <1>1, SpecIndInv, PTL

\* When stop() returns, nothing is queued, running or in the hands of a thread.
THEOREM SpecIODrains == Spec => []IODrains
<1>1. IndInv => IODrains
  <2> SUFFICES ASSUME IndInv, mainPc = "stopped"
               PROVE  Scheduler_stopping /\ \A t \in Threads : pc[t] = "exited" /\ cbs[t] = 0 /\ evs[t] = <<>>
    BY DEF IODrains
  <2>1. TypeOK /\ OwnerOrder /\ LocalsEmpty  BY Known DEF IndInv
  <2>2. \A t \in Threads : pc[t] = "exited"  BY <2>1 DEF OwnerOrder, Threads
  <2>3. \A t \in Threads : cbs[t] = 0 /\ evs[t] = <<>>  BY <2>1, <2>2 DEF LocalsEmpty
  <2>4. m_tasks = 0  BY <2>2 DEF IndInv, LastLook, Gone
  <2>5. m_activeThreadCount = 0
    <3>1. {t \in Threads : pc[t] \in ActivePc} = {}  BY <2>2 DEF ActivePc
    <3>2. CountAt(ActivePc) = 0  BY <3>1, FS_EmptySet DEF CountAt
    <3>3. QED  BY <3>2 DEF IndInv, CountersExact
  <2>6. m_stopping  BY <2>1 DEF OwnerOrder
  <2>7. QED  BY <2>2, <2>3, <2>4, <2>5, <2>6 DEF Scheduler_stopping
<1>2. QED  BY <1>1, SpecIndInv, PTL
=============================================================================
