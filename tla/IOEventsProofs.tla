--------------------------- MODULE IOEventsProofs ---------------------------
(***************************************************************************)
(* Proofs about IOEvents.tla for any number of descriptors, dispatching    *)
(* threads, calls of addEvent and calls of close().                        *)
(***************************************************************************)
EXTENDS IOEvents, TLAPS, FiniteSetTheorems

-----------------------------------------------------------------------------
(* The inductive invariant, besides the properties it is made of.           *)

\* What close() leaves behind: all registrations of the number, or none, and no
\* watch.  It is why a leftover registration never mixes with a live one.
LeftoversApart ==
  \A fd \in Fds : stale[fd] \in {{}, events[fd]} /\ (fd \notin open => interest[fd] = {})

\* Waiters of calls of addEvent still to come are nowhere.
FutureWaiters ==
  \A w \in Waiters : w > adds => Places(w) = {} /\ resumed[w] = 0 /\ w \notin deleted

\* The inductive invariant.
IndInv == RegistrationsAgree /\ LeftoversApart /\ WaiterOnce /\ FutureWaiters /\ NoMissedEdge

-----------------------------------------------------------------------------
(* Counting pairs of a descriptor and a direction.                          *)

\* There are finitely many event contexts, so sets of them can be counted.
LEMMA PairsFinite ==
  ASSUME NEW P \in SUBSET (Fds \X Dirs)
  PROVE  IsFiniteSet(P) /\ Cardinality(P) \in Nat
<1>1. IsFiniteSet({"READ"}) /\ IsFiniteSet({"READ"} \cup {"WRITE"})
  BY FS_Singleton, FS_AddElement
<1>2. Dirs = {"READ"} \cup {"WRITE"}  BY DEF Dirs
<1>3. IsFiniteSet(Fds \X Dirs)  BY <1>1, <1>2, FS_Product, IOEventsAssumption
<1>4. QED  BY <1>3, FS_Subset, FS_CardinalityType

\* A set of directions, by itself and as contexts of one descriptor.
LEMMA RowCount ==
  ASSUME NEW fd \in Fds, NEW S \in SUBSET Dirs
  PROVE  /\ IsFiniteSet(S) /\ Cardinality(S) \in Nat
         /\ Cardinality({fd} \X S) = Cardinality(S)
<1>1. IsFiniteSet({"READ"}) /\ IsFiniteSet({"READ"} \cup {"WRITE"})
  BY FS_Singleton, FS_AddElement
<1>2. Dirs = {"READ"} \cup {"WRITE"}  BY DEF Dirs
<1>3. IsFiniteSet(S) /\ Cardinality(S) \in Nat  BY <1>1, <1>2, FS_Subset, FS_CardinalityType
<1>4. IsFiniteSet({fd}) /\ Cardinality({fd}) = 1  BY FS_Singleton
<1>5. Cardinality({fd} \X S) = Cardinality({fd}) * Cardinality(S)  BY <1>3, <1>4, FS_Product
<1>6. QED  BY <1>3, <1>4, <1>5

\* Taking some contexts of one descriptor out of a set of contexts.
LEMMA RowLeaves ==
  ASSUME NEW P \in SUBSET (Fds \X Dirs), NEW fd \in Fds, NEW S \in SUBSET Dirs,
         {fd} \X S \subseteq P
  PROVE  Cardinality(P \ ({fd} \X S)) = Cardinality(P) - Cardinality(S)
<1>1. IsFiniteSet(P)  BY PairsFinite
<1>2. Cardinality(P \ ({fd} \X S)) = Cardinality(P) - Cardinality(P \cap ({fd} \X S))
  BY <1>1, FS_Difference
<1>3. P \cap ({fd} \X S) = {fd} \X S  OBVIOUS
<1>4. Cardinality({fd} \X S) = Cardinality(S)  BY RowCount
<1>5. QED  BY <1>2, <1>3, <1>4

-----------------------------------------------------------------------------
(* What the pieces that the operations share do to the invariant.           *)

\* resetEventContext and triggerEvent clear a bit, its context and its share of
\* the counter together.
LEMMA ForgetRegistrations ==
  ASSUME RegistrationsAgree, NEW fd \in Fds, NEW S \in SUBSET events[fd], Forget(fd, S)
  PROVE  /\ events' \in [Fds -> SUBSET Dirs] /\ ctx' \in [Fds -> [Dirs -> Waiters \cup {NoWaiter}]]
         /\ stale' \in [Fds -> SUBSET Dirs]
         /\ m_pendingEvenCount' \in Nat /\ m_pendingEvenCount' = Cardinality(Registrations')
         /\ \A f \in Fds, e \in Dirs : e \in events'[f] <=> ctx'[f][e] # NoWaiter
<1>1. S \in SUBSET Dirs  BY DEF RegistrationsAgree, TypeOK
<1>2. events' = [events EXCEPT ![fd] = @ \ S]  BY DEF Forget
<1>3. Registrations' = Registrations \ ({fd} \X S)
  BY <1>1, <1>2 DEF RegistrationsAgree, TypeOK, Registrations
<1>4. {fd} \X S \subseteq Registrations /\ Registrations \in SUBSET (Fds \X Dirs)
  BY <1>1 DEF Registrations
<1>5. Cardinality(Registrations') = Cardinality(Registrations) - Cardinality(S)
  BY <1>1, <1>3, <1>4, RowLeaves
<1>6. Registrations' \in SUBSET (Fds \X Dirs)  BY DEF Registrations
<1>7. Cardinality(Registrations') \in Nat  BY <1>6, PairsFinite
<1>8. m_pendingEvenCount' = Cardinality(Registrations') /\ m_pendingEvenCount' \in Nat
  BY <1>5, <1>7 DEF Forget, RegistrationsAgree
<1>9. ctx' = [ctx EXCEPT ![fd] = [e \in Dirs |-> IF e \in S THEN NoWaiter ELSE @[e]]]  BY DEF Forget
<1>10. /\ events' \in [Fds -> SUBSET Dirs] /\ ctx' \in [Fds -> [Dirs -> Waiters \cup {NoWaiter}]]
       /\ stale' \in [Fds -> SUBSET Dirs]
  BY <1>2, <1>9 DEF Forget, RegistrationsAgree, TypeOK
<1>11. \A f \in Fds, e \in Dirs : e \in events'[f] <=> ctx'[f][e] # NoWaiter
  BY <1>2, <1>9 DEF RegistrationsAgree, TypeOK
<1>12. QED  BY <1>8, <1>10, <1>11

\* The places of a waiter that clearing contexts of one descriptor leaves.
LEMMA ForgetPlaces ==
  ASSUME RegistrationsAgree, NEW fd \in Fds, NEW S \in SUBSET events[fd], Forget(fd, S), NEW w \in Waiters
  PROVE  LET gone == {e \in S : ctx[fd][e] = w} IN
         /\ Cardinality(gone) \in Nat
         /\ Places(w)' \subseteq Places(w)
         /\ Cardinality(Places(w)') = Cardinality(Places(w)) - Cardinality(gone)
<1> DEFINE gone == {e \in S : ctx[fd][e] = w}
<1>1. gone \in SUBSET Dirs  BY DEF RegistrationsAgree, TypeOK
<1>2. ctx' = [ctx EXCEPT ![fd] = [e \in Dirs |-> IF e \in S THEN NoWaiter ELSE @[e]]]  BY DEF Forget
<1>3. w # NoWaiter  BY IOEventsAssumption DEF Waiters, NoWaiter
<1>4. Places(w)' = Places(w) \ ({fd} \X gone)
  BY <1>1, <1>2, <1>3 DEF RegistrationsAgree, TypeOK, Places
<1>5. {fd} \X gone \subseteq Places(w) /\ Places(w) \in SUBSET (Fds \X Dirs)
  BY <1>1 DEF Places
<1> HIDE DEF gone
<1>6. Cardinality(Places(w)') = Cardinality(Places(w)) - Cardinality(gone)
  BY <1>1, <1>4, <1>5, RowLeaves
<1>7. Cardinality(gone) \in Nat  BY <1>1, RowCount
<1>8. QED  BY <1>4, <1>6, <1>7 DEF gone

\* An epoll_ctl with MOD or DEL succeeds only where nothing is left over from an
\* earlier descriptor of the same number.
LEMMA CtlLive ==
  ASSUME IndInv, NEW fd \in Fds, NEW left, CtlSucceeds(ModOrDel(left), fd)
  PROVE  fd \in open /\ interest[fd] # {} /\ stale[fd] = {} /\ interest[fd] = events[fd]
<1>1. fd \in open /\ interest[fd] # {}  BY DEF CtlSucceeds, ModOrDel
<1>2. QED  BY <1>1 DEF IndInv, LeftoversApart, RegistrationsAgree, TypeOK

\* epoll_ctl on a descriptor puts it on the ready list if something it now watches
\* is there already, and leaves the others alone.
LEMMA WatchEdges ==
  ASSUME TypeOK, NEW fd \in Fds, NEW S \in SUBSET Dirs, Watch(fd, S)
  PROVE  /\ interest' \in [Fds -> SUBSET Dirs] /\ ready' \in SUBSET Fds /\ cond' = cond
         /\ interest' = [interest EXCEPT ![fd] = S]
         /\ S \cap cond[fd] # {} => fd \in ready'
         /\ \A f \in Fds \ {fd} : f \in ready' <=> f \in ready
<1>1. interest' = [interest EXCEPT ![fd] = S] /\ cond' = cond  BY DEF Watch
<1>2. S \cap cond[fd] # {} => S # {} /\ Reported(fd, S) # {}  BY DEF Reported
<1>3. ready' = (IF S = {} THEN ready \ {fd} ELSE IF Reported(fd, S) # {} THEN ready \cup {fd} ELSE ready)
  BY DEF Watch
<1>4. S \cap cond[fd] # {} => fd \in ready'  BY <1>2, <1>3
<1>5. QED  BY <1>1, <1>3, <1>4 DEF TypeOK

\* Triggering registered events (cancelEvent, cancelAll, the loop of idle()) hands
\* each of their waiters to the scheduler once and forgets the registrations.
LEMMA TriggerWaiters ==
  ASSUME RegistrationsAgree, WaiterOnce, FutureWaiters,
         NEW fd \in Fds, NEW S \in SUBSET events[fd], triggerEvents(fd, S)
  PROVE  WaiterOnce' /\ FutureWaiters' /\ resumed' \in [Waiters -> Nat] /\ adds' = adds /\ deleted' = deleted
<1>1. Forget(fd, S) /\ Resume(fd, S) /\ adds' = adds /\ deleted' = deleted  BY DEF triggerEvents
<1>2. ASSUME NEW w \in Waiters
      PROVE  /\ resumed'[w] \in Nat
             /\ Places(w)' \subseteq Places(w)
             /\ Cardinality(Places(w)') + resumed'[w] = Cardinality(Places(w)) + resumed[w]
             /\ Places(w) = {} => resumed'[w] = resumed[w]
  <2> DEFINE gone == {e \in S : ctx[fd][e] = w}
  <2>1. /\ Cardinality(gone) \in Nat
        /\ Places(w)' \subseteq Places(w)
        /\ Cardinality(Places(w)') = Cardinality(Places(w)) - Cardinality(gone)
    BY <1>1, ForgetPlaces
  <2>2. resumed'[w] = resumed[w] + Cardinality(gone)  BY <1>1 DEF Resume
  <2>3. resumed[w] \in Nat  BY DEF RegistrationsAgree, TypeOK
  <2>4. Places(w) = {} => gone = {}
    <3>1. ASSUME NEW e \in gone PROVE <<fd, e>> \in Places(w)
      <4>1. <<fd, e>> \in Fds \X Dirs  BY DEF RegistrationsAgree, TypeOK
      <4>2. QED  BY <4>1 DEF Places
    <3>2. QED  BY <3>1
  <2>5. Places(w) = {} => Cardinality(gone) = 0
    BY <2>4, FS_EmptySet
  <2>6. Cardinality(Places(w)) \in Nat
    <3>1. Places(w) \in SUBSET (Fds \X Dirs)  BY DEF Places
    <3>2. QED  BY <3>1, PairsFinite
  <2> HIDE DEF gone
  <2>7. QED  BY <2>1, <2>2, <2>3, <2>5, <2>6
<1>3. resumed' \in [Waiters -> Nat]
  BY <1>1, <1>2 DEF Resume
<1>4. WaiterOnce'
  <2> SUFFICES ASSUME NEW w \in 1..adds
               PROVE  Cardinality(Places(w)') + resumed'[w] + (IF w \in deleted THEN 1 ELSE 0) = 1
    BY <1>1 DEF WaiterOnce
  <2>1. w \in Waiters  BY IOEventsAssumption DEF RegistrationsAgree, TypeOK, Waiters
  <2>2. Cardinality(Places(w)) + resumed[w] + (IF w \in deleted THEN 1 ELSE 0) = 1  BY DEF WaiterOnce
  <2>3. Cardinality(Places(w)') + resumed'[w] = Cardinality(Places(w)) + resumed[w]  BY <1>2, <2>1
  <2>4. QED  BY <2>2, <2>3
<1>5. FutureWaiters'
  BY <1>1, <1>2 DEF FutureWaiters
<1>6. QED  BY <1>1, <1>3, <1>4, <1>5

\* What cancelEvent, cancelAll and the handling of a report have in common:
\* epoll_ctl succeeds, the rest stays watched, the waiters are triggered.
LEMMA Triggered ==
  ASSUME IndInv, NEW fd \in Fds, NEW S \in SUBSET events[fd],
         CtlSucceeds(ModOrDel(events[fd] \ S), fd),
         Watch(fd, events[fd] \ S), triggerEvents(fd, S), open' = open,
         closing' \in SUBSET open, closes' \in Nat, aborted' = aborted,
         report' \in [Dispatchers -> [Fds -> SUBSET (Dirs \cup {HUP})]],
         \A t \in Dispatchers, f \in Fds \ {fd} : report'[t][f] = report[t][f]
  PROVE  IndInv'
<1>1. fd \in open /\ interest[fd] # {} /\ stale[fd] = {} /\ interest[fd] = events[fd]  BY CtlLive
<1>2. TypeOK /\ RegistrationsAgree /\ WaiterOnce /\ FutureWaiters /\ LeftoversApart /\ NoMissedEdge
  BY DEF IndInv, RegistrationsAgree
<1>3. WaiterOnce' /\ FutureWaiters' /\ resumed' \in [Waiters -> Nat] /\ adds' = adds /\ deleted' = deleted
  BY <1>2, TriggerWaiters
<1>4. Forget(fd, S)  BY DEF triggerEvents
<1>5. /\ events' \in [Fds -> SUBSET Dirs] /\ ctx' \in [Fds -> [Dirs -> Waiters \cup {NoWaiter}]]
      /\ stale' \in [Fds -> SUBSET Dirs]
      /\ m_pendingEvenCount' \in Nat /\ m_pendingEvenCount' = Cardinality(Registrations')
      /\ \A f \in Fds, e \in Dirs : e \in events'[f] <=> ctx'[f][e] # NoWaiter
  BY <1>2, <1>4, ForgetRegistrations
<1>6. events[fd] \ S \in SUBSET Dirs  BY <1>2 DEF TypeOK
<1>7. /\ interest' \in [Fds -> SUBSET Dirs] /\ ready' \in SUBSET Fds /\ cond' = cond
      /\ interest' = [interest EXCEPT ![fd] = events[fd] \ S]
      /\ (events[fd] \ S) \cap cond[fd] # {} => fd \in ready'
      /\ \A f \in Fds \ {fd} : f \in ready' <=> f \in ready
  BY <1>2, <1>6, WatchEdges
<1>8. TypeOK'  BY <1>2, <1>3, <1>5, <1>7 DEF TypeOK
<1>9. events' = [events EXCEPT ![fd] = @ \ S] /\ stale' = [stale EXCEPT ![fd] = @ \ S]  BY <1>4 DEF Forget
<1>10. \A f \in Fds : interest'[f] = events'[f] \ stale'[f]
  BY <1>1, <1>2, <1>7, <1>9 DEF TypeOK, RegistrationsAgree
<1>11. RegistrationsAgree'  BY <1>5, <1>8, <1>10 DEF RegistrationsAgree
<1>12. LeftoversApart'
  BY <1>1, <1>2, <1>7, <1>9 DEF TypeOK, LeftoversApart
<1>13. NoMissedEdge'
  <2> SUFFICES ASSUME NEW f \in Fds, NEW e \in interest'[f] \cap cond'[f]
               PROVE  f \in ready' \/ (\E t \in Dispatchers : report'[t][f] \cap {e, HUP} # {}) \/ aborted' # "no"
    BY DEF NoMissedEdge
  <2>1. CASE f = fd  BY <1>2, <1>7, <2>1 DEF TypeOK
  <2>2. CASE f # fd
    <3>1. e \in interest[f] \cap cond[f]  BY <1>2, <1>7, <2>2 DEF TypeOK
    <3>2. f \in ready \/ (\E t \in Dispatchers : report[t][f] \cap {e, HUP} # {}) \/ aborted # "no"
      BY <1>2, <3>1 DEF NoMissedEdge
    <3>3. QED  BY <1>7, <2>2, <3>2
  <2>3. QED  BY <2>1, <2>2
<1>14. QED  BY <1>3, <1>11, <1>12, <1>13 DEF IndInv

-----------------------------------------------------------------------------
(* The operations.                                                          *)

\* The states of assertion failures and of steps that leave descriptor contexts and
\* waiters alone.
LEMMA ContextsKept ==
  ASSUME IndInv, UNCHANGED <<events, ctx, m_pendingEvenCount, stale, interest, waiters>>
  PROVE  /\ \A f \in Fds, e \in Dirs : e \in events'[f] <=> ctx'[f][e] # NoWaiter
         /\ m_pendingEvenCount' = Cardinality(Registrations')
         /\ \A f \in Fds : interest'[f] = events'[f] \ stale'[f]
         /\ WaiterOnce' /\ FutureWaiters'
<1>1. Registrations' = Registrations  BY DEF Registrations
<1>2. \A w : Places(w)' = Places(w)  BY DEF Places
<1>3. WaiterOnce' /\ FutureWaiters'
  BY <1>2 DEF IndInv, WaiterOnce, FutureWaiters, waiters
<1>4. QED  BY <1>1, <1>3 DEF IndInv, RegistrationsAgree

\* addEvent keeps the invariant: the new waiter gets the number after the last.
LEMMA AddEventInv ==
  ASSUME IndInv, NEW fd \in Fds, NEW e \in Dirs, addEvent(fd, e)
  PROVE  IndInv'
<1>1. TypeOK /\ RegistrationsAgree /\ WaiterOnce /\ FutureWaiters /\ LeftoversApart /\ NoMissedEdge
  BY DEF IndInv, RegistrationsAgree
<1>2. CASE aborted' = "addEvent" /\ UNCHANGED <<events, ctx, m_pendingEvenCount, stale, kernel, waiters>>
  <2>1. UNCHANGED <<events, ctx, m_pendingEvenCount, stale, interest, cond, ready, waiters, open, closing, closes, report>>
    BY <1>2 DEF addEvent, kernel
  <2>2. TypeOK'  BY <1>1, <1>2, <2>1 DEF TypeOK, waiters
  <2>3. RegistrationsAgree' /\ WaiterOnce' /\ FutureWaiters'
    BY <2>1, <2>2, ContextsKept DEF RegistrationsAgree
  <2>4. LeftoversApart' /\ NoMissedEdge'
    BY <1>1, <1>2, <2>1 DEF LeftoversApart, NoMissedEdge
  <2>5. QED  BY <2>3, <2>4 DEF IndInv
<1>3. CASE /\ e \notin events[fd]
           /\ CtlSucceeds(IF events[fd] = {} THEN "ADD" ELSE "MOD", fd)
           /\ Watch(fd, events[fd] \cup {e})
           /\ events' = [events EXCEPT ![fd] = @ \cup {e}]
           /\ ctx' = [ctx EXCEPT ![fd][e] = adds + 1]
           /\ m_pendingEvenCount' = m_pendingEvenCount + 1
           /\ adds' = adds + 1
           /\ UNCHANGED <<resumed, deleted, stale, aborted>>
  <2>1. adds < MaxAdds /\ UNCHANGED <<open, closing, closes, report>>  BY DEF addEvent
  <2>2. fd \in open /\ stale[fd] = {} /\ interest[fd] = events[fd]
    <3>1. fd \in open /\ (events[fd] = {} <=> interest[fd] = {})  BY <1>3 DEF CtlSucceeds
    <3>2. QED  BY <1>1, <3>1 DEF LeftoversApart, RegistrationsAgree, TypeOK
  <2>3. PICK n \in Waiters : n = adds + 1 /\ n # NoWaiter
    BY <1>1, <2>1, IOEventsAssumption DEF TypeOK, Waiters, NoWaiter
  <2>4. events[fd] \cup {e} \in SUBSET Dirs  BY <1>1 DEF TypeOK
  <2>5. /\ interest' \in [Fds -> SUBSET Dirs] /\ ready' \in SUBSET Fds /\ cond' = cond
        /\ interest' = [interest EXCEPT ![fd] = events[fd] \cup {e}]
        /\ (events[fd] \cup {e}) \cap cond[fd] # {} => fd \in ready'
        /\ \A f \in Fds \ {fd} : f \in ready' <=> f \in ready
    BY <1>1, <1>3, <2>4, WatchEdges
  <2>6. /\ events' \in [Fds -> SUBSET Dirs]
        /\ ctx' \in [Fds -> [Dirs -> Waiters \cup {NoWaiter}]]
    BY <1>1, <1>3, <2>3 DEF TypeOK
  <2>7. TypeOK'
    BY <1>1, <1>3, <2>1, <2>5, <2>6, IOEventsAssumption DEF TypeOK
  <2>8. \A f \in Fds, d \in Dirs : d \in events'[f] <=> ctx'[f][d] # NoWaiter
    BY <1>1, <1>3, <2>3 DEF TypeOK, RegistrationsAgree
  <2>9. m_pendingEvenCount' = Cardinality(Registrations')
    <3>1. Registrations' = Registrations \cup {<<fd, e>>}
      BY <1>1, <1>3 DEF Registrations, TypeOK
    <3>2. <<fd, e>> \notin Registrations  BY <1>3 DEF Registrations
    <3>3. Registrations \in SUBSET (Fds \X Dirs)  BY DEF Registrations
    <3>4. IsFiniteSet(Registrations)  BY <3>3, PairsFinite
    <3>5. Cardinality(Registrations') = Cardinality(Registrations) + 1  BY <3>1, <3>2, <3>4, FS_AddElement
    <3>6. QED  BY <1>1, <1>3, <3>5 DEF RegistrationsAgree
  <2>10. \A f \in Fds : interest'[f] = events'[f] \ stale'[f]
    BY <1>1, <1>3, <2>2, <2>5 DEF TypeOK, RegistrationsAgree
  <2>11. RegistrationsAgree'  BY <2>7, <2>8, <2>9, <2>10 DEF RegistrationsAgree
  <2>12. LeftoversApart'
    BY <1>1, <1>3, <2>1, <2>2, <2>5 DEF TypeOK, LeftoversApart
  <2>13. ASSUME NEW w \in Waiters, w # n
         PROVE  Places(w)' = Places(w)
    <3>1. ctx[fd][e] = NoWaiter  BY <1>1, <1>3 DEF RegistrationsAgree
    <3>2. w # NoWaiter  BY IOEventsAssumption DEF Waiters, NoWaiter
    <3>3. \A f \in Fds, d \in Dirs : ctx'[f][d] = w <=> ctx[f][d] = w
      BY <1>1, <1>3, <2>3, <2>13, <3>1, <3>2 DEF TypeOK
    <3>4. QED  BY <3>3 DEF Places
  <2>14. Places(n)' = {<<fd, e>>}
    <3>1. Places(n) = {}  BY <1>1, <2>3 DEF FutureWaiters, TypeOK
    <3>2. \A f \in Fds, d \in Dirs : ctx[f][d] # n
      <4>1. ASSUME NEW f \in Fds, NEW d \in Dirs, ctx[f][d] = n PROVE FALSE
        <5>1. <<f, d>> \in Places(n)  BY <4>1 DEF Places
        <5>2. QED  BY <3>1, <5>1
      <4>2. QED  BY <4>1
    <3>3. \A f \in Fds, d \in Dirs : ctx'[f][d] = n <=> f = fd /\ d = e
      BY <1>1, <1>3, <2>3, <3>2 DEF TypeOK
    <3>4. QED  BY <3>3 DEF Places
  <2>15. WaiterOnce'
    <3> SUFFICES ASSUME NEW w \in 1..(adds + 1)
                 PROVE  Cardinality(Places(w)') + resumed[w] + (IF w \in deleted THEN 1 ELSE 0) = 1
      BY <1>3 DEF WaiterOnce
    <3>1. CASE w = n
      <4>1. Cardinality(Places(w)') = 1  BY <2>14, <3>1, FS_Singleton
      <4>2. resumed[w] = 0 /\ w \notin deleted  BY <1>1, <2>3, <3>1 DEF FutureWaiters, TypeOK
      <4>3. QED  BY <4>1, <4>2
    <3>2. CASE w # n
      <4>1. w \in 1..adds /\ w \in Waiters  BY <1>1, <2>1, <2>3, <3>2, IOEventsAssumption DEF TypeOK, Waiters
      <4>2. QED  BY <1>1, <2>13, <3>2, <4>1 DEF WaiterOnce
    <3>3. QED  BY <3>1, <3>2
  <2>16. FutureWaiters'
    BY <1>1, <1>3, <2>3, <2>13, IOEventsAssumption DEF FutureWaiters, TypeOK, Waiters
  <2>17. NoMissedEdge'
    <3> SUFFICES ASSUME NEW f \in Fds, NEW d \in interest'[f] \cap cond'[f]
                 PROVE  f \in ready' \/ (\E t \in Dispatchers : report'[t][f] \cap {d, HUP} # {}) \/ aborted' # "no"
      BY DEF NoMissedEdge
    <3>1. CASE f = fd  BY <1>1, <2>5, <3>1 DEF TypeOK
    <3>2. CASE f # fd
      <4>1. d \in interest[f] \cap cond[f]  BY <1>1, <2>5, <3>2 DEF TypeOK
      <4>2. QED  BY <1>1, <1>3, <2>1, <2>5, <3>2, <4>1 DEF NoMissedEdge
    <3>3. QED  BY <3>1, <3>2
  <2>18. QED  BY <2>11, <2>12, <2>15, <2>16, <2>17 DEF IndInv
<1>4. QED  BY <1>2, <1>3 DEF addEvent

\* delEvent keeps the invariant, whether or not epoll_ctl succeeds.
LEMMA DelEventInv ==
  ASSUME IndInv, NEW fd \in Fds, NEW e \in Dirs, delEvent(fd, e)
  PROVE  IndInv'
<1> DEFINE left == events[fd] \ {e}
           w0 == ctx[fd][e]
<1>1. TypeOK /\ RegistrationsAgree /\ WaiterOnce /\ FutureWaiters /\ LeftoversApart /\ NoMissedEdge
  BY DEF IndInv, RegistrationsAgree
<1>2. /\ e \in events[fd] /\ Forget(fd, {e}) /\ deleted' = deleted \cup {w0}
      /\ UNCHANGED <<open, closing, closes, report, adds, resumed, aborted>>
      /\ IF CtlSucceeds(ModOrDel(left), fd) THEN Watch(fd, left) ELSE UNCHANGED kernel
  BY DEF delEvent
<1>3. {e} \in SUBSET events[fd]  BY <1>2
<1>4. /\ events' \in [Fds -> SUBSET Dirs] /\ ctx' \in [Fds -> [Dirs -> Waiters \cup {NoWaiter}]]
      /\ stale' \in [Fds -> SUBSET Dirs]
      /\ m_pendingEvenCount' \in Nat /\ m_pendingEvenCount' = Cardinality(Registrations')
      /\ \A f \in Fds, d \in Dirs : d \in events'[f] <=> ctx'[f][d] # NoWaiter
  BY <1>1, <1>2, <1>3, ForgetRegistrations
<1>5. /\ events' = [events EXCEPT ![fd] = @ \ {e}] /\ stale' = [stale EXCEPT ![fd] = @ \ {e}]
  BY <1>2 DEF Forget
<1>6. /\ interest' \in [Fds -> SUBSET Dirs] /\ ready' \in SUBSET Fds /\ cond' = cond
      /\ \A f \in Fds : interest'[f] = events'[f] \ stale'[f]
      /\ \A f \in Fds : stale'[f] \in {{}, events'[f]} /\ (f \notin open' => interest'[f] = {})
      /\ interest'[fd] \cap cond[fd] # {} => fd \in ready'
      /\ \A f \in Fds \ {fd} : interest'[f] = interest[f] /\ (f \in ready' <=> f \in ready)
  <2>1. CASE CtlSucceeds(ModOrDel(left), fd)
    <3>1. fd \in open /\ stale[fd] = {} /\ interest[fd] = events[fd]  BY <2>1, CtlLive
    <3>2. left \in SUBSET Dirs  BY <1>1 DEF TypeOK
    <3>3. /\ interest' \in [Fds -> SUBSET Dirs] /\ ready' \in SUBSET Fds /\ cond' = cond
          /\ interest' = [interest EXCEPT ![fd] = left]
          /\ left \cap cond[fd] # {} => fd \in ready'
          /\ \A f \in Fds \ {fd} : f \in ready' <=> f \in ready
      BY <1>1, <1>2, <2>1, <3>2, WatchEdges
    <3>4. \A f \in Fds : interest'[f] = events'[f] \ stale'[f]
      BY <1>1, <1>5, <3>1, <3>3 DEF TypeOK, RegistrationsAgree
    <3>5. \A f \in Fds : stale'[f] \in {{}, events'[f]} /\ (f \notin open' => interest'[f] = {})
      BY <1>1, <1>2, <1>5, <3>1, <3>3 DEF TypeOK, LeftoversApart
    <3>6. QED  BY <1>1, <3>3, <3>4, <3>5 DEF TypeOK
  <2>2. CASE ~CtlSucceeds(ModOrDel(left), fd)
    <3>1. interest[fd] = {}  BY <1>1, <2>2 DEF CtlSucceeds, ModOrDel, LeftoversApart
    <3>2. stale[fd] = events[fd]  BY <1>1, <1>2, <3>1 DEF LeftoversApart, RegistrationsAgree
    <3>3. interest' = interest /\ cond' = cond /\ ready' = ready  BY <1>2, <2>2 DEF kernel
    <3>4. \A f \in Fds : interest'[f] = events'[f] \ stale'[f]
      BY <1>1, <1>5, <3>1, <3>2, <3>3 DEF TypeOK, RegistrationsAgree
    <3>5. \A f \in Fds : stale'[f] \in {{}, events'[f]} /\ (f \notin open' => interest'[f] = {})
      BY <1>1, <1>2, <1>5, <3>1, <3>2, <3>3 DEF TypeOK, LeftoversApart
    <3>6. QED  BY <1>1, <3>1, <3>3, <3>4, <3>5 DEF TypeOK
  <2>3. QED  BY <2>1, <2>2
<1>7. w0 \in Waiters  BY <1>1, <1>2 DEF TypeOK, RegistrationsAgree
<1>8. TypeOK'  BY <1>1, <1>2, <1>4, <1>6, <1>7 DEF TypeOK
<1>9. RegistrationsAgree' /\ LeftoversApart'  BY <1>4, <1>6, <1>8 DEF RegistrationsAgree, LeftoversApart
<1>10. NoMissedEdge'
  <2> SUFFICES ASSUME NEW f \in Fds, NEW d \in interest'[f] \cap cond'[f]
               PROVE  f \in ready' \/ (\E t \in Dispatchers : report'[t][f] \cap {d, HUP} # {}) \/ aborted' # "no"
    BY DEF NoMissedEdge
  <2>1. CASE f = fd  BY <1>6, <2>1
  <2>2. CASE f # fd  BY <1>1, <1>2, <1>6, <2>2 DEF NoMissedEdge
  <2>3. QED  BY <2>1, <2>2
<1>11. ASSUME NEW w \in Waiters
       PROVE  /\ Places(w)' \subseteq Places(w)
              /\ w # w0 => Cardinality(Places(w)') = Cardinality(Places(w))
              /\ w = w0 => Cardinality(Places(w)') = Cardinality(Places(w)) - 1
  <2> DEFINE gone == {d \in {e} : ctx[fd][d] = w}
  <2>1. /\ Cardinality(gone) \in Nat
        /\ Places(w)' \subseteq Places(w)
        /\ Cardinality(Places(w)') = Cardinality(Places(w)) - Cardinality(gone)
    BY <1>1, <1>2, <1>3, ForgetPlaces
  <2>2. w # w0 => gone = {}  OBVIOUS
  <2>3. w = w0 => gone = {e}  OBVIOUS
  <2>4. Cardinality({e}) = 1  BY FS_Singleton
  <2>5. Cardinality({}) = 0  BY FS_EmptySet
  <2>6. Cardinality(Places(w)) \in Nat
    <3>1. Places(w) \in SUBSET (Fds \X Dirs)  BY DEF Places
    <3>2. QED  BY <3>1, PairsFinite
  <2> HIDE DEF gone, w0
  <2>7. CASE w = w0  BY <2>1, <2>3, <2>4, <2>7
  <2>8. CASE w # w0
    <3>1. Cardinality(gone) = 0  BY <2>2, <2>5, <2>8
    <3>2. QED  BY <2>1, <2>6, <2>8, <3>1
  <2>9. QED  BY <2>7, <2>8
<1>12. w0 \notin deleted /\ w0 \in 1..adds
  <2>1. <<fd, e>> \in Places(w0)  BY DEF Places
  <2>2. w0 \in 1..adds  BY <1>1, <1>7, <2>1, IOEventsAssumption DEF FutureWaiters, Waiters, TypeOK
  <2>3. Places(w0) \in SUBSET (Fds \X Dirs)  BY DEF Places
  <2>4. Cardinality(Places(w0)) \in Nat /\ Cardinality(Places(w0)) # 0
    BY <2>1, <2>3, PairsFinite, FS_EmptySet
  <2>5. Cardinality(Places(w0)) + resumed[w0] + (IF w0 \in deleted THEN 1 ELSE 0) = 1
    BY <1>1, <2>2 DEF WaiterOnce
  <2>6. resumed[w0] \in Nat  BY <1>1, <1>7 DEF TypeOK
  <2>7. QED  BY <2>2, <2>4, <2>5, <2>6
<1> HIDE DEF left, w0
<1>13. WaiterOnce'
  <2> SUFFICES ASSUME NEW w \in 1..adds
               PROVE  Cardinality(Places(w)') + resumed[w] + (IF w \in deleted \cup {w0} THEN 1 ELSE 0) = 1
    BY <1>2 DEF WaiterOnce
  <2>1. w \in Waiters  BY <1>1, IOEventsAssumption DEF TypeOK, Waiters
  <2>2. Cardinality(Places(w)) + resumed[w] + (IF w \in deleted THEN 1 ELSE 0) = 1  BY <1>1 DEF WaiterOnce
  <2>3. Places(w) \in SUBSET (Fds \X Dirs)  BY DEF Places
  <2>4. Cardinality(Places(w)) \in Nat /\ resumed[w] \in Nat
    BY <1>1, <2>1, <2>3, PairsFinite DEF TypeOK
  <2>5. CASE w = w0  BY <1>11, <1>12, <2>1, <2>2, <2>4, <2>5
  <2>6. CASE w # w0  BY <1>11, <2>1, <2>2, <2>4, <2>6
  <2>7. QED  BY <2>5, <2>6
<1>14. FutureWaiters'
  BY <1>1, <1>2, <1>11, <1>12 DEF FutureWaiters, TypeOK
<1>15. QED  BY <1>9, <1>10, <1>13, <1>14 DEF IndInv

\* cancelEvent keeps the invariant.
LEMMA CancelEventInv ==
  ASSUME IndInv, NEW fd \in Fds, NEW e \in Dirs, cancelEvent(fd, e)
  PROVE  IndInv'
<1>1. /\ e \in events[fd] /\ CtlSucceeds(ModOrDel(events[fd] \ {e}), fd)
      /\ Watch(fd, events[fd] \ {e}) /\ triggerEvents(fd, {e})
      /\ UNCHANGED <<open, closing, closes, report, aborted>>
  BY DEF cancelEvent
<1>2. TypeOK  BY DEF IndInv, RegistrationsAgree
<1>3. {e} \in SUBSET events[fd]  BY <1>1
<1>4. /\ closing' \in SUBSET open /\ closes' \in Nat
      /\ report' \in [Dispatchers -> [Fds -> SUBSET (Dirs \cup {HUP})]]
      /\ \A t \in Dispatchers, f \in Fds \ {fd} : report'[t][f] = report[t][f]
  BY <1>1, <1>2 DEF TypeOK
<1>5. QED  BY <1>1, <1>3, <1>4, Triggered

\* cancelAll keeps the invariant, by itself and as the first half of close().
LEMMA CancelAllInv ==
  ASSUME IndInv, NEW fd \in Fds, cancelAll(fd), closing' \in SUBSET open, closes' \in Nat
  PROVE  IndInv'
<1>1. TypeOK  BY DEF IndInv, RegistrationsAgree
<1>2. CASE events[fd] # {} /\ CtlSucceeds("DEL", fd)
  <2>1. Watch(fd, {}) /\ triggerEvents(fd, events[fd]) /\ UNCHANGED <<open, report, aborted>>
    BY <1>2 DEF cancelAll
  <2>2. events[fd] \ events[fd] = {}  OBVIOUS
  <2>3. CtlSucceeds(ModOrDel(events[fd] \ events[fd]), fd)  BY <1>2, <2>2 DEF ModOrDel
  <2>4. /\ report' \in [Dispatchers -> [Fds -> SUBSET (Dirs \cup {HUP})]]
        /\ \A t \in Dispatchers, f \in Fds \ {fd} : report'[t][f] = report[t][f]
    BY <1>1, <2>1 DEF TypeOK
  <2>5. Watch(fd, events[fd] \ events[fd])  BY <2>1, <2>2
  <2>6. QED  BY <2>1, <2>3, <2>4, <2>5, Triggered
<1>3. CASE ~(events[fd] # {} /\ CtlSucceeds("DEL", fd))
  <2>1. UNCHANGED <<interest, cond, ready, events, ctx, stale, m_pendingEvenCount, waiters, open, report, aborted>>
    BY <1>3 DEF cancelAll, kernel
  <2>2. TypeOK'  BY <1>1, <2>1 DEF TypeOK, waiters
  <2>3. RegistrationsAgree' /\ WaiterOnce' /\ FutureWaiters'
    BY <2>1, <2>2, ContextsKept DEF RegistrationsAgree
  <2>4. LeftoversApart' /\ NoMissedEdge'
    BY <2>1 DEF IndInv, LeftoversApart, NoMissedEdge
  <2>5. QED  BY <2>3, <2>4 DEF IndInv
<1>4. QED  BY <1>2, <1>3

\* The close() system call keeps the invariant: what is still registered becomes a
\* leftover as a whole.
LEMMA CloseClosesInv ==
  ASSUME IndInv, NEW fd \in Fds, CloseCloses(fd)
  PROVE  IndInv'
<1>1. TypeOK /\ RegistrationsAgree /\ LeftoversApart /\ NoMissedEdge  BY DEF IndInv, RegistrationsAgree
<1>2. /\ open' = open \ {fd} /\ closing' = closing \ {fd}
      /\ stale' = [stale EXCEPT ![fd] = events[fd]]
      /\ interest' = [interest EXCEPT ![fd] = {}]
      /\ cond' = [cond EXCEPT ![fd] = {}]
      /\ ready' = ready \ {fd}
      /\ UNCHANGED <<events, ctx, m_pendingEvenCount, closes, report, adds, resumed, deleted, aborted>>
  BY DEF CloseCloses, waiters
<1>3. TypeOK'  BY <1>1, <1>2 DEF TypeOK
<1>4. Registrations' = Registrations /\ \A w : Places(w)' = Places(w)
  BY <1>2 DEF Registrations, Places
<1>5. \A f \in Fds : interest'[f] = events'[f] \ stale'[f]
  BY <1>1, <1>2 DEF TypeOK, RegistrationsAgree
<1>6. RegistrationsAgree'  BY <1>1, <1>2, <1>3, <1>4, <1>5 DEF RegistrationsAgree
<1>7. LeftoversApart'  BY <1>1, <1>2 DEF TypeOK, LeftoversApart
<1>8. WaiterOnce' /\ FutureWaiters'  BY <1>2, <1>4 DEF IndInv, WaiterOnce, FutureWaiters
<1>9. NoMissedEdge'  BY <1>1, <1>2 DEF TypeOK, NoMissedEdge
<1>10. QED  BY <1>6, <1>7, <1>8, <1>9 DEF IndInv

\* A number that is handed out again keeps the invariant.
LEMMA ReopenInv ==
  ASSUME IndInv, NEW fd \in Fds, Reopen(fd)
  PROVE  IndInv'
<1>1. /\ open' = open \cup {fd}
      /\ UNCHANGED <<events, ctx, m_pendingEvenCount, closing, stale, closes, interest, cond, ready, report, waiters, aborted>>
  BY DEF Reopen, kernel
<1>2. TypeOK'  BY <1>1 DEF IndInv, RegistrationsAgree, TypeOK, waiters
<1>3. RegistrationsAgree' /\ WaiterOnce' /\ FutureWaiters'
  BY <1>1, <1>2, ContextsKept DEF RegistrationsAgree
<1>4. LeftoversApart' /\ NoMissedEdge'  BY <1>1 DEF IndInv, LeftoversApart, NoMissedEdge
<1>5. QED  BY <1>3, <1>4 DEF IndInv

-----------------------------------------------------------------------------
(* The world and the loop of idle().                                        *)

\* A condition that arises puts a watched descriptor on the ready list.
LEMMA HappensInv ==
  ASSUME IndInv, NEW fd \in Fds, NEW c \in Dirs \cup {HUP}, Happens(fd, c)
  PROVE  IndInv'
<1>1. TypeOK /\ NoMissedEdge  BY DEF IndInv, RegistrationsAgree
<1>2. /\ cond' = [cond EXCEPT ![fd] = @ \cup {c}]
      /\ ready' = (IF interest[fd] # {} /\ c \in interest[fd] \cup {HUP} THEN ready \cup {fd} ELSE ready)
      /\ UNCHANGED <<events, ctx, m_pendingEvenCount, open, closing, stale, closes, interest, report, waiters, aborted>>
  BY DEF Happens, files
<1>3. TypeOK'  BY <1>1, <1>2 DEF TypeOK, waiters
<1>4. RegistrationsAgree' /\ WaiterOnce' /\ FutureWaiters'
  BY <1>2, <1>3, ContextsKept DEF RegistrationsAgree
<1>5. LeftoversApart'  BY <1>2 DEF IndInv, LeftoversApart
<1>6. NoMissedEdge'
  <2> SUFFICES ASSUME NEW f \in Fds, NEW d \in interest'[f] \cap cond'[f]
               PROVE  f \in ready' \/ (\E t \in Dispatchers : report'[t][f] \cap {d, HUP} # {}) \/ aborted' # "no"
    BY DEF NoMissedEdge
  <2>1. CASE d \in cond[f]  BY <1>1, <1>2, <2>1 DEF NoMissedEdge
  <2>2. CASE d \notin cond[f]
    <3>1. f = fd /\ d = c /\ d \in interest[fd]  BY <1>1, <1>2, <2>2 DEF TypeOK
    <3>2. QED  BY <1>2, <3>1
  <2>3. QED  BY <2>1, <2>2
<1>7. QED  BY <1>4, <1>5, <1>6 DEF IndInv

\* A condition that ceases leaves nothing to be reported.
LEMMA CeasesInv ==
  ASSUME IndInv, NEW fd \in Fds, NEW c \in Dirs \cup {HUP}, Ceases(fd, c)
  PROVE  IndInv'
<1>1. TypeOK /\ NoMissedEdge  BY DEF IndInv, RegistrationsAgree
<1>2. /\ cond' = [cond EXCEPT ![fd] = @ \ {c}]
      /\ UNCHANGED <<events, ctx, m_pendingEvenCount, open, closing, stale, closes, interest, ready, report, waiters, aborted>>
  BY DEF Ceases, files
<1>3. TypeOK'  BY <1>1, <1>2 DEF TypeOK, waiters
<1>4. RegistrationsAgree' /\ WaiterOnce' /\ FutureWaiters'
  BY <1>2, <1>3, ContextsKept DEF RegistrationsAgree
<1>5. LeftoversApart'  BY <1>2 DEF IndInv, LeftoversApart
<1>6. NoMissedEdge'  BY <1>1, <1>2 DEF TypeOK, NoMissedEdge
<1>7. QED  BY <1>4, <1>5, <1>6 DEF IndInv

\* epoll_wait moves what is on the ready list into the report of the caller.
LEMMA EpollWaitInv ==
  ASSUME IndInv, NEW t \in Dispatchers, EpollWait(t)
  PROVE  IndInv'
<1>1. TypeOK /\ NoMissedEdge  BY DEF IndInv, RegistrationsAgree
<1>2. /\ report' = [report EXCEPT ![t] = [fd \in Fds |-> IF fd \in ready THEN Reported(fd, interest[fd]) ELSE {}]]
      /\ ready' = {} /\ Idle(t)
      /\ UNCHANGED <<events, ctx, m_pendingEvenCount, open, closing, stale, closes, interest, cond, waiters, aborted>>
  BY DEF EpollWait, files
<1>3. \A fd \in Fds : Reported(fd, interest[fd]) \in SUBSET (Dirs \cup {HUP})
  BY <1>1 DEF TypeOK, Reported
<1>4. report' \in [Dispatchers -> [Fds -> SUBSET (Dirs \cup {HUP})]]
  BY <1>1, <1>2, <1>3 DEF TypeOK
<1>5. TypeOK'  BY <1>1, <1>2, <1>4 DEF TypeOK, waiters
<1>6. RegistrationsAgree' /\ WaiterOnce' /\ FutureWaiters'
  BY <1>2, <1>5, ContextsKept DEF RegistrationsAgree
<1>7. LeftoversApart'  BY <1>2 DEF IndInv, LeftoversApart
<1>8. NoMissedEdge'
  <2> SUFFICES ASSUME NEW f \in Fds, NEW d \in interest[f] \cap cond[f]
               PROVE  f \in ready' \/ (\E u \in Dispatchers : report'[u][f] \cap {d, HUP} # {}) \/ aborted' # "no"
    BY <1>2 DEF NoMissedEdge
  <2>1. CASE f \in ready
    <3>1. report'[t][f] = Reported(f, interest[f])  BY <1>1, <1>2, <2>1 DEF TypeOK
    <3>2. d \in Reported(f, interest[f])  BY DEF Reported
    <3>3. QED  BY <3>1, <3>2
  <2>2. CASE aborted # "no"  BY <1>2, <2>2
  <2>3. CASE \E u \in Dispatchers : report[u][f] \cap {d, HUP} # {}
    <3>1. PICK u \in Dispatchers : report[u][f] \cap {d, HUP} # {}  BY <2>3
    <3>2. u # t  BY <1>2, <3>1 DEF Idle
    <3>3. report'[u] = report[u]  BY <1>1, <1>2, <3>2 DEF TypeOK
    <3>4. QED  BY <3>1, <3>3
  <2>4. QED  BY <1>1, <2>1, <2>2, <2>3 DEF NoMissedEdge
<1>9. QED  BY <1>6, <1>7, <1>8 DEF IndInv

\* Handling a report of a registered event triggers its waiter.
LEMMA DispatchInv ==
  ASSUME IndInv, NEW t \in Dispatchers, NEW fd \in Fds, Dispatch(t, fd)
  PROVE  IndInv'
<1> DEFINE real == RealEvents(t, fd)
<1>1. TypeOK  BY DEF IndInv, RegistrationsAgree
<1>2. /\ CtlSucceeds(ModOrDel(events[fd] \ real), fd) /\ real \in SUBSET events[fd]
      /\ Watch(fd, events[fd] \ real) /\ triggerEvents(fd, real)
      /\ report' = [report EXCEPT ![t][fd] = {}]
      /\ UNCHANGED <<open, closing, closes, aborted>>
  BY DEF Dispatch, Handled
<1>3. /\ closing' \in SUBSET open /\ closes' \in Nat
      /\ report' \in [Dispatchers -> [Fds -> SUBSET (Dirs \cup {HUP})]]
      /\ \A u \in Dispatchers, f \in Fds \ {fd} : report'[u][f] = report[u][f]
  BY <1>1, <1>2 DEF TypeOK
<1> HIDE DEF real
<1>4. QED  BY <1>2, <1>3, Triggered

\* A failing assertion of triggerEvent ends the program.
LEMMA DispatchAbortsInv ==
  ASSUME IndInv, NEW t \in Dispatchers, NEW fd \in Fds, DispatchAborts(t, fd)
  PROVE  IndInv'
<1>1. /\ aborted' = "triggerEvent"
      /\ UNCHANGED <<events, ctx, m_pendingEvenCount, open, closing, stale, closes, interest, cond, ready, report, waiters>>
  BY DEF DispatchAborts, files, kernel
<1>2. TypeOK'  BY <1>1 DEF IndInv, RegistrationsAgree, TypeOK, waiters
<1>3. RegistrationsAgree' /\ WaiterOnce' /\ FutureWaiters'
  BY <1>1, <1>2, ContextsKept DEF RegistrationsAgree
<1>4. LeftoversApart' /\ NoMissedEdge'  BY <1>1 DEF IndInv, LeftoversApart, NoMissedEdge
<1>5. QED  BY <1>3, <1>4 DEF IndInv

\* A report that is dropped was about nothing that is still watched: skipping it
\* loses no edge.
LEMMA DispatchSkipsInv ==
  ASSUME IndInv, NEW t \in Dispatchers, NEW fd \in Fds, DispatchSkips(t, fd)
  PROVE  IndInv'
<1> DEFINE real == RealEvents(t, fd)
<1>1. TypeOK /\ RegistrationsAgree /\ LeftoversApart /\ NoMissedEdge  BY DEF IndInv, RegistrationsAgree
<1>2. /\ events[fd] \cap real = {} \/ ~CtlSucceeds(ModOrDel(events[fd] \ real), fd)
      /\ report' = [report EXCEPT ![t][fd] = {}]
      /\ UNCHANGED <<events, ctx, m_pendingEvenCount, open, closing, stale, closes, interest, cond, ready, waiters, aborted>>
  BY DEF DispatchSkips, Handled, files, kernel
<1>3. TypeOK'  BY <1>1, <1>2 DEF TypeOK, waiters
<1>4. RegistrationsAgree' /\ WaiterOnce' /\ FutureWaiters'
  BY <1>2, <1>3, ContextsKept DEF RegistrationsAgree
<1>5. LeftoversApart'  BY <1>1, <1>2 DEF LeftoversApart
<1>6. ASSUME NEW d \in interest[fd] \cap cond[fd]
      PROVE  report[t][fd] \cap {d, HUP} = {}
  <2>1. fd \in open /\ interest[fd] # {}  BY <1>1 DEF LeftoversApart
  <2>2. CtlSucceeds(ModOrDel(events[fd] \ real), fd)  BY <2>1 DEF CtlSucceeds, ModOrDel
  <2>3. events[fd] \cap real = {}  BY <1>2, <2>2
  <2>4. d \in events[fd] /\ d \in Dirs  BY <1>1 DEF RegistrationsAgree, TypeOK
  <2>5. d \notin real  BY <2>3, <2>4
  <2>6. QED  BY <2>4, <2>5 DEF RealEvents
<1>7. NoMissedEdge'
  <2> SUFFICES ASSUME NEW f \in Fds, NEW d \in interest[f] \cap cond[f]
               PROVE  f \in ready \/ (\E u \in Dispatchers : report'[u][f] \cap {d, HUP} # {}) \/ aborted # "no"
    BY <1>2 DEF NoMissedEdge
  <2>1. CASE f \in ready \/ aborted # "no"  BY <2>1
  <2>2. CASE \E u \in Dispatchers : report[u][f] \cap {d, HUP} # {}
    <3>1. PICK u \in Dispatchers : report[u][f] \cap {d, HUP} # {}  BY <2>2
    <3>2. ~(u = t /\ f = fd)  BY <1>6, <3>1
    <3>3. report'[u][f] = report[u][f]  BY <1>1, <1>2, <3>2 DEF TypeOK
    <3>4. QED  BY <3>1, <3>3
  <2>3. QED  BY <1>1, <2>1, <2>2 DEF NoMissedEdge
<1>8. QED  BY <1>4, <1>5, <1>7 DEF IndInv

-----------------------------------------------------------------------------
(* The theorems.                                                            *)

\* The inductive invariant holds when nothing has been registered yet.
LEMMA InitInv == Init => IndInv
<1> SUFFICES ASSUME Init PROVE IndInv
  OBVIOUS
<1>1. TypeOK  BY IOEventsAssumption DEF Init, TypeOK, Waiters
<1>2. Registrations = {}  BY DEF Init, Registrations
<1>3. RegistrationsAgree
  BY <1>1, <1>2, FS_EmptySet DEF Init, RegistrationsAgree
<1>4. \A w \in Waiters : Places(w) = {}
  BY IOEventsAssumption DEF Init, Places, Waiters, NoWaiter
<1>5. WaiterOnce /\ FutureWaiters  BY <1>4 DEF Init, WaiterOnce, FutureWaiters
<1>6. LeftoversApart /\ NoMissedEdge  BY DEF Init, LeftoversApart, NoMissedEdge
<1>7. QED  BY <1>3, <1>5, <1>6 DEF IndInv

\* Every step of clients, kernel and dispatching threads keeps it.
LEMMA NextInv == IndInv /\ [Next]_vars => IndInv'
<1> SUFFICES ASSUME IndInv, [Next]_vars PROVE IndInv'
  OBVIOUS
<1>1. CASE Clients
  <2>1. PICK fd \in Fds :
          \/ \E e \in Dirs : addEvent(fd, e) \/ delEvent(fd, e) \/ cancelEvent(fd, e)
          \/ CancelsAll(fd) \/ CloseCancels(fd) \/ CloseCloses(fd) \/ Reopen(fd)
    BY <1>1 DEF Clients
  <2>2. CASE \E e \in Dirs : addEvent(fd, e) \/ delEvent(fd, e) \/ cancelEvent(fd, e)
    BY <2>2, AddEventInv, DelEventInv, CancelEventInv
  <2>3. TypeOK  BY DEF IndInv, RegistrationsAgree
  <2>4. CASE CancelsAll(fd)
    <3>1. cancelAll(fd) /\ closing' \in SUBSET open /\ closes' \in Nat
      BY <2>3, <2>4 DEF CancelsAll, TypeOK
    <3>2. QED  BY <3>1, CancelAllInv
  <2>5. CASE CloseCancels(fd)
    <3>1. cancelAll(fd) /\ closing' \in SUBSET open /\ closes' \in Nat
      BY <2>3, <2>5 DEF CloseCancels, TypeOK
    <3>2. QED  BY <3>1, CancelAllInv
  <2>6. CASE CloseCloses(fd) \/ Reopen(fd)  BY <2>6, CloseClosesInv, ReopenInv
  <2>7. QED  BY <2>1, <2>2, <2>4, <2>5, <2>6
<1>2. CASE World  BY <1>2, HappensInv, CeasesInv DEF World
<1>3. CASE \E t \in Dispatchers : Serve(t)
  BY <1>3, EpollWaitInv, DispatchInv, DispatchAbortsInv, DispatchSkipsInv DEF Serve
<1>4. CASE UNCHANGED vars
  <2>1. UNCHANGED <<events, ctx, m_pendingEvenCount, open, closing, stale, closes, interest, cond, ready, report, waiters, aborted>>
    BY <1>4 DEF vars, files, kernel
  <2>2. TypeOK'  BY <2>1 DEF IndInv, RegistrationsAgree, TypeOK, waiters
  <2>3. RegistrationsAgree' /\ WaiterOnce' /\ FutureWaiters'
    BY <2>1, <2>2, ContextsKept DEF RegistrationsAgree
  <2>4. LeftoversApart' /\ NoMissedEdge'  BY <2>1 DEF IndInv, LeftoversApart, NoMissedEdge
  <2>5. QED  BY <2>3, <2>4 DEF IndInv
<1>5. QED  BY <1>1, <1>2, <1>3, <1>4 DEF Next, Aborted

\* In every behaviour of the descriptor contexts the inductive invariant holds.
THEOREM SpecIndInv == Spec => []IndInv
<1>1. Init => IndInv  BY InitInv
<1>2. IndInv /\ [Next]_vars => IndInv'  BY NextInv
<1>3. QED  BY <1>1, <1>2, PTL DEF Spec

\* FdContext's bits and contexts, m_pendingEvenCount and epoll's interest agree,
\* whichever of addEvent, delEvent, cancelEvent, cancelAll, close() and the loop of
\* idle() interleave.
THEOREM SpecRegistrationsAgree == Spec => []RegistrationsAgree
<1>1. IndInv => RegistrationsAgree  BY DEF IndInv
<1>2. QED  BY <1>1, SpecIndInv, PTL

\* No waiter given to addEvent is handed to the scheduler twice, and none is lost.
THEOREM SpecWaiterOnce == Spec => []WaiterOnce
<1>1. IndInv => WaiterOnce  BY DEF IndInv
<1>2. QED  BY <1>1, SpecIndInv, PTL

\* The loop of idle() and the epoll_ctl calls lose no edge of a watched condition.
THEOREM SpecNoMissedEdge == Spec => []NoMissedEdge
<1>1. IndInv => NoMissedEdge  BY DEF IndInv
<1>2. QED  BY <1>1, SpecIndInv, PTL
=============================================================================
