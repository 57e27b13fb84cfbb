------------------------------ MODULE IOEvents ------------------------------
(***************************************************************************)
(* The descriptor contexts of IOManager (FdContext in ioscheduler.h/.cpp): *)
(* addEvent, delEvent, cancelEvent and cancelAll against the loop of       *)
(* idle() that takes reports from epoll_wait and triggers the waiters, and *)
(* against close() of hook.cpp, which cancels first and closes then.       *)
(*                                                                         *)
(* Each operation holds fd_ctx->mutex from its first look at the context   *)
(* to its end, so it is one step; between epoll_wait and the handling of a *)
(* report no lock is held.  The kernel side is external: an edge-triggered *)
(* epoll instance that puts a descriptor on its ready list when a watched  *)
(* condition arises and when epoll_ctl finds one already there.            *)
(*                                                                         *)
(* A program built with assertions ends at a failing one.  A waiter is the *)
(* fiber or callback of one call of addEvent, numbered in order of calls.  *)
(*                                                                         *)
(* A definition X_Y just before X is X with a plausible bug Y; it is used  *)
(* only to confirm that the properties notice the bug.                     *)
(***************************************************************************)
EXTENDS Integers, FiniteSets

CONSTANTS
  Fds,          \* descriptor numbers
  Dispatchers,  \* threads that run idle()
  MaxAdds,      \* bound: successful calls of addEvent
  MaxCloses     \* bound: calls of close()

ASSUME IOEventsAssumption ==
  /\ IsFiniteSet(Fds) /\ IsFiniteSet(Dispatchers)
  /\ MaxAdds \in Nat /\ MaxCloses \in Nat

Dirs == {"READ", "WRITE"}
HUP == "HUP"                        \* EPOLLERR and EPOLLHUP: reported without being asked for
Waiters == 1..MaxAdds
NoWaiter == 0

VARIABLES
  events,             \* events[fd]: FdContext::events
  ctx,                \* ctx[fd][e]: the waiter in the event context, if any
  m_pendingEvenCount,
  open,               \* the descriptors that are open
  closing,            \* those between close()'s cancelAll and its close
  stale,              \* stale[fd]: events still registered when fd was closed
  interest,           \* interest[fd]: what epoll watches ({}: fd is not registered)
  cond,               \* cond[fd]: what is true of the descriptor
  ready,              \* epoll's ready list
  report,             \* report[t][fd]: conditions epoll_wait gave to t and t has not handled
  adds,               \* calls of addEvent so far
  resumed,            \* resumed[w]: how often waiter w was handed to the scheduler
  deleted,            \* waiters delEvent dropped
  closes,
  aborted             \* the assertion that has failed, if any

kernel == <<interest, cond, ready>>
waiters == <<adds, resumed, deleted>>
files == <<open, closing, stale, closes>>
vars == <<events, ctx, m_pendingEvenCount, files, kernel, report, waiters, aborted>>

\* The types of the variables: in particular the counter never underflows.
TypeOK ==
  /\ events \in [Fds -> SUBSET Dirs]
  /\ ctx \in [Fds -> [Dirs -> Waiters \cup {NoWaiter}]]
  /\ m_pendingEvenCount \in Nat
  /\ open \in SUBSET Fds /\ closing \in SUBSET open
  /\ stale \in [Fds -> SUBSET Dirs]
  /\ interest \in [Fds -> SUBSET Dirs]
  /\ cond \in [Fds -> SUBSET (Dirs \cup {HUP})]
  /\ ready \in SUBSET Fds
  /\ report \in [Dispatchers -> [Fds -> SUBSET (Dirs \cup {HUP})]]
  /\ adds \in 0..MaxAdds /\ resumed \in [Waiters -> Nat] /\ deleted \in SUBSET Waiters
  /\ closes \in Nat
  /\ aborted \in {"no", "triggerEvent", "addEvent"}

Init ==
  /\ events = [fd \in Fds |-> {}] /\ ctx = [fd \in Fds |-> [e \in Dirs |-> NoWaiter]]
  /\ m_pendingEvenCount = 0
  /\ open = Fds /\ closing = {} /\ stale = [fd \in Fds |-> {}]
  /\ interest = [fd \in Fds |-> {}] /\ cond = [fd \in Fds |-> {}] /\ ready = {}
  /\ report = [t \in Dispatchers |-> [fd \in Fds |-> {}]]
  /\ adds = 0 /\ resumed = [w \in Waiters |-> 0] /\ deleted = {}
  /\ closes = 0 /\ aborted = "no"

-----------------------------------------------------------------------------
(* The kernel (external).                                                   *)

\* Conditions of fd that an epoll watching for S reports.
Reported(fd, S) == IF S = {} THEN {} ELSE cond[fd] \cap (S \cup {HUP})

\* epoll_ctl: ADD wants fd unregistered, MOD and DEL want it registered.
CtlSucceeds(op, fd) == fd \in open /\ (op = "ADD" <=> interest[fd] = {})

\* Its effect, when it succeeds, is that fd is watched for S.
Watch(fd, S) ==
  /\ interest' = [interest EXCEPT ![fd] = S]
  /\ ready' = (IF S = {} THEN ready \ {fd} ELSE IF Reported(fd, S) # {} THEN ready \cup {fd} ELSE ready)
  /\ UNCHANGED cond

ModOrDel(left) == IF left = {} THEN "DEL" ELSE "MOD"

-----------------------------------------------------------------------------
(* Pieces the operations share.                                             *)

\* What triggerEvent and resetEventContext leave for the events S of fd.
Forget(fd, S) ==
  /\ events' = [events EXCEPT ![fd] = @ \ S]
  /\ ctx' = [ctx EXCEPT ![fd] = [e \in Dirs |-> IF e \in S THEN NoWaiter ELSE @[e]]]
  /\ stale' = [stale EXCEPT ![fd] = @ \ S]
  /\ m_pendingEvenCount' = m_pendingEvenCount - Cardinality(S)

\* schedulerLock for the waiters of the events S of fd.
Resume(fd, S) == resumed' = [w \in Waiters |-> resumed[w] + Cardinality({e \in S : ctx[fd][e] = w})]

triggerEvents(fd, S) == Forget(fd, S) /\ Resume(fd, S) /\ UNCHANGED <<adds, deleted>>

-----------------------------------------------------------------------------
(* The operations, called by any thread.                                    *)

\* A client waits for an event of an open descriptor that nobody waits for, as far
\* as the clients can know: a registration left over from before the number was
\* closed and opened again belongs to nobody.
addEvent(fd, e) ==
  /\ aborted = "no" /\ adds < MaxAdds
  /\ fd \in open /\ e \notin events[fd] \ stale[fd]
  /\ \/ /\ e \in events[fd]
        /\ aborted' = "addEvent"
        /\ UNCHANGED <<events, ctx, m_pendingEvenCount, stale, kernel, waiters>>
     \/ /\ e \notin events[fd]
        /\ CtlSucceeds(IF events[fd] = {} THEN "ADD" ELSE "MOD", fd)
        /\ Watch(fd, events[fd] \cup {e})
        /\ events' = [events EXCEPT ![fd] = @ \cup {e}]
        /\ ctx' = [ctx EXCEPT ![fd][e] = adds + 1]
        /\ m_pendingEvenCount' = m_pendingEvenCount + 1
        /\ adds' = adds + 1
        /\ UNCHANGED <<resumed, deleted, stale, aborted>>
  /\ UNCHANGED <<open, closing, closes, report>>

\* delEvent: the waiter is dropped whether or not epoll_ctl succeeds.
delEvent(fd, e) ==
  LET left == events[fd] \ {e} IN
  /\ aborted = "no" /\ e \in events[fd]
  /\ IF CtlSucceeds(ModOrDel(left), fd) THEN Watch(fd, left) ELSE UNCHANGED kernel
  /\ Forget(fd, {e})
  /\ deleted' = deleted \cup {ctx[fd][e]}
  /\ UNCHANGED <<open, closing, closes, report, adds, resumed, aborted>>

cancelEvent_Silent(fd, e) ==
  LET left == events[fd] \ {e} IN
  /\ aborted = "no" /\ e \in events[fd]
  /\ CtlSucceeds(ModOrDel(left), fd)
  /\ Watch(fd, left)
  /\ Forget(fd, {e})
  /\ UNCHANGED <<open, closing, closes, report, waiters, aborted>>

\* cancelEvent: nothing is done when epoll_ctl fails.
cancelEvent(fd, e) ==
  LET left == events[fd] \ {e} IN
  /\ aborted = "no" /\ e \in events[fd]
  /\ CtlSucceeds(ModOrDel(left), fd)
  /\ Watch(fd, left)
  /\ triggerEvents(fd, {e})
  /\ UNCHANGED <<open, closing, closes, report, aborted>>

\* cancelAll: the same for whatever is registered.
cancelAll(fd) ==
  /\ IF events[fd] # {} /\ CtlSucceeds("DEL", fd)
     THEN Watch(fd, {}) /\ triggerEvents(fd, events[fd])
     ELSE UNCHANGED <<kernel, events, ctx, stale, m_pendingEvenCount, waiters>>
  /\ UNCHANGED <<open, report, aborted>>

CancelsAll(fd) ==
  /\ aborted = "no" /\ events[fd] # {}
  /\ cancelAll(fd)
  /\ UNCHANGED <<closing, closes>>

-----------------------------------------------------------------------------
(* close() of hook.cpp: cancelAll, then the system call.                    *)

CloseCancels(fd) ==
  /\ aborted = "no" /\ closes < MaxCloses
  /\ fd \in open \ closing
  /\ closes' = closes + 1
  /\ closing' = closing \cup {fd}
  /\ cancelAll(fd)

CloseCloses(fd) ==
  /\ aborted = "no" /\ fd \in closing
  /\ open' = open \ {fd} /\ closing' = closing \ {fd}
  /\ stale' = [stale EXCEPT ![fd] = events[fd]]
  /\ interest' = [interest EXCEPT ![fd] = {}]
  /\ cond' = [cond EXCEPT ![fd] = {}]
  /\ ready' = ready \ {fd}
  /\ UNCHANGED <<events, ctx, m_pendingEvenCount, closes, report, waiters, aborted>>

\* socket() or accept() hands out the number again.
Reopen(fd) ==
  /\ aborted = "no" /\ fd \notin open
  /\ open' = open \cup {fd}
  /\ UNCHANGED <<events, ctx, m_pendingEvenCount, closing, stale, closes, kernel, report, waiters, aborted>>

-----------------------------------------------------------------------------
(* The world.                                                               *)

Happens(fd, c) ==
  /\ aborted = "no" /\ fd \in open /\ c \notin cond[fd]
  /\ cond' = [cond EXCEPT ![fd] = @ \cup {c}]
  /\ ready' = (IF interest[fd] # {} /\ c \in interest[fd] \cup {HUP} THEN ready \cup {fd} ELSE ready)
  /\ UNCHANGED <<events, ctx, m_pendingEvenCount, files, interest, report, waiters, aborted>>

\* The data is read, the buffer fills up.
Ceases(fd, c) ==
  /\ aborted = "no" /\ c \in cond[fd] \ {HUP}
  /\ cond' = [cond EXCEPT ![fd] = @ \ {c}]
  /\ UNCHANGED <<events, ctx, m_pendingEvenCount, files, interest, ready, report, waiters, aborted>>

-----------------------------------------------------------------------------
(* idle() on thread t.                                                      *)

Idle(t) == \A fd \in Fds : report[t][fd] = {}

EpollWait(t) ==
  /\ aborted = "no" /\ Idle(t)
  /\ ready # {}
  /\ report' = [report EXCEPT ![t] = [fd \in Fds |-> IF fd \in ready THEN Reported(fd, interest[fd]) ELSE {}]]
  /\ ready' = {}
  /\ UNCHANGED <<events, ctx, m_pendingEvenCount, files, interest, cond, waiters, aborted>>

\* real_events: an error or hang-up stands for everything that is registered.
RealEvents(t, fd) == (report[t][fd] \cap Dirs) \cup (IF HUP \in report[t][fd] THEN events[fd] ELSE {})

Handled(t, fd) == report' = [report EXCEPT ![t][fd] = {}]

Dispatch_ForgetsRest(t, fd) ==
  LET real == RealEvents(t, fd) IN
  /\ aborted = "no" /\ report[t][fd] # {}
  /\ events[fd] \cap real # {} /\ CtlSucceeds("DEL", fd)
  /\ real \subseteq events[fd]
  /\ Watch(fd, {})
  /\ triggerEvents(fd, real)
  /\ Handled(t, fd)
  /\ UNCHANGED <<open, closing, closes, aborted>>

Dispatch_OnlyFirst(t, fd) ==
  LET real == RealEvents(t, fd)
      first == IF "READ" \in real THEN {"READ"} ELSE real
  IN
  /\ aborted = "no" /\ report[t][fd] # {}
  /\ real \subseteq events[fd] /\ real # {}
  /\ IF events[fd] = first THEN Watch(fd, {}) ELSE UNCHANGED kernel
  /\ triggerEvents(fd, first)
  /\ Handled(t, fd)
  /\ UNCHANGED <<open, closing, closes, aborted>>

\* A report: the descriptor keeps watching for the rest, the waiters are triggered.
Dispatch(t, fd) ==
  LET real == RealEvents(t, fd)
      left == events[fd] \ real
  IN
  /\ aborted = "no" /\ report[t][fd] # {}
  /\ events[fd] \cap real # {} /\ CtlSucceeds(ModOrDel(left), fd)
  /\ real \subseteq events[fd]
  /\ Watch(fd, left)
  /\ triggerEvents(fd, real)
  /\ Handled(t, fd)
  /\ UNCHANGED <<open, closing, closes, aborted>>

\* triggerEvent's assert fails: one of the reported events is not registered any more.
DispatchAborts(t, fd) ==
  LET real == RealEvents(t, fd) IN
  /\ aborted = "no" /\ report[t][fd] # {}
  /\ events[fd] \cap real # {} /\ CtlSucceeds(ModOrDel(events[fd] \ real), fd)
  /\ ~(real \subseteq events[fd])
  /\ aborted' = "triggerEvent"
  /\ UNCHANGED <<events, ctx, m_pendingEvenCount, files, kernel, report, waiters>>

\* Nothing of it is registered any more, or epoll_ctl fails.
DispatchSkips(t, fd) ==
  LET real == RealEvents(t, fd) IN
  /\ aborted = "no" /\ report[t][fd] # {}
  /\ events[fd] \cap real = {} \/ ~CtlSucceeds(ModOrDel(events[fd] \ real), fd)
  /\ Handled(t, fd)
  /\ UNCHANGED <<events, ctx, m_pendingEvenCount, files, kernel, waiters, aborted>>

-----------------------------------------------------------------------------
Clients ==
  \E fd \in Fds :
    \/ \E e \in Dirs : addEvent(fd, e) \/ delEvent(fd, e) \/ cancelEvent(fd, e)
    \/ CancelsAll(fd) \/ CloseCancels(fd) \/ CloseCloses(fd) \/ Reopen(fd)

World == \E fd \in Fds, c \in Dirs \cup {HUP} : Happens(fd, c) \/ Ceases(fd, c)

Serve(t) ==
  EpollWait(t) \/ \E fd \in Fds : Dispatch(t, fd) \/ DispatchAborts(t, fd) \/ DispatchSkips(t, fd)

Aborted == aborted # "no" /\ UNCHANGED vars

Next == Clients \/ World \/ (\E t \in Dispatchers : Serve(t)) \/ Aborted

Spec == Init /\ [][Next]_vars

-----------------------------------------------------------------------------
(* Properties.                                                              *)

\* The bits set in the contexts of all descriptors, and where the waiter w is registered.
Registrations == {p \in Fds \X Dirs : p[2] \in events[p[1]]}
Places(w) == {p \in Fds \X Dirs : ctx[p[1]][p[2]] = w}

\* Every waiter is in exactly one place: registered, handed to the scheduler
\* once, or dropped by delEvent.  So no fiber is resumed twice and none is
\* forgotten, however reports, cancellations and closes interleave.
WaiterOnce ==
  \A w \in 1..adds :
    Cardinality(Places(w)) + resumed[w] + (IF w \in deleted THEN 1 ELSE 0) = 1

\* The bit set and the contexts of a descriptor agree (the asserts in addEvent),
\* m_pendingEvenCount, which stopping() relies on, is the number of bits, and epoll
\* watches exactly what is registered, apart from registrations that outlived a close.
RegistrationsAgree ==
  /\ TypeOK
  /\ \A fd \in Fds, e \in Dirs : e \in events[fd] <=> ctx[fd][e] # NoWaiter
  /\ m_pendingEvenCount = Cardinality(Registrations)
  /\ \A fd \in Fds : interest[fd] = events[fd] \ stale[fd]

\* Edge-triggered epoll reports a condition once, so it must not get lost: while
\* a registered condition holds, the descriptor is on the ready list or some
\* thread has a report of it that it has not handled.
NoMissedEdge ==
  \A fd \in Fds : \A e \in interest[fd] \cap cond[fd] :
    \/ fd \in ready
    \/ \E t \in Dispatchers : report[t][fd] \cap {e, HUP} # {}
    \/ aborted # "no"

\* assert(events & event) in triggerEvent.
TriggerAssert == aborted # "triggerEvent"
=============================================================================
