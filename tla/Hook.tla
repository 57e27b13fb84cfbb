-------------------------------- MODULE Hook --------------------------------
(***************************************************************************)
(* The hooked system calls of hook.cpp (do_io, connect_with_timeout,       *)
(* sleep, socket, accept, close, fcntl, setsockopt) with the descriptor    *)
(* contexts of FdManager (fd_manager.cpp), called by fibers on the threads *)
(* of an IOManager, where hooking is enabled.                              *)
(*                                                                         *)
(* A step is what a call does between two points at which another thread   *)
(* can be seen: the system call, the insertion of the timer, addEvent, the *)
(* look at tinfo after the wait; each critical section of FdManager.  That *)
(* a fiber handed to the scheduler before it has yielded is resumed only   *)
(* after it, once, is what Scheduler shows: here a registered fiber waits, *)
(* and is woken.  A thread acts on what epoll_wait has reported at some    *)
(* later time, whatever has become of the number by then.                  *)
(*                                                                         *)
(* The kernel's sockets are external.  A descriptor number names, over     *)
(* time, several sockets; gen tells them apart and no code can see it.     *)
(*                                                                         *)
(* A definition X_Y just before X is X with a plausible bug Y; it is used  *)
(* only to confirm that the properties notice the bug.                     *)
(***************************************************************************)
EXTENDS Integers, FiniteSets

CONSTANTS
  Fds,          \* descriptor numbers
  Fibers,       \* fibers that make hooked calls
  MaxCalls,     \* bound: hooked calls made
  MaxOpens,     \* bound: sockets that ever exist
  MaxLive,      \* bound: sockets open after a socket(); accept() may add to them
  MaxRawCloses  \* bound: closes by threads where hooking is off (main)

Dirs == {"READ", "WRITE"}
NoFiber == "no fiber"
NoFd == -1

ASSUME HookAssumption ==
  /\ IsFiniteSet(Fds) /\ IsFiniteSet(Fibers)
  /\ Fds \subseteq Nat /\ NoFiber \notin Fibers
  /\ MaxCalls \in Nat /\ MaxOpens \in Nat /\ MaxLive \in Nat /\ MaxRawCloses \in Nat

VARIABLES
  sock,       \* sock[fd]: the kernel's socket behind fd
  opens,      \* sockets made so far
  m_datas,    \* FdManager: m_datas[fd] is the FdCtx of fd, if any
  waiter,     \* waiter[fd][e]: the fiber in IOManager's event context
  watched,    \* watched[fd]: what epoll watches fd for
  reports,    \* reports[fd][e]: the sockets of which a thread has a report of e on fd in its array
  pc,         \* pc[f]: where fiber f is in its call
  call,       \* call[f]: the call f is in, or its last
  tinfo,      \* tinfo[f]: timer_info::cancelled of f's call is set
  timer,      \* timer[f]: the timer of f's call is in the timer set
  fired,      \* fired[f]: callbacks of timers of f's call, collected but not yet run
  cancels,    \* cancels[fd][e]: callbacks about to call cancelEvent(fd, e)
  woken,      \* woken[f]: what ended f's last wait
  calls,      \* hooked calls made
  rawCloses,  \* numbers closed without hooking
  strays,     \* sockets whose flags were set by an fcntl() on the number's former socket
  aborted     \* addEvent's assertion has failed

kernel == <<sock, opens>>
io == <<waiter, watched, reports>>
timing == <<tinfo, timer, fired, cancels>>
world == <<calls, rawCloses, strays, aborted>>
vars == <<kernel, m_datas, io, pc, call, timing, woken, world>>

Kinds == {"read", "write", "accept", "connect", "sleep", "close", "socket", "fcntl", "fcntlBlock"}
IOKinds == {"read", "write", "accept"}
Dir(kind) == IF kind \in {"read", "accept"} THEN "READ" ELSE "WRITE"

\* The places of a call.  raw: the system call is passed through.
Places == {"idle", "raw", "try", "arm", "add", "wait", "woken", "soerror", "blocked",
           "register", "sleep", "closeDel", "closeSys", "fcntl"}

Closed == [gen |-> 0, nonblock |-> FALSE, conn |-> "no", cond |-> {}]
Conns == {"no", "listen", "doing", "yes", "failed"}
NewCtx(g) == [gen |-> g, userNonblock |-> FALSE, timed |-> [e \in Dirs |-> FALSE]]
NoCtx == NewCtx(0)     \* a null pointer

\* The types of the variables.
TypeOK ==
  /\ sock \in [Fds -> [gen : 0..MaxOpens, nonblock : BOOLEAN, conn : Conns, cond : SUBSET Dirs]]
  /\ opens \in 0..MaxOpens
  /\ m_datas \in [Fds -> [gen : 0..MaxOpens, userNonblock : BOOLEAN, timed : [Dirs -> BOOLEAN]]]
  /\ waiter \in [Fds -> [Dirs -> Fibers \cup {NoFiber}]]
  /\ watched \in [Fds -> SUBSET Dirs]
  /\ reports \in [Fds -> [Dirs -> SUBSET (0..MaxOpens)]]
  /\ pc \in [Fibers -> Places]
  /\ call \in [Fibers -> [kind : Kinds, fd : Fds \cup {NoFd}, gen : 0..MaxOpens, ctxGen : 0..MaxOpens,
                          timed : BOOLEAN, made : Fds \cup {NoFd}]]
  /\ tinfo \in [Fibers -> BOOLEAN] /\ timer \in [Fibers -> BOOLEAN]
  /\ fired \in [Fibers -> Nat] /\ cancels \in [Fds -> [Dirs -> Nat]]
  /\ woken \in [Fibers -> {"no", "event", "stale", "cancel", "timeout"}]
  /\ calls \in 0..MaxCalls /\ rawCloses \in SUBSET Fds /\ strays \in SUBSET (0..MaxOpens) /\ aborted \in BOOLEAN

NoCall == [kind |-> "sleep", fd |-> NoFd, gen |-> 0, ctxGen |-> 0, timed |-> FALSE, made |-> NoFd]

Init ==
  /\ sock = [fd \in Fds |-> Closed] /\ opens = 0
  /\ m_datas = [fd \in Fds |-> NoCtx]
  /\ waiter = [fd \in Fds |-> [e \in Dirs |-> NoFiber]] /\ watched = [fd \in Fds |-> {}]
  /\ reports = [fd \in Fds |-> [e \in Dirs |-> {}]]
  /\ pc = [f \in Fibers |-> "idle"] /\ call = [f \in Fibers |-> NoCall]
  /\ tinfo = [f \in Fibers |-> FALSE] /\ timer = [f \in Fibers |-> FALSE]
  /\ fired = [f \in Fibers |-> 0] /\ cancels = [fd \in Fds |-> [e \in Dirs |-> 0]]
  /\ woken = [f \in Fibers |-> "no"]
  /\ calls = 0 /\ rawCloses = {} /\ strays = {} /\ aborted = FALSE

-----------------------------------------------------------------------------
(* The kernel (external).                                                   *)

\* What a read, write or accept does on socket s when it is called now.
Outcome(s, e) ==
  IF s.gen = 0 THEN "EBADF"
  ELSE IF s.conn \in {"no", "failed"} THEN "error"
  ELSE IF e \in s.cond THEN "ok"
  ELSE IF s.nonblock THEN "EAGAIN" ELSE "blocks"

Live == {fd \in Fds : sock[fd].gen # 0}

\* A new socket gets the lowest free number.
Opens(fd, conn, cond) ==
  /\ opens < MaxOpens /\ fd \notin Live
  /\ \A n \in Fds : n < fd => n \in Live
  /\ opens' = opens + 1
  /\ sock' = [sock EXCEPT ![fd] = [gen |-> opens + 1, nonblock |-> FALSE, conn |-> conn, cond |-> cond]]

\* Data, room or a connection arrives.
Arrives(fd, e) ==
  /\ e \notin sock[fd].cond
  /\ sock[fd].conn = "yes" \/ (sock[fd].conn = "listen" /\ e = "READ")
  /\ sock' = [sock EXCEPT ![fd].cond = @ \cup {e}]
  /\ UNCHANGED <<opens, m_datas, io, pc, call, timing, woken, world>>

\* A connection attempt ends; the socket becomes writable either way.
Completes(fd, conn) ==
  /\ sock[fd].conn = "doing"
  /\ sock' = [sock EXCEPT ![fd].conn = conn, ![fd].cond = {"WRITE"}]
  /\ UNCHANGED <<opens, m_datas, io, pc, call, timing, woken, world>>

-----------------------------------------------------------------------------
(* IOManager, as the calls use it.                                          *)

Events(fd) == {e \in Dirs : waiter[fd][e] # NoFiber}

Trigger_KeepsSlot(fd, S, mover, place, why) ==
  LET W == {waiter[fd][e] : e \in S} IN
  /\ UNCHANGED waiter
  /\ watched' = [watched EXCEPT ![fd] = @ \ S]
  /\ pc' = [f \in Fibers |-> IF f = mover THEN place ELSE IF f \in W THEN "woken" ELSE pc[f]]
  /\ woken' = [f \in Fibers |-> IF f \in W THEN why ELSE woken[f]]

\* The waiters of the events S of fd are handed to the scheduler; mover is the
\* fiber that makes the step, if one does, and moves on to place.
Trigger(fd, S, mover, place, why) ==
  LET W == {waiter[fd][e] : e \in S} IN
  /\ waiter' = [waiter EXCEPT ![fd] = [e \in Dirs |-> IF e \in S THEN NoFiber ELSE @[e]]]
  /\ watched' = [watched EXCEPT ![fd] = @ \ S]
  /\ pc' = [f \in Fibers |-> IF f = mover THEN place ELSE IF f \in W THEN "woken" ELSE pc[f]]
  /\ woken' = [f \in Fibers |-> IF f \in W THEN why ELSE woken[f]]

\* Whether epoll_ctl can modify or delete fd's registration.
Registered(fd) == sock[fd].gen # 0 /\ watched[fd] # {}

\* The waiter of e is triggered, unless there is none or epoll_ctl fails.
TriggerOne(fd, e, why) ==
  IF e \in Events(fd) /\ Registered(fd)
  THEN Trigger(fd, {e}, NoFiber, "idle", why)
  ELSE UNCHANGED <<waiter, watched, pc, woken>>

\* epoll_wait puts a report into the array of a thread.  (Two reports of the same event of
\* a socket in the arrays of two threads count as one.)
Report(fd, e) ==
  /\ Registered(fd) /\ e \in watched[fd] \cap sock[fd].cond
  /\ sock[fd].gen \notin reports[fd][e]
  /\ reports' = [reports EXCEPT ![fd][e] = @ \cup {sock[fd].gen}]
  /\ UNCHANGED <<kernel, m_datas, waiter, watched, pc, call, timing, woken, world>>

\* idle() comes to the report: it triggers the waiter that is registered now, be it one
\* of the socket the report is about or of the number's next.
Deliver(fd, e) ==
  /\ \E g \in reports[fd][e] :
       /\ reports' = [reports EXCEPT ![fd][e] = @ \ {g}]
       /\ TriggerOne(fd, e, IF g = sock[fd].gen THEN "event" ELSE "stale")
  /\ UNCHANGED <<kernel, m_datas, call, timing, world>>

cancelEvent(fd, e, why) == TriggerOne(fd, e, why) /\ UNCHANGED reports

-----------------------------------------------------------------------------
(* FdManager.                                                               *)

\* get(fd, true) for a number just handed out: a context that is already there is
\* kept; a new one makes the socket non-blocking (FdCtx::init).
Register(f) ==
  LET fd == call[f].made IN
  /\ pc[f] = "register"
  /\ IF m_datas[fd] = NoCtx
     THEN /\ m_datas' = [m_datas EXCEPT ![fd] = NewCtx(sock[fd].gen)]
          /\ sock' = [sock EXCEPT ![fd].nonblock = TRUE]
     ELSE UNCHANGED <<m_datas, sock>>
  /\ pc' = [pc EXCEPT ![f] = "idle"]
  /\ call' = [call EXCEPT ![f] = NoCall]
  /\ UNCHANGED <<opens, io, timing, woken, world>>

-----------------------------------------------------------------------------
(* Calls begin and end.                                                     *)

Counted == calls < MaxCalls /\ calls' = calls + 1 /\ UNCHANGED <<rawCloses, strays, aborted>>

Goto(f, place) == pc' = [pc EXCEPT ![f] = place]

Begin(f, c, place) ==
  /\ pc[f] = "idle" /\ Counted
  /\ call' = [call EXCEPT ![f] = c]
  /\ Goto(f, place)

\* tinfo goes away with its owner: callbacks still to run will find it gone.
Returns(f) ==
  /\ Goto(f, "idle")
  /\ call' = [call EXCEPT ![f] = NoCall]
  /\ woken' = [woken EXCEPT ![f] = "no"]
  /\ tinfo' = [tinfo EXCEPT ![f] = FALSE]
  /\ fired' = [fired EXCEPT ![f] = 0]

\* Numbers the program holds.
Known(fd) == sock[fd].gen # 0 /\ \A f \in Fibers : call[f].made # fd

\* Clients make one call at a time for each direction of a socket.
Busy(fd, e) ==
  \E f \in Fibers : /\ pc[f] # "idle" /\ call[f].kind \in IOKinds \cup {"connect"}
                    /\ call[f].fd = fd /\ call[f].gen = sock[fd].gen /\ Dir(call[f].kind) = e

Closing(fd) == \E f \in Fibers : pc[f] \in {"closeDel", "closeSys"} /\ call[f].fd = fd

-----------------------------------------------------------------------------
(* do_io.                                                                   *)

\* Up to the retry label: the call is managed if the number has a context whose
\* user did not ask for non-blocking calls.
do_io(f, kind, fd) ==
  LET ctx == m_datas[fd]
      managed == ctx # NoCtx /\ ~ctx.userNonblock
  IN
  /\ Known(fd) /\ ~Busy(fd, Dir(kind))
  /\ kind = "accept" <=> sock[fd].conn = "listen"
  /\ Begin(f, [kind |-> kind, fd |-> fd, gen |-> sock[fd].gen, made |-> NoFd,
               ctxGen |-> IF managed THEN ctx.gen ELSE 0,
               timed |-> managed /\ ctx.timed[Dir(kind)]],
           IF managed THEN "try" ELSE "raw")
  /\ UNCHANGED <<kernel, m_datas, io, timing, woken>>

Calling(f) == pc[f] \in {"try", "raw"}
CallOutcome(f) == Outcome(sock[call[f].fd], Dir(call[f].kind))

\* The call succeeds or fails for good; it may use up what it found.
CallEnds(f) ==
  LET fd == call[f].fd
      e == Dir(call[f].kind)
  IN
  /\ Calling(f)
  /\ \/ CallOutcome(f) \in {"EBADF", "error"} /\ UNCHANGED sock
     \/ /\ CallOutcome(f) = "ok" /\ call[f].kind # "accept"
        /\ \E left \in {sock[fd].cond, sock[fd].cond \ {e}} : sock' = [sock EXCEPT ![fd].cond = left]
  /\ Returns(f)
  /\ UNCHANGED <<opens, m_datas, io, timer, cancels, world>>

\* accept hands out a number, which is then registered; with none free it fails.
CallAccepts(f) ==
  /\ Calling(f) /\ CallOutcome(f) = "ok" /\ call[f].kind = "accept"
  /\ \/ \E fd \in Fds :
          /\ Opens(fd, "yes", {"WRITE"})
          /\ call' = [call EXCEPT ![f] = [NoCall EXCEPT !.kind = "accept", !.made = fd]]
          /\ Goto(f, "register")
          /\ woken' = [woken EXCEPT ![f] = "no"]
          /\ tinfo' = [tinfo EXCEPT ![f] = FALSE] /\ fired' = [fired EXCEPT ![f] = 0]
     \/ /\ opens = MaxOpens \/ Live = Fds
        /\ Returns(f) /\ UNCHANGED kernel
  /\ UNCHANGED <<m_datas, io, timer, cancels, world>>

\* EAGAIN: passed on by an unmanaged call, the beginning of a wait in a managed one.
CallWouldBlock(f) ==
  /\ Calling(f) /\ CallOutcome(f) = "EAGAIN"
  /\ IF pc[f] = "raw" THEN Returns(f) ELSE Goto(f, "arm") /\ UNCHANGED <<call, woken, tinfo, fired>>
  /\ UNCHANGED <<kernel, m_datas, io, timer, cancels, world>>

\* The descriptor is a blocking one: the thread stays in the kernel.
CallBlocks(f) ==
  /\ Calling(f) /\ CallOutcome(f) = "blocks"
  /\ Goto(f, "blocked")
  /\ UNCHANGED <<kernel, m_datas, io, call, timing, woken, world>>

Unblocks(f) ==
  /\ pc[f] = "blocked" /\ CallOutcome(f) # "blocks"
  /\ IF call[f].kind = "connect"
     THEN sock[call[f].fd].conn # "doing" /\ Returns(f)
     ELSE /\ Goto(f, IF call[f].ctxGen = 0 THEN "raw" ELSE "try")
          /\ UNCHANGED <<call, woken, tinfo, fired>>
  /\ UNCHANGED <<kernel, m_datas, io, timer, cancels, world>>

-----------------------------------------------------------------------------
(* The wait that do_io and connect_with_timeout share.                      *)

\* addTimer: the set drops a timer whose m_next another has, of whatever part of the program.
AddsTimer(f) == \E kept \in BOOLEAN : timer' = [timer EXCEPT ![f] = kept]

\* addConditionTimer, if the call has a timeout.
Arm(f) ==
  /\ pc[f] = "arm"
  /\ IF call[f].timed THEN AddsTimer(f) ELSE UNCHANGED timer
  /\ Goto(f, "add")
  /\ UNCHANGED <<kernel, m_datas, io, call, tinfo, fired, cancels, woken, world>>

addEvent_KeepsTimer(f) ==
  LET fd == call[f].fd
      e == Dir(call[f].kind)
      accepted == sock[fd].gen # 0 /\ (Events(fd) = {} <=> watched[fd] = {})
  IN
  /\ pc[f] = "add"
  /\ \/ /\ e \in Events(fd) /\ aborted' = TRUE
        /\ UNCHANGED <<io, pc, call, woken, tinfo, fired, timer>>
     \/ /\ e \notin Events(fd) /\ accepted
        /\ waiter' = [waiter EXCEPT ![fd][e] = f]
        /\ watched' = [watched EXCEPT ![fd] = Events(fd) \cup {e}]
        /\ Goto(f, "wait")
        /\ UNCHANGED <<reports, call, woken, tinfo, fired, timer, aborted>>
     \/ /\ e \notin Events(fd) /\ ~accepted
        /\ IF call[f].kind = "connect"
           THEN Goto(f, "soerror") /\ UNCHANGED <<call, woken, tinfo, fired>>
           ELSE Returns(f)
        /\ UNCHANGED <<io, aborted, timer>>
  /\ UNCHANGED <<kernel, m_datas, cancels, calls, rawCloses, strays>>

\* addEvent: an assertion, an error of epoll_ctl, or the fiber waits.
addEvent(f) ==
  LET fd == call[f].fd
      e == Dir(call[f].kind)
      accepted == sock[fd].gen # 0 /\ (Events(fd) = {} <=> watched[fd] = {})
  IN
  /\ pc[f] = "add"
  /\ \/ /\ e \in Events(fd) /\ aborted' = TRUE
        /\ UNCHANGED <<io, pc, call, woken, tinfo, fired, timer>>
     \/ /\ e \notin Events(fd) /\ accepted
        /\ waiter' = [waiter EXCEPT ![fd][e] = f]
        /\ watched' = [watched EXCEPT ![fd] = Events(fd) \cup {e}]
        /\ Goto(f, "wait")
        /\ UNCHANGED <<reports, call, woken, tinfo, fired, timer, aborted>>
     \/ /\ e \notin Events(fd) /\ ~accepted
        /\ timer' = [timer EXCEPT ![f] = FALSE]
        /\ IF call[f].kind = "connect"
           THEN Goto(f, "soerror") /\ UNCHANGED <<call, woken, tinfo, fired>>
           ELSE Returns(f)
        /\ UNCHANGED <<io, aborted>>
  /\ UNCHANGED <<kernel, m_datas, cancels, calls, rawCloses, strays>>

Resumes_IgnoresTimeout(f) ==
  /\ pc[f] = "woken"
  /\ timer' = [timer EXCEPT ![f] = FALSE]
  /\ Goto(f, IF call[f].kind = "connect" THEN "soerror" ELSE "try")
  /\ UNCHANGED <<call, woken, tinfo, fired>>
  /\ UNCHANGED <<kernel, m_datas, io, cancels, world>>

\* After the wait: ETIMEDOUT, or another try (do_io), or a look at SO_ERROR (connect).
Resumes(f) ==
  /\ pc[f] = "woken"
  /\ timer' = [timer EXCEPT ![f] = FALSE]
  /\ IF tinfo[f]
     THEN Returns(f)
     ELSE /\ Goto(f, IF call[f].kind = "connect" THEN "soerror" ELSE "try")
          /\ UNCHANGED <<call, woken, tinfo, fired>>
  /\ UNCHANGED <<kernel, m_datas, io, cancels, world>>

\* The time of a timer comes: idle() takes it out of the set and posts its callback.
Expires(f) ==
  /\ timer[f]
  /\ timer' = [timer EXCEPT ![f] = FALSE]
  /\ fired' = [fired EXCEPT ![f] = @ + 1]
  /\ UNCHANGED <<kernel, m_datas, io, pc, call, tinfo, cancels, woken, world>>


\* The callback, up to the call of cancelEvent.
TimerCallback(f) ==
  LET fd == call[f].fd
      e == Dir(call[f].kind)
  IN
  /\ fired[f] > 0 /\ call[f].kind # "sleep"
  /\ fired' = [fired EXCEPT ![f] = @ - 1]
  /\ tinfo' = [tinfo EXCEPT ![f] = TRUE]
  /\ cancels' = IF tinfo[f] THEN cancels ELSE [cancels EXCEPT ![fd][e] = @ + 1]
  /\ UNCHANGED <<kernel, m_datas, io, pc, call, timer, woken, world>>

TimerCancels(fd, e) ==
  /\ cancels[fd][e] > 0
  /\ cancels' = [cancels EXCEPT ![fd][e] = @ - 1]
  /\ cancelEvent(fd, e, IF \E f \in Fibers : waiter[fd][e] = f /\ tinfo[f] THEN "timeout" ELSE "cancel")
  /\ UNCHANGED <<kernel, m_datas, call, tinfo, timer, fired, world>>

-----------------------------------------------------------------------------
(* connect_with_timeout; connect passes no timeout.                         *)

Connect(f, fd, timed) ==
  LET ctx == m_datas[fd]
      attempt == ctx # NoCtx /\ sock[fd].conn = "no"
      Result(conn) == sock' = [sock EXCEPT ![fd].conn = conn]
      c == [kind |-> "connect", fd |-> fd, gen |-> sock[fd].gen, made |-> NoFd,
            ctxGen |-> IF attempt THEN ctx.gen ELSE 0, timed |-> timed]
  IN
  /\ Known(fd) /\ ~Busy(fd, "WRITE") /\ sock[fd].conn # "listen"
  /\ \/ /\ attempt /\ ~ctx.userNonblock
        /\ Result("doing")
        /\ Begin(f, c, IF sock[fd].nonblock THEN "arm" ELSE "blocked")
     \/ /\ attempt
        /\ \E conn \in {"yes", "failed"} \cup IF ctx.userNonblock THEN {"doing"} ELSE {} : Result(conn)
        /\ Begin(f, NoCall, "idle")
     \/ /\ ~attempt                \* EBADF without a context, EALREADY, EISCONN
        /\ Begin(f, NoCall, "idle") /\ UNCHANGED sock
  /\ UNCHANGED <<opens, m_datas, io, timing, woken>>

\* getsockopt(SO_ERROR): 0 is returned unless the socket is closed or has failed.
SoErrorZero(f) == sock[call[f].fd].gen # 0 /\ sock[call[f].fd].conn # "failed"

SoError(f) ==
  /\ pc[f] = "soerror"
  /\ Returns(f)
  /\ UNCHANGED <<kernel, m_datas, io, timer, cancels, world>>

-----------------------------------------------------------------------------
(* sleep, usleep and nanosleep.                                             *)

Sleep(f) ==
  /\ Begin(f, NoCall, "sleep")
  /\ AddsTimer(f)
  /\ UNCHANGED <<kernel, m_datas, io, tinfo, fired, cancels, woken>>

\* The timer's callback posts the fiber.
SleepEnds(f) ==
  /\ pc[f] = "sleep" /\ fired[f] > 0
  /\ Returns(f)
  /\ UNCHANGED <<kernel, m_datas, io, timer, cancels, world>>

-----------------------------------------------------------------------------
(* socket, fcntl(F_SETFL), setsockopt(SO_RCVTIMEO, SO_SNDTIMEO), and        *)
(* Socket::cancelRead and cancelWrite.                                      *)

Socket(f, fd, conn) ==
  /\ Opens(fd, conn, {}) /\ Cardinality(Live) < MaxLive
  /\ Begin(f, [NoCall EXCEPT !.kind = "socket", !.made = fd], "register")
  /\ UNCHANGED <<m_datas, io, timing, woken>>

\* The user's wish is kept in the context that is found, and the descriptor will stay
\* non-blocking; without a context the call is passed through.
Fcntl(f, fd, nonblock) ==
  LET ctx == m_datas[fd] IN
  /\ Known(fd)
  /\ Begin(f, [NoCall EXCEPT !.kind = IF ctx # NoCtx \/ nonblock THEN "fcntl" ELSE "fcntlBlock",
                             !.fd = fd, !.gen = sock[fd].gen, !.ctxGen = ctx.gen], "fcntl")
  /\ m_datas' = IF ctx # NoCtx THEN [m_datas EXCEPT ![fd].userNonblock = nonblock] ELSE m_datas
  /\ UNCHANGED <<kernel, io, timing, woken>>

\* The system call, on the socket the number names by then, if any.
FcntlSys(f) ==
  LET fd == call[f].fd
      gen == sock[fd].gen
  IN
  /\ pc[f] = "fcntl"
  /\ sock' = IF gen # 0 THEN [sock EXCEPT ![fd].nonblock = (call[f].kind = "fcntl")] ELSE sock
  /\ strays' = IF gen \in {0, call[f].gen} THEN strays ELSE strays \cup {gen}
  /\ Goto(f, "idle")
  /\ call' = [call EXCEPT ![f] = NoCall]
  /\ UNCHANGED <<opens, m_datas, io, timing, woken, calls, rawCloses, aborted>>

SetTimeout(f, fd, e) ==
  /\ Known(fd) /\ m_datas[fd] # NoCtx /\ Begin(f, NoCall, "idle")
  /\ m_datas' = [m_datas EXCEPT ![fd].timed[e] = TRUE]
  /\ UNCHANGED <<kernel, io, timing, woken>>

ClientCancels(f, fd, e) ==
  /\ pc[f] = "idle" /\ Counted
  /\ Known(fd) /\ e \in Events(fd)
  /\ cancelEvent(fd, e, "cancel")
  /\ UNCHANGED <<kernel, m_datas, call, timing>>

-----------------------------------------------------------------------------
(* close: the waiters are cancelled, the context is dropped, then the       *)
(* number is given back.                                                    *)

Close(f, fd) ==
  /\ pc[f] = "idle" /\ Counted
  /\ Known(fd) /\ ~Closing(fd)
  /\ call' = [call EXCEPT ![f] = [NoCall EXCEPT !.kind = "close", !.fd = fd, !.gen = sock[fd].gen]]
  /\ IF m_datas[fd] # NoCtx
     THEN /\ Trigger(fd, IF Registered(fd) THEN Events(fd) ELSE {}, f, "closeDel", "cancel")
          /\ UNCHANGED reports
     ELSE Goto(f, "closeSys") /\ UNCHANGED <<io, woken>>
  /\ UNCHANGED <<kernel, m_datas, timing>>

CloseDel_Forgets(f) ==
  /\ pc[f] = "closeDel"
  /\ Goto(f, "closeSys")
  /\ UNCHANGED <<kernel, m_datas, io, call, timing, woken, world>>

CloseDel(f) ==
  /\ pc[f] = "closeDel"
  /\ m_datas' = [m_datas EXCEPT ![call[f].fd] = NoCtx]
  /\ Goto(f, "closeSys")
  /\ UNCHANGED <<kernel, io, call, timing, woken, world>>

\* The kernel forgets the socket, and epoll its registration.
Shut(fd) ==
  /\ sock' = [sock EXCEPT ![fd] = Closed]
  /\ watched' = [watched EXCEPT ![fd] = {}]

CloseSys(f) ==
  /\ pc[f] = "closeSys"
  /\ Shut(call[f].fd)
  /\ Returns(f)
  /\ UNCHANGED <<opens, m_datas, waiter, reports, timer, cancels, world>>

\* close() on a thread where hooking is off.
RawClose(fd) ==
  /\ Known(fd) /\ ~Closing(fd) /\ Cardinality(rawCloses) < MaxRawCloses
  /\ Shut(fd)
  /\ rawCloses' = rawCloses \cup {fd}
  /\ UNCHANGED <<opens, m_datas, waiter, reports, pc, call, timing, woken, calls, strays, aborted>>

-----------------------------------------------------------------------------
Step(f) ==
  \/ CallEnds(f) \/ CallAccepts(f) \/ CallWouldBlock(f) \/ CallBlocks(f) \/ Unblocks(f)
  \/ Arm(f) \/ addEvent(f) \/ Resumes(f) \/ SoError(f)
  \/ Register(f) \/ CloseDel(f) \/ CloseSys(f) \/ SleepEnds(f) \/ FcntlSys(f)

Starts(f) ==
  \/ Sleep(f)
  \/ \E fd \in Fds :
       \/ \E kind \in IOKinds : do_io(f, kind, fd)
       \/ \E timed \in BOOLEAN : Connect(f, fd, timed)
       \/ \E conn \in {"no", "listen"} : Socket(f, fd, conn)
       \/ \E nonblock \in BOOLEAN : Fcntl(f, fd, nonblock)
       \/ \E e \in Dirs : SetTimeout(f, fd, e) \/ ClientCancels(f, fd, e)
       \/ Close(f, fd)

Next ==
  /\ ~aborted
  /\ \/ \E f \in Fibers : Step(f) \/ Starts(f) \/ Expires(f) \/ TimerCallback(f)
     \/ \E fd \in Fds : RawClose(fd) \/ \E conn \in {"yes", "failed"} : Completes(fd, conn)
     \/ \E fd \in Fds, e \in Dirs : Arrives(fd, e) \/ Report(fd, e) \/ Deliver(fd, e) \/ TimerCancels(fd, e)

Spec == Init /\ [][Next]_vars

\* Time passes and idle() collects expired timers; posted callbacks are run to their end.
\* Nothing obliges clients to call, data to come or epoll to report it.
Fairness ==
  /\ \A f \in Fibers : WF_vars(~aborted /\ Expires(f)) /\ WF_vars(~aborted /\ TimerCallback(f))
  /\ \A fd \in Fds, e \in Dirs : WF_vars(~aborted /\ TimerCancels(fd, e))

FairSpec == Spec /\ Fairness

-----------------------------------------------------------------------------
(* Properties.                                                              *)

\* A fiber is registered with IOManager exactly while its call waits, for the event it
\* waits for: no wake-up goes to a fiber that is elsewhere, none is lost to a slot
\* that no longer holds the fiber.
WaitersExact ==
  /\ TypeOK
  /\ \A f \in Fibers, fd \in Fds, e \in Dirs :
       waiter[fd][e] = f <=> pc[f] = "wait" /\ call[f].fd = fd /\ Dir(call[f].kind) = e

\* A timer is in the set only while the call that made it may still need it: on every
\* way out of do_io and connect_with_timeout the timer has been cancelled or has
\* expired.  (A timer left behind would keep IOManager::stopping() false.)
TimerOwned == \A f \in Fibers : timer[f] => pc[f] \in {"add", "wait", "woken", "sleep"}

\* close() is between the context and the number.
BeingShut(fd) == \E f \in Fibers : pc[f] = "closeSys" /\ call[f].fd = fd

\* Every socket in the program's hands has the FdCtx made for it, unless it is being
\* closed or its number was once closed behind FdManager's back.  And so there are three
\* ways only for a managed call to block its thread in the kernel: the number has been
\* closed and handed out again; close() is about to close it, and with the context gone an
\* fcntl() by a third fiber reached the descriptor; or the flags of the socket were set by an
\* fcntl() that had looked for a context when the number still named a former socket.
CtxFresh ==
  /\ \A fd \in Fds \ rawCloses :
       Known(fd) /\ ~BeingShut(fd) => m_datas[fd] # NoCtx /\ m_datas[fd].gen = sock[fd].gen
  /\ \A f \in Fibers :
       pc[f] = "blocked" /\ call[f].ctxGen # 0
         => \/ sock[call[f].fd].gen # call[f].ctxGen \/ BeingShut(call[f].fd)
            \/ sock[call[f].fd].gen \in strays

\* connect returns 0 on a socket that is not connected only in three cases: its wait was
\* cancelled by others, it could not wait because addEvent failed, or it was woken by a
\* report about a former socket of the number (SO_ERROR is 0 while the attempt is under
\* way).  The event of its own socket and the timeout do not mislead it.
ConnectHonest ==
  [][\A f \in Fibers :
       SoError(f) /\ SoErrorZero(f) /\ woken[f] \in {"event", "timeout"} =>
         sock[call[f].fd].conn = "yes" \/ sock[call[f].fd].gen # call[f].gen]_vars


\* hook.cpp:132: a timeout that has fired cancels the operation: a fiber that waits
\* after its timer's callback has run is about to be woken by it.
TimeoutCancels ==
  \A f \in Fibers :
    pc[f] = "wait" /\ tinfo[f] /\ call[f].kind \in IOKinds /\ sock[call[f].fd].gen = call[f].gen
      => cancels[call[f].fd][Dir(call[f].kind)] > 0
=============================================================================
