------------------------------ MODULE TcpServer ------------------------------
(***************************************************************************)
(* TcpServer (tcp_server.cpp) with the Socket objects it owns (socket.cpp) *)
(* and what their calls do to the tables of FdManager and IOManager:       *)
(* bind(), start(), stop(), the accept loops, the task that stop() posts,  *)
(* the handlers of accepted connections, and peers that connect.           *)
(*                                                                         *)
(* One owner calls bind, start and stop, one call after the other, as a    *)
(* task of the manager that is also the accept worker (the default of the  *)
(* constructor).  Every posted task is run, as if on a thread of its own:  *)
(* that it is, and by how many threads, is the matter of Scheduler.tla and *)
(* IOManager.tla.  A step is one access to what the tasks share: a system  *)
(* call, a critical section of the table of contexts or of a context, a    *)
(* look at m_isStop.                                                       *)
(*                                                                         *)
(* Listening sockets and accepted connections share the numbers; a peer's  *)
(* own descriptor is in another process.  Where the code's behaviour is    *)
(* undefined (an index beyond the table, two tasks in m_socks) or an       *)
(* assertion fails, the model stops; `aborted' says why and `abortedAt' at *)
(* which number.                                                           *)
(*                                                                         *)
(* A definition X_Y just before X is X with a plausible bug Y; it is used  *)
(* only to confirm that the properties notice the bug.                     *)
(***************************************************************************)
EXTENDS Integers, FiniteSets, FiniteSetsExt

CONSTANTS
  Numbers,       \* descriptor numbers
  InitialSizes,  \* sizes of the table of contexts to begin with (32 in the code)
  MaxSocks,      \* bound: Socket objects that bind() creates and keeps
  MaxLoops,      \* bound: accept loops
  MaxStops,      \* bound: calls of stop()
  MaxConns,      \* bound: peers
  MaxErrors,     \* bound: calls of accept() that fail for want of resources
  Rushed         \* bound: the calls that the owner may make before a stop() has taken effect

ASSUME TcpServerAssumption ==
  /\ Numbers \subseteq Nat \ {0, 1} /\ IsFiniteSet(Numbers) /\ InitialSizes \subseteq Nat \ {0, 1}
  /\ MaxSocks \in Nat /\ MaxLoops \in Nat /\ MaxStops \in Nat /\ MaxConns \in Nat /\ MaxErrors \in Nat
  /\ Rushed \subseteq {"bind", "start", "stop"}

Socks == 1..MaxSocks
Loops == 1..MaxLoops
StopTasks == (MaxLoops + 1)..(MaxLoops + MaxStops)
Conns == 1..MaxConns
HandlerOf(c) == MaxLoops + MaxStops + c     \* the task that handles the connection of peer c
Handlers == {HandlerOf(c) : c \in Conns}
Fibers == Loops \cup Handlers               \* the tasks that wait for events
Tasks == Fibers \cup StopTasks
Closed == -1                     \* m_sock of a Socket without a descriptor
Nobody == 0

VARIABLES
  m_isStop, m_socks,
  m_sock,      \* m_sock[s], for the listening sockets in order of creation
  fails,       \* the caller's vector of failed addresses is not empty
  owner,       \* what the owner is doing: "idle", "bind", "start", or "gone"
  todo,        \* bind: addresses left
  unposted,    \* start: sockets whose loop has not been posted
  made, posts, stops,            \* sockets, loops and stop tasks so far
  pc,          \* where a task is
  target,      \* target[l]: the socket of accept loop l
  fd,          \* fd[f]: the number that accept() of loop f works on, or the connection of handler f
  ptr,         \* ptr[f]: which context of that number addEvent has found
  left, cur,   \* of a stop task: sockets left, socket in hand
  open,        \* numbers in use
  m_datas,     \* numbers that have an FdCtx
  size,        \* m_fdContexts.size()
  gen,         \* gen[n]: contexts that contextResize has created for number n
  watch,       \* watch[n]: the fiber whose registration epoll holds, or Nobody
  conn,        \* conn[c]: where the connection of peer c is
  at,          \* at[c]: the listening number it has connected to
  errors, aborted, abortedAt,
  hasty,       \* the owner made a call before its last stop() had taken effect
  late,        \* loops that registered after close() had cancelled the events of the number
  forgotten,   \* sockets that bind() removed from m_socks while a loop used them
  reused,      \* numbers that accept() was given while a loop still worked on them
  waited,      \* numbers that addEvent was called for
  shrunk       \* contextResize has made the table smaller

server == <<m_isStop, m_socks, fails, owner, todo, unposted, made, posts, stops>>
tasks == <<pc, target, fd, ptr, left, cur>>
table == <<size, gen, waited, shrunk>>
files == <<m_sock, open, m_datas, watch>>
clients == <<conn, at>>
history == <<hasty, late, forgotten, reused>>
verdict == <<aborted, abortedAt>>
vars == <<server, tasks, table, files, clients, errors, verdict, history>>

LoopPcs == {"none", "check", "plain", "try", "add", "grow", "register", "waiting", "ended"}
StopPcs == {"none", "begin", "next", "close", "del", "sys", "ended"}
HandlerPcs == {"none", "run", "add", "grow", "register", "waiting", "close", "del", "sys", "ended"}

ServerOK ==
  /\ m_isStop \in BOOLEAN /\ m_socks \in SUBSET Socks /\ fails \in BOOLEAN
  /\ owner \in {"idle", "bind", "start", "gone"} /\ todo \in 0..MaxSocks /\ unposted \in SUBSET Socks
  /\ made \in 0..MaxSocks /\ posts \in 0..MaxLoops /\ stops \in 0..MaxStops
TasksOK ==
  /\ pc \in [Tasks -> LoopPcs \cup StopPcs \cup HandlerPcs]
  /\ \A l \in Loops : pc[l] \in LoopPcs
  /\ \A k \in StopTasks : pc[k] \in StopPcs
  /\ \A h \in Handlers : pc[h] \in HandlerPcs
  /\ target \in [Loops -> Socks \cup {Nobody}] /\ fd \in [Fibers -> Numbers \cup {Closed}] /\ ptr \in [Fibers -> Nat]
  /\ left \in [StopTasks -> SUBSET Socks] /\ cur \in [StopTasks -> Socks \cup {Nobody}]
TableOK == size \in Nat /\ gen \in [Numbers -> Nat] /\ waited \in SUBSET Numbers /\ shrunk \in BOOLEAN
FilesOK ==
  /\ m_sock \in [Socks -> Numbers \cup {Closed}] /\ open \in SUBSET Numbers /\ m_datas \in SUBSET Numbers
  /\ watch \in [Numbers -> Fibers \cup {Nobody}]
ClientsOK ==
  /\ conn \in [Conns -> {"none", "backlog", "accepted", "closed"}]
  /\ at \in [Conns -> Numbers \cup {Nobody}]
OthersOK ==
  /\ errors \in Nat /\ aborted \in {"no", "index", "assert", "race"}
  /\ abortedAt \in Numbers \cup {Closed}
  /\ hasty \in BOOLEAN /\ late \in SUBSET Loops /\ forgotten \in SUBSET Socks /\ reused \in SUBSET Numbers
TypeOK == ServerOK /\ TasksOK /\ TableOK /\ FilesOK /\ ClientsOK /\ OthersOK

Init ==
  /\ m_isStop = TRUE /\ m_socks = {} /\ fails = FALSE
  /\ owner = "idle" /\ todo = 0 /\ unposted = {} /\ made = 0 /\ posts = 0 /\ stops = 0
  /\ pc = [t \in Tasks |-> "none"]
  /\ target = [l \in Loops |-> Nobody] /\ fd = [f \in Fibers |-> Closed] /\ ptr = [f \in Fibers |-> 0]
  /\ left = [k \in StopTasks |-> {}] /\ cur = [k \in StopTasks |-> Nobody]
  /\ m_sock = [s \in Socks |-> Closed] /\ open = {} /\ m_datas = {} /\ watch = [n \in Numbers |-> Nobody]
  /\ size \in InitialSizes /\ gen = [n \in Numbers |-> IF n < size THEN 1 ELSE 0]
  /\ waited = {} /\ shrunk = FALSE
  /\ conn = [c \in Conns |-> "none"] /\ at = [c \in Conns |-> Nobody]
  /\ errors = 0 /\ aborted = "no" /\ abortedAt = Closed
  /\ hasty = FALSE /\ late = {} /\ forgotten = {} /\ reused = {}

-----------------------------------------------------------------------------
(* Pieces the calls share.                                                  *)

Alive(t) == pc[t] \notin {"none", "ended"}
Held(s) == \E l \in Loops : Alive(l) /\ target[l] = s

\* The last stop() has not taken effect: its task is under way, or a loop.
Unsettled == (\E k \in StopTasks : Alive(k)) \/ (m_isStop /\ \E l \in Loops : Alive(l))

Abort(why, n) ==
  /\ aborted' = why /\ abortedAt' = n
  /\ UNCHANGED <<server, tasks, table, files, clients, errors, history>>

\* What the kernel does when a descriptor is closed: epoll forgets it, connections
\* nobody has accepted there are reset.
Shut(N) ==
  /\ open' = open \ N
  /\ watch' = [n \in Numbers |-> IF n \in N THEN Nobody ELSE watch[n]]
  /\ conn' = [c \in Conns |-> IF conn[c] = "backlog" /\ at[c] \in N THEN "closed" ELSE conn[c]]

\* ~Socket for the sockets S, which no one else holds: close() of each.  No loop
\* waits on them, so its cancelAll only looks the contexts up.
Destroyed(S) == {m_sock[s] : s \in S} \ {Closed}
Destroy(S) ==
  /\ Shut(Destroyed(S))
  /\ m_datas' = m_datas \ Destroyed(S)
  /\ m_sock' = [s \in Socks |-> IF s \in S THEN Closed ELSE m_sock[s]]
InTable(N) == \A n \in N : n < size

Waiters(n) == {f \in Fibers : pc[f] = "waiting" /\ fd[f] = n}
ContextOf(f) == <<fd[f], ptr[f]>>
TableContext(n) == <<n, gen[n]>>
Found(n) == {f \in Waiters(n) : ContextOf(f) = TableContext(n)}

\* cancelAll of number n, which is in the table: the waiter is triggered if
\* epoll_ctl can remove the registration.
Cancelled(n) == IF watch[n] # Nobody THEN Found(n) ELSE {}

\* A stop task is in the middle of m_socks.
StopInside == \E k \in StopTasks : Alive(k) /\ pc[k] # "begin"

\* The owner makes a call.
Calls(call) ==
  /\ owner = "idle" /\ (Unsettled => call \in Rushed)
  /\ hasty' = (hasty \/ Unsettled)

-----------------------------------------------------------------------------
(* The owner.                                                               *)

\* bind() of some addresses, with the vector of the last call or a new one.
Bind(addrs, fresh) ==
  /\ Calls("bind") /\ made + addrs <= MaxSocks
  /\ owner' = "bind" /\ todo' = addrs
  /\ fails' = (fails /\ ~fresh)
  /\ UNCHANGED <<m_isStop, m_socks, unposted, made, posts, stops, tasks, table, files,
                 clients, errors, verdict, late, forgotten, reused>>

\* The kernel hands out the lowest number.
NextNumber == Min(Numbers \ open)

\* One address: a socket that is bound, listens and goes into m_socks ...
BindSucceeds ==
  /\ owner = "bind" /\ todo > 0 /\ Numbers \ open # {}
  /\ ~StopInside
  /\ made' = made + 1 /\ todo' = todo - 1
  /\ m_socks' = m_socks \cup {made + 1}
  /\ m_sock' = [m_sock EXCEPT ![made + 1] = NextNumber]
  /\ open' = open \cup {NextNumber} /\ m_datas' = m_datas \cup {NextNumber}
  /\ UNCHANGED <<m_isStop, fails, owner, unposted, posts, stops, tasks, table,
                 watch, clients, errors, verdict, history>>

\* ... or one that fails and is destroyed, before or after it has got a number.
BindFails ==
  /\ owner = "bind" /\ todo > 0
  /\ fails' = TRUE /\ todo' = todo - 1
  /\ UNCHANGED <<m_isStop, m_socks, owner, unposted, made, posts, stops, tasks, table,
                 files, clients, errors, verdict, history>>

BindEnds_Leaks ==
  /\ owner = "bind" /\ todo = 0
  /\ owner' = "idle"
  /\ m_socks' = (IF fails THEN {} ELSE m_socks)
  /\ UNCHANGED <<m_isStop, fails, todo, unposted, made, posts, stops, tasks, table, files,
                 clients, errors, verdict, history>>

\* If any address has failed, now or in an earlier call with this vector, all
\* sockets are dropped; those no loop holds are destroyed.
Dropped == IF fails THEN {s \in m_socks : ~Held(s)} ELSE {}

BindEnds ==
  /\ owner = "bind" /\ todo = 0
  /\ ~(fails /\ StopInside) /\ InTable(Destroyed(Dropped))
  /\ owner' = "idle"
  /\ m_socks' = (IF fails THEN {} ELSE m_socks)
  /\ Destroy(Dropped)
  /\ forgotten' = (IF fails THEN forgotten \cup (m_socks \ Dropped) ELSE forgotten)
  /\ UNCHANGED <<m_isStop, fails, todo, unposted, made, posts, stops, tasks, table,
                 at, errors, verdict, hasty, late, reused>>

\* start(), unless the server runs already: one accept loop per socket.
Start ==
  /\ Calls("start") /\ m_isStop /\ posts + Cardinality(m_socks) <= MaxLoops
  /\ m_isStop' = FALSE
  /\ owner' = "start" /\ unposted' = m_socks
  /\ UNCHANGED <<m_socks, fails, todo, made, posts, stops, tasks, table, files,
                 clients, errors, verdict, late, forgotten, reused>>

StartPosts ==
  LET l == posts + 1
      s == Min(unposted)
  IN
  /\ owner = "start" /\ unposted # {}
  /\ unposted' = unposted \ {s} /\ posts' = l
  /\ target' = [target EXCEPT ![l] = s] /\ pc' = [pc EXCEPT ![l] = "check"]
  /\ UNCHANGED <<m_isStop, m_socks, fails, owner, todo, made, stops, fd, ptr, left, cur, table, files,
                 clients, errors, verdict, history>>

StartEnds ==
  /\ owner = "start" /\ unposted = {}
  /\ owner' = "idle"
  /\ UNCHANGED <<m_isStop, m_socks, fails, todo, unposted, made, posts, stops, tasks, table, files,
                 clients, errors, verdict, history>>

\* stop(): the flag, and a task that closes the sockets.
Stop ==
  LET k == MaxLoops + stops + 1 IN
  /\ Calls("stop") /\ stops < MaxStops
  /\ m_isStop' = TRUE
  /\ stops' = stops + 1
  /\ pc' = [pc EXCEPT ![k] = "begin"]
  /\ UNCHANGED <<m_socks, fails, owner, todo, unposted, made, posts, target, fd, ptr, left, cur, table,
                 files, clients, errors, verdict, late, forgotten, reused>>

\* ~TcpServer, once the owner lets go of it and no loop, handler or stop task holds it.
Released == owner = "idle" /\ \A t \in Tasks : ~Alive(t)

Destruct ==
  /\ Released /\ InTable(Destroyed(m_socks))
  /\ owner' = "gone" /\ m_socks' = {}
  /\ Destroy(m_socks)
  /\ UNCHANGED <<m_isStop, fails, todo, unposted, made, posts, stops, tasks, table,
                 at, errors, verdict, history>>

-----------------------------------------------------------------------------
(* The accept worker.                                                       *)

Goes(t, place) == pc' = [pc EXCEPT ![t] = place]
At(t, place) == pc[t] = place

\* startAccept: the loop goes on and calls accept() of the hook with the socket's
\* number; one without an FdCtx goes straight to the kernel ...
Check(l) ==
  LET n == m_sock[target[l]] IN
  /\ At(l, "check") /\ ~m_isStop
  /\ fd' = [fd EXCEPT ![l] = n]
  /\ Goes(l, IF n \in m_datas THEN "try" ELSE "plain")
  /\ UNCHANGED <<server, target, ptr, left, cur, table, files, clients, errors, verdict, history>>

\* ... or it ends, and with it perhaps the last reference to the socket.
LastHeld(l) == {target[l]} \ (m_socks \cup {target[o] : o \in {o \in Loops \ {l} : Alive(o)}})

LoopEnds(l) ==
  /\ At(l, "check") /\ m_isStop
  /\ InTable(Destroyed(LastHeld(l)))
  /\ Destroy(LastHeld(l))
  /\ Goes(l, "ended")
  /\ UNCHANGED <<server, target, fd, ptr, left, cur, table, at,
                 errors, verdict, history>>

Listens(n) == n \in open /\ \E s \in Socks : m_sock[s] = n
Backlog(n) == {c \in Conns : conn[c] = "backlog" /\ at[c] = n}

\* A loop that has read the number and not come back from accept().
Using(n) == {l \in Loops : Alive(l) /\ pc[l] # "check" /\ fd[l] = n}

\* A connection: the kernel gives it a number, accept() of the hook an FdCtx, and
\* its Socket goes to a handler.
Accepts(l) ==
  /\ At(l, "plain") \/ At(l, "try")
  /\ Listens(fd[l]) /\ Backlog(fd[l]) # {} /\ Numbers \ open # {}
  /\ LET c == Min(Backlog(fd[l])) IN
     /\ conn' = [conn EXCEPT ![c] = "accepted"]
     /\ fd' = [fd EXCEPT ![HandlerOf(c)] = NextNumber]
     /\ pc' = [pc EXCEPT ![l] = "check", ![HandlerOf(c)] = "run"]
  /\ open' = open \cup {NextNumber} /\ m_datas' = m_datas \cup {NextNumber}
  /\ reused' = (IF Using(NextNumber) # {} THEN reused \cup {NextNumber} ELSE reused)
  /\ UNCHANGED <<server, target, ptr, left, cur, table, m_sock, watch, at,
                 errors, verdict, hasty, late, forgotten>>

AcceptFails_Ends(l) ==
  /\ At(l, "plain") \/ At(l, "try")
  /\ Listens(fd[l]) => errors < MaxErrors
  /\ errors' = (IF Listens(fd[l]) THEN errors + 1 ELSE errors)
  /\ Goes(l, "ended")
  /\ UNCHANGED <<server, target, fd, ptr, left, cur, table, files, clients, verdict, history>>

\* accept() fails: the number is closed or a connection's, nobody is there (and no
\* FdCtx to wait with), no number is left, or the kernel is short of something else.
AcceptFails(l) ==
  /\ \/ (At(l, "plain") \/ At(l, "try")) /\ ~Listens(fd[l]) /\ UNCHANGED errors
     \/ At(l, "plain") /\ Listens(fd[l]) /\ Backlog(fd[l]) = {} /\ UNCHANGED errors
     \/ (At(l, "plain") \/ At(l, "try")) /\ Numbers \ open = {} /\ UNCHANGED errors
     \/ (At(l, "plain") \/ At(l, "try")) /\ Listens(fd[l]) /\ errors < MaxErrors /\ errors' = errors + 1
  /\ Goes(l, "check")
  /\ UNCHANGED <<server, target, fd, ptr, left, cur, table, files, clients, verdict, history>>

WouldBlock(l) ==
  /\ At(l, "try") /\ Listens(fd[l]) /\ Backlog(fd[l]) = {}
  /\ Goes(l, "add")
  /\ UNCHANGED <<server, target, fd, ptr, left, cur, table, files, clients, errors, verdict, history>>

-----------------------------------------------------------------------------
(* Waiting for a number to become readable, in accept() of a loop or in recv() *)
(* of a handler.                                                            *)

\* Where a fiber goes on when it is woken, and when it cannot wait: a loop calls
\* accept() again, a handler reads again or gives its connection up.
Retries(f) == IF f \in Loops THEN "try" ELSE "run"
GivesUp(f) == IF f \in Loops THEN "check" ELSE "close"

\* addEvent looks the context up under the shared lock ...
LookUp(f) ==
  /\ At(f, "add")
  /\ IF fd[f] < size
     THEN Goes(f, "register") /\ ptr' = [ptr EXCEPT ![f] = gen[fd[f]]] /\ waited' = waited \cup {fd[f]}
     ELSE Goes(f, "grow") /\ UNCHANGED <<ptr, waited>>
  /\ UNCHANGED <<server, target, fd, left, cur, size, gen, shrunk, files, clients, errors, verdict,
                 history>>

contextResize_Tight(new) ==
  /\ size' = new - 1
  /\ gen' = [n \in Numbers |-> IF size <= n /\ n < new THEN gen[n] + 1 ELSE gen[n]]
  /\ shrunk' = (shrunk \/ new < size)

\* contextResize: new contexts above the old size; a smaller size drops some.
contextResize(new) ==
  /\ size' = new
  /\ gen' = [n \in Numbers |-> IF size <= n /\ n < new THEN gen[n] + 1 ELSE gen[n]]
  /\ shrunk' = (shrunk \/ new < size)

\* ... and if the table was too small resizes it under the exclusive lock,
\* without a second look at its size.
Grow(f) ==
  LET new == (3 * fd[f]) \div 2 IN
  /\ At(f, "grow")
  /\ contextResize(new)
  /\ ptr' = [ptr EXCEPT ![f] = gen'[fd[f]]] /\ waited' = waited \cup {fd[f]}
  /\ Goes(f, "register")
  /\ UNCHANGED <<server, target, fd, left, cur, files, clients, errors, verdict, history>>

\* The number that a stop task or a handler is closing.
Number(k) == IF k \in StopTasks THEN m_sock[cur[k]] ELSE fd[k]

\* Between the cancelAll of close() and the closing of the number.
Closing(n) == \E k \in StopTasks \cup Handlers : pc[k] \in {"del", "sys"} /\ Number(k) = n

\* Its assertion: nobody waits for the event in this context.
Occupied(f) == \E o \in Waiters(fd[f]) : ContextOf(o) = ContextOf(f)

\* addEvent registers the fiber, which yields, on whatever socket has the number ...
Register(f) ==
  LET n == fd[f] IN
  /\ At(f, "register") /\ ~Occupied(f)
  /\ n \in open /\ watch[n] = Nobody
  /\ watch' = [watch EXCEPT ![n] = f]
  /\ Goes(f, "waiting")
  /\ late' = (IF f \in Loops /\ Closing(n) THEN late \cup {f} ELSE late \ {f})
  /\ UNCHANGED <<server, target, fd, ptr, left, cur, table, m_sock, open, m_datas, clients,
                 errors, verdict, hasty, forgotten, reused>>

\* ... or fails, and accept() or recv() with it.
RegisterFails(f) ==
  /\ At(f, "register") /\ ~Occupied(f)
  /\ fd[f] \notin open \/ watch[fd[f]] # Nobody
  /\ Goes(f, GivesUp(f))
  /\ UNCHANGED <<server, target, fd, ptr, left, cur, table, files, clients, errors, verdict, history>>

\* epoll reports a connection, or data of one; the pointer it holds leads to the context.
Report(f) ==
  /\ pc[f] = "waiting" /\ watch[fd[f]] = f /\ (Listens(fd[f]) => Backlog(fd[f]) # {})
  /\ Goes(f, Retries(f))
  /\ watch' = [watch EXCEPT ![fd[f]] = Nobody]
  /\ UNCHANGED <<server, target, fd, ptr, left, cur, table, m_sock, open, m_datas, clients,
                 errors, verdict, history>>

-----------------------------------------------------------------------------
(* The task that stop() posts.                                              *)

StopBegins(k) ==
  /\ At(k, "begin") /\ ~StopInside
  /\ left' = [left EXCEPT ![k] = m_socks]
  /\ Goes(k, "next")
  /\ UNCHANGED <<server, target, fd, ptr, cur, table, files, clients, errors, verdict, history>>

\* cancelAll(n) within task k, which goes on at `place'.
CancelAll(k, n, place) ==
  /\ pc' = [t \in Tasks |-> IF t \in Cancelled(n) THEN Retries(t) ELSE IF t = k THEN place ELSE pc[t]]
  /\ watch' = [watch EXCEPT ![n] = IF Cancelled(n) # {} THEN Nobody ELSE @]
  /\ UNCHANGED <<server, target, fd, ptr, left, table, m_sock, open, m_datas, clients, errors,
                 verdict, history>>

\* Socket::cancelAll of the next socket ...
StopCancels(k) ==
  /\ At(k, "next") /\ left[k] # {} /\ InTable({m_sock[Min(left[k])]})
  /\ cur' = [cur EXCEPT ![k] = Min(left[k])]
  /\ CancelAll(k, m_sock[Min(left[k])], "close")

CloseCancels_No(k) ==
  /\ At(k, "close") /\ InTable({Number(k)})
  /\ Goes(k, "del")
  /\ UNCHANGED <<server, target, fd, ptr, left, cur, table, files, clients, errors, verdict, history>>

\* ... then Socket::close, which a handler's last reference calls as well: close() of
\* the hook cancels (again), deletes the FdCtx and closes the number.
CloseCancels(k) ==
  /\ At(k, "close") /\ InTable({Number(k)})
  /\ CancelAll(k, Number(k), "del")
  /\ UNCHANGED cur

CloseDels(k) ==
  /\ At(k, "del")
  /\ m_datas' = m_datas \ {Number(k)}
  /\ Goes(k, "sys")
  /\ UNCHANGED <<server, target, fd, ptr, left, cur, table, m_sock, open, watch, clients, errors,
                 verdict, history>>

\* The stop task clears m_sock and goes on to the next socket.
CloseSys(k) ==
  LET n == m_sock[cur[k]] IN
  /\ At(k, "sys")
  /\ Shut({n})
  /\ m_sock' = [m_sock EXCEPT ![cur[k]] = Closed]
  /\ left' = [left EXCEPT ![k] = @ \ {cur[k]}] /\ cur' = [cur EXCEPT ![k] = Nobody]
  /\ Goes(k, "next")
  /\ UNCHANGED <<server, target, fd, ptr, table, m_datas, at, errors, verdict, history>>

\* m_socks.clear(): the sockets are closed already.
StopClears(k) ==
  /\ At(k, "next") /\ left[k] = {} /\ owner # "start"
  /\ m_socks' = {}
  /\ Goes(k, "ended")
  /\ UNCHANGED <<m_isStop, fails, owner, todo, unposted, made, posts, stops, target, fd, ptr, left, cur,
                 table, files, clients, errors, verdict, history>>

-----------------------------------------------------------------------------
(* Peers and handlers.                                                      *)

\* Socket::connect of a peer.
PeerConnects(c) ==
  /\ conn[c] = "none" /\ \A b \in Conns : b < c => conn[b] # "none"
  /\ \/ \E n \in open : Listens(n) /\ conn' = [conn EXCEPT ![c] = "backlog"] /\ at' = [at EXCEPT ![c] = n]
     \/ conn' = [conn EXCEPT ![c] = "closed"] /\ UNCHANGED at
  /\ UNCHANGED <<server, tasks, table, files, errors, verdict, history>>

\* handleClient of the test's server: recv() finds nothing and waits ...
Recv(h) ==
  /\ At(h, "run")
  /\ Goes(h, "add")
  /\ UNCHANGED <<server, target, fd, ptr, left, cur, table, files, clients, errors, verdict, history>>

\* ... or returns 0 or an error, or it is handleClient of the class itself, which
\* only logs: the last reference to the Socket goes.
Returns(h) ==
  /\ At(h, "run")
  /\ Goes(h, "close")
  /\ UNCHANGED <<server, target, fd, ptr, left, cur, table, files, clients, errors, verdict, history>>

\* The receive timeout that startAccept has set: cancelEvent.
TimesOut(h) ==
  /\ At(h, "waiting") /\ InTable({fd[h]})
  /\ CancelAll(h, fd[h], "waiting")
  /\ UNCHANGED cur

HandlerSys(h) ==
  /\ At(h, "sys")
  /\ open' = open \ {fd[h]}
  /\ watch' = [watch EXCEPT ![fd[h]] = Nobody]
  /\ conn' = [c \in Conns |-> IF HandlerOf(c) = h THEN "closed" ELSE conn[c]]
  /\ Goes(h, "ended")
  /\ UNCHANGED <<server, target, fd, ptr, left, cur, table, m_sock, m_datas, at, errors, verdict, history>>

-----------------------------------------------------------------------------
(* Where the behaviour of the program is not defined, or it aborts.         *)

\* cancelAll and cancelEvent ask whether the table is empty and not whether it holds
\* the number.
Beyond(N) == \E n \in N : n >= size /\ Abort("index", n)

StopCancelsBeyond(k) == At(k, "next") /\ left[k] # {} /\ Beyond({m_sock[Min(left[k])]})
CloseBeyond(k) == At(k, "close") /\ Beyond({Number(k)})
TimesOutBeyond(h) == At(h, "waiting") /\ Beyond({fd[h]})
LoopEndsBeyond(l) == At(l, "check") /\ m_isStop /\ Beyond(Destroyed(LastHeld(l)))
BindBeyond ==
  /\ owner = "bind"
  /\ \/ todo > 0 /\ Numbers \ open # {} /\ Beyond({NextNumber})
     \/ todo = 0 /\ Beyond(Destroyed(Dropped))
DestructBeyond == Released /\ Beyond(Destroyed(m_socks))

\* Two tasks are in m_socks and one of them changes it or the sockets.
StopRaces(k) ==
  /\ \/ At(k, "begin") /\ StopInside
     \/ At(k, "next") /\ left[k] = {} /\ owner = "start"
  /\ Abort("race", Closed)
BindRaces == owner = "bind" /\ (todo > 0 \/ fails) /\ StopInside /\ Abort("race", Closed)

\* DAG_ASSERT in addEvent.
AssertFails(f) == At(f, "register") /\ Occupied(f) /\ Abort("assert", fd[f])

-----------------------------------------------------------------------------
OwnerCalls == Start \/ Stop \/ Destruct \/ DestructBeyond \/ \E addrs \in 1..MaxSocks, fresh \in BOOLEAN : Bind(addrs, fresh)
OwnerProceeds == BindSucceeds \/ BindFails \/ BindEnds \/ BindBeyond \/ BindRaces \/ StartPosts \/ StartEnds

Waits(f) == LookUp(f) \/ Grow(f) \/ Register(f) \/ RegisterFails(f) \/ AssertFails(f)
Closes(k) == CloseCancels(k) \/ CloseBeyond(k) \/ CloseDels(k)

LoopStep(l) ==
  Check(l) \/ LoopEnds(l) \/ LoopEndsBeyond(l) \/ Accepts(l) \/ AcceptFails(l) \/ WouldBlock(l) \/ Waits(l)
HandlerStep(h) == Recv(h) \/ Returns(h) \/ Waits(h) \/ Closes(h) \/ HandlerSys(h)
StopStep(k) ==
  \/ StopBegins(k) \/ StopCancels(k) \/ StopCancelsBeyond(k) \/ Closes(k) \/ CloseSys(k) \/ StopClears(k)
  \/ StopRaces(k)

Next ==
  /\ aborted = "no"
  /\ \/ OwnerCalls \/ OwnerProceeds
     \/ \E l \in Loops : LoopStep(l)
     \/ \E h \in Handlers : HandlerStep(h) \/ TimesOut(h) \/ TimesOutBeyond(h)
     \/ \E f \in Fibers : Report(f)
     \/ \E k \in StopTasks : StopStep(k)
     \/ \E c \in Conns : PeerConnects(c)

Spec == Init /\ [][Next]_vars

\* The manager runs the tasks posted to it and delivers what epoll reports (the
\* liveness of Scheduler.tla and IOManager.tla).
\* The owner finishes a call it has begun.  Peers owe neither a call nor data, and
\* receive timeouts are not relied on.
Fairness ==
  /\ WF_vars(aborted = "no" /\ OwnerProceeds)
  /\ \A l \in Loops : WF_vars(aborted = "no" /\ (LoopStep(l) \/ (Listens(fd[l]) /\ Report(l))))
  /\ \A h \in Handlers : WF_vars(aborted = "no" /\ HandlerStep(h))
  /\ \A k \in StopTasks : WF_vars(aborted = "no" /\ StopStep(k))

FairSpec == Spec /\ Fairness

-----------------------------------------------------------------------------
(* Properties.                                                              *)

Quiet == aborted # "no" \/ hasty

\* A number in use belongs to exactly one Socket object that somebody still holds,
\* a listening one or that of a connection whose handler has not returned: whichever
\* way a bind fails, a loop ends or stop() comes between, no descriptor leaks and none
\* is closed under another owner, although numbers are used again at once.
NumbersOwned ==
  /\ TypeOK
  /\ \A n \in open :
       \/ \E s \in Socks : m_sock[s] = n /\ (s \in m_socks \/ Held(s))
       \/ \E h \in Handlers : Alive(h) /\ fd[h] = n
  /\ \A s, r \in Socks : m_sock[s] = m_sock[r] /\ m_sock[s] # Closed => s = r
  /\ \A h, g \in Handlers : Alive(h) /\ Alive(g) /\ fd[h] = fd[g] => h = g
  /\ \A s \in Socks, h \in Handlers : Alive(h) => m_sock[s] # fd[h]

\* An owner that lets a stop() take effect before its next call meets no race on
\* m_socks.  It meets a failed assertion in addEvent only while the server is being
\* stopped, on a number that stop() closed under a loop still in accept() and that the
\* kernel gave to a connection accepted by another loop.  A cancelAll or cancelEvent
\* goes beyond the table only if no fiber has ever waited on the very number it looks
\* up, or if the table was made smaller.
AbortsExplained ==
  /\ aborted = "race" => hasty
  /\ aborted = "assert" => hasty \/ (m_isStop /\ abortedAt \in reused)
  /\ aborted = "index" => shrunk \/ abortedAt \notin waited

\* A fiber waits in a context that a resize has dropped from the table.
Orphaned(f) == pc[f] = "waiting" /\ ContextOf(f) # TableContext(fd[f])

\* After stop() every accept loop ends, wherever in accept(), addEvent or the
\* wait it was when the sockets were cancelled and closed, and also if it has
\* registered on a connection that got its number; but not one that registers between
\* the cancelAll and the end of close(), one whose context a resize has dropped, nor
\* one whose socket a failing bind() had removed from m_socks.
LoopsEnd ==
  m_isStop ~> \/ ~m_isStop \/ Quiet
              \/ \A l \in Loops : Alive(l) => l \in late \/ Orphaned(l) \/ target[l] \in forgotten

\* While the server runs, a connection in the backlog of a socket that has a
\* loop is accepted, although accept() may fail in between.
ClientsAccepted ==
  \A c \in Conns :
    (~m_isStop /\ conn[c] = "backlog" /\ \E l \in Loops : Alive(l) /\ m_sock[target[l]] = at[c])
      ~> conn[c] # "backlog" \/ m_isStop \/ Quiet
=============================================================================
