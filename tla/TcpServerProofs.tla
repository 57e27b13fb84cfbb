--------------------------- MODULE TcpServerProofs ---------------------------
(***************************************************************************)
(* Theorems about TcpServer.tla: for every set of numbers, every size of   *)
(* the table of contexts, any number of sockets, loops, stops and peers,   *)
(* and whatever calls the owner makes before a stop() has taken effect:    *)
(* every descriptor, a listening one or that of a connection, has one      *)
(* owner and none leaks; an owner that lets stop() take effect meets no    *)
(* race on m_socks, and a failed assertion of addEvent only on a number    *)
(* that stop() closed under a loop and accept() handed out again.          *)
(***************************************************************************)
EXTENDS TcpServer, FiniteSetTheorems, WellFoundedInduction, TLAPS

-----------------------------------------------------------------------------
(* The inductive invariant.                                                 *)

\* A Socket that has a number has it open.
OpenSocks == \A s \in Socks : m_sock[s] # Closed => m_sock[s] \in open

\* A handler that has not returned has the number of its connection to itself, and a
\* connection that nobody has accepted has no handler.
Connections ==
  /\ \A h \in Handlers : Alive(h) => fd[h] \in Numbers /\ fd[h] \in open
  /\ \A h, g \in Handlers : Alive(h) /\ Alive(g) /\ fd[h] = fd[g] => h = g
  /\ \A s \in Socks, h \in Handlers : Alive(h) => m_sock[s] # fd[h]
  /\ \A c \in Conns : conn[c] \in {"none", "backlog"} => ~Alive(HandlerOf(c))

\* What the calls of the owner may still create exists nowhere yet.
Budget ==
  /\ made + todo <= MaxSocks /\ m_socks \subseteq 1..made
  /\ \A s \in Socks : s > made => m_sock[s] = Closed
  /\ \A l \in Loops : l > posts => pc[l] = "none"
  /\ \A k \in StopTasks : k > MaxLoops + stops => pc[k] = "none"
  /\ owner = "start" => unposted \subseteq m_socks /\ posts + Cardinality(unposted) <= MaxLoops

\* A loop has a socket, and a number once it is in accept() of a hooked descriptor.
LoopShape ==
  \A l \in Loops :
    /\ Alive(l) => target[l] \in 1..made
    /\ pc[l] \in {"try", "add", "grow", "register", "waiting"} => fd[l] \in Numbers

\* One stop task is in m_socks at a time and has left to do what is not closed;
\* outside of it every socket in m_socks is open.
Inside(k) == Alive(k) /\ pc[k] # "begin"

StopProgress ==
  /\ \A k, j \in StopTasks : Inside(k) /\ Inside(j) => k = j
  /\ \A k \in StopTasks : Inside(k) => left[k] = {s \in m_socks : m_sock[s] # Closed}
  /\ \A k \in StopTasks : pc[k] \in {"close", "del", "sys"} => cur[k] \in left[k]
  /\ (\A k \in StopTasks : ~Inside(k)) => \A s \in m_socks : m_sock[s] # Closed

\* The table holds every number a fiber has waited on, unless it was made smaller.
TableCovers == ~shrunk => \A n \in waited : n < size

\* While the owner has let every stop() take effect: one stop task at a time, and
\* none while it binds or starts or the server runs; one loop per socket, and none
\* while it binds sockets for a stopped server; the loops of a running server work on
\* the numbers of their sockets, so that no two are in accept() on one number, and none
\* is on the number of a connection unless it was handed out under the loop.
Patient ==
  /\ \A k, j \in StopTasks : Alive(k) /\ Alive(j) => k = j
  /\ \A k \in StopTasks : Alive(k) => m_isStop /\ owner \notin {"bind", "start"}
  /\ \A l \in Loops : Alive(l) => ~(owner = "bind" /\ m_isStop) /\ ~(owner = "start" /\ target[l] \in unposted)
  /\ \A l, o \in Loops : Alive(l) /\ Alive(o) /\ target[l] = target[o] => l = o
  /\ \A l \in Loops :
       Alive(l) /\ ~m_isStop =>
         m_sock[target[l]] # Closed /\ (pc[l] # "check" => fd[l] = m_sock[target[l]])
  /\ \A l, o \in Loops :
       Alive(l) /\ Alive(o) /\ pc[l] # "check" /\ pc[o] # "check" /\ fd[l] = fd[o] => l = o
  /\ \A l \in Loops, h \in Handlers :
       Alive(l) /\ pc[l] # "check" /\ Alive(h) /\ fd[l] = fd[h] => fd[l] \in reused

\* The inductive invariant.
IndInv ==
  /\ NumbersOwned /\ OpenSocks /\ Connections /\ Budget /\ LoopShape /\ StopProgress /\ TableCovers
  /\ hasty \/ Patient
  /\ AbortsExplained

-----------------------------------------------------------------------------
(* Pieces.                                                                  *)

\* The least number of a set, which the kernel hands out and the loops over m_socks
\* take, is in it.

LEMMA MinMember ==
  ASSUME NEW S, S \subseteq Nat, S # {}
  PROVE  Min(S) \in S
<1> DEFINE R == {p \in Nat \X Nat : p[1] < p[2]}
<1>1. OpToRel(<, Nat) = R
  BY Zenon DEF OpToRel
<1>2. IsWellFoundedOn(R, Nat)
  BY <1>1, NatLessThanWellFounded, Zenon
<1>3. PICK x \in S : \A y \in S : ~ (<<y, x>> \in R)
  <2> HIDE DEF R
  <2>1. QED  BY <1>2, WFMin, Zenon
<1>4. ASSUME NEW y \in S  PROVE x <= y
  <2> DEFINE p == <<y, x>>
  <2>1. p \in Nat \X Nat /\ p[1] = y /\ p[2] = x
    OBVIOUS
  <2>2. ~(p[1] < p[2])
    BY <1>3, <2>1, Zenon
  <2>3. QED  BY <2>1, <2>2
<1>5. QED
  BY <1>4 DEF Min

\* Loops, stop tasks and handlers are different tasks.
LEMMA TaskFacts ==
  /\ Loops \subseteq Tasks /\ StopTasks \subseteq Tasks /\ Handlers \subseteq Tasks
  /\ Loops \cap StopTasks = {} /\ Loops \cap Handlers = {} /\ StopTasks \cap Handlers = {}
  /\ Fibers = Loops \cup Handlers /\ Tasks = Loops \cup StopTasks \cup Handlers
  /\ Loops \subseteq Nat \ {0} /\ Socks \subseteq Nat \ {0} /\ IsFiniteSet(Socks)
  /\ Closed \notin Numbers /\ Nobody \notin Socks /\ Nobody \notin Fibers
  /\ \A c \in Conns : HandlerOf(c) \in Handlers
  /\ \A c, d \in Conns : HandlerOf(c) = HandlerOf(d) => c = d
<1>1. MaxSocks \in Nat /\ MaxLoops \in Nat /\ MaxStops \in Nat /\ MaxConns \in Nat
  BY TcpServerAssumption
<1>2. Loops \cap StopTasks = {} /\ Loops \subseteq Nat \ {0} /\ Socks \subseteq Nat \ {0} /\ IsFiniteSet(Socks)
  BY <1>1, FS_Interval DEF Loops, StopTasks, Socks
<1>3. Closed \notin Numbers /\ Nobody \notin Socks
  BY <1>2, TcpServerAssumption DEF Closed, Nobody
<1>4. \A h \in Handlers : h \in Nat /\ h > MaxLoops + MaxStops
  BY <1>1 DEF Handlers, HandlerOf, Conns
<1>5. Loops \cap Handlers = {} /\ StopTasks \cap Handlers = {} /\ 0 \notin Handlers
  BY <1>1, <1>4 DEF Loops, StopTasks
<1>6. /\ \A c \in Conns : HandlerOf(c) \in Handlers
      /\ \A c, d \in Conns : HandlerOf(c) = HandlerOf(d) => c = d
  BY <1>1 DEF Handlers, HandlerOf, Conns
<1>7. Nobody \notin Fibers
  BY <1>2, <1>5 DEF Fibers, Nobody
<1>8. QED  BY <1>2, <1>3, <1>5, <1>6, <1>7 DEF Tasks, Fibers

\* The two parts of NumbersOwned besides the types.
HandlerHas(n) == \E h \in Handlers : Alive(h) /\ fd[h] = n
Owned == \A n \in open : (\E s \in Socks : m_sock[s] = n /\ (s \in m_socks \/ Held(s))) \/ HandlerHas(n)
OneOwner == \A s, r \in Socks : m_sock[s] = m_sock[r] /\ m_sock[s] # Closed => s = r

\* The types of the places where tasks are.
PcOK ==
  /\ pc \in [Tasks -> LoopPcs \cup StopPcs \cup HandlerPcs]
  /\ \A l \in Loops : pc[l] \in LoopPcs
  /\ \A k \in StopTasks : pc[k] \in StopPcs
  /\ \A h \in Handlers : pc[h] \in HandlerPcs

LEMMA NumbersOwnedParts == Connections => (NumbersOwned <=> TypeOK /\ Owned /\ OneOwner)
BY DEF NumbersOwned, Owned, OneOwner, HandlerHas, Connections

LEMMA InitInv == Init => IndInv
<1> SUFFICES ASSUME Init PROVE IndInv
  OBVIOUS
<1>1. TypeOK
  <2>1. size \in Nat /\ gen \in [Numbers -> Nat]
    BY TcpServerAssumption DEF Init
  <2>2. \A t \in Tasks : pc[t] = "none"
    BY DEF Init
  <2>3. PcOK
    BY <2>2, TaskFacts DEF Init, PcOK, LoopPcs, StopPcs, HandlerPcs
  <2>4. ServerOK
    <3>1. m_isStop \in BOOLEAN /\ fails \in BOOLEAN
      BY Zenon DEF Init
    <3>2. /\ m_socks \in SUBSET Socks /\ unposted \in SUBSET Socks /\ todo \in 0..MaxSocks
          /\ made \in 0..MaxSocks /\ posts \in 0..MaxLoops /\ stops \in 0..MaxStops
      BY TcpServerAssumption DEF Init
    <3>3. QED  BY <3>1, <3>2 DEF Init, ServerOK
  <2>5. TasksOK
    BY <2>3 DEF Init, TasksOK, PcOK
  <2>6. TableOK /\ FilesOK
    BY <2>1 DEF Init, TableOK, FilesOK
  <2>7. ClientsOK /\ OthersOK
    BY DEF Init, ClientsOK, OthersOK, history, verdict
  <2>8. QED
    BY <2>4, <2>5, <2>6, <2>7 DEF TypeOK
<1>2. Owned /\ OneOwner /\ OpenSocks /\ Connections
  <2>1. open = {} /\ (\A t \in Tasks : ~Alive(t)) /\ (\A x \in Socks : m_sock[x] = Closed)
    BY DEF Init, Alive
  <2>2. QED  BY <2>1, TaskFacts DEF Owned, OneOwner, OpenSocks, Connections
<1>3. Budget /\ LoopShape /\ StopProgress /\ TableCovers /\ Patient /\ AbortsExplained
  BY TaskFacts, TcpServerAssumption, FS_EmptySet
     DEF Init, Budget, LoopShape, StopProgress, TableCovers, Patient, AbortsExplained, Inside, Alive
<1>4. QED
  BY <1>1, <1>2, <1>3, NumbersOwnedParts DEF IndInv

\* The inductive invariant piece by piece, for use in the steps.
LEMMA Parts ==
  IndInv <=> /\ ServerOK /\ TasksOK /\ TableOK /\ FilesOK /\ ClientsOK /\ OthersOK
             /\ Owned /\ OneOwner /\ OpenSocks /\ Connections /\ Budget /\ LoopShape /\ StopProgress
             /\ TableCovers /\ (hasty \/ Patient) /\ AbortsExplained
BY NumbersOwnedParts DEF IndInv, TypeOK

\* The sockets made so far are sockets, and so are those of the loops.
LEMMA MadeSocks ==
  ASSUME IndInv
  PROVE  /\ 1..made \subseteq Socks /\ made \in Nat
         /\ \A l \in Loops : Alive(l) => target[l] \in Socks /\ target[l] <= made
<1>1. MaxSocks \in Nat /\ made \in 0..MaxSocks
  BY Parts, TcpServerAssumption DEF ServerOK
<1>2. 1..made \subseteq Socks /\ made \in Nat
  BY <1>1 DEF Socks
<1>3. \A l \in Loops : Alive(l) => target[l] \in 1..made
  BY Parts DEF LoopShape
<1>4. QED  BY <1>2, <1>3

\* What a step leaves of the handlers and their connections: they keep their numbers,
\* which stay open, and no peer is put back.
LEMMA ConnectionsStay ==
  ASSUME IndInv,
         \A h \in Handlers : (Alive(h)' => Alive(h)) /\ fd'[h] = fd[h],
         \A h \in Handlers : Alive(h)' => fd[h] \in open',
         \A s \in Socks : m_sock'[s] \in {m_sock[s], Closed},
         \A c \in Conns : conn'[c] \in {"none", "backlog"} => conn[c] \in {"none", "backlog"}
  PROVE  Connections'
<1> USE Parts, TaskFacts
<1>1. \A h \in Handlers : Alive(h)' => fd'[h] \in Numbers /\ fd'[h] \in open'
  BY DEF Connections
<1>2. \A h, g \in Handlers : Alive(h)' /\ Alive(g)' /\ fd'[h] = fd'[g] => h = g
  BY DEF Connections
<1>3. \A s \in Socks, h \in Handlers : Alive(h)' => m_sock'[s] # fd'[h]
  BY DEF Connections
<1>4. \A c \in Conns : conn'[c] \in {"none", "backlog"} => ~Alive(HandlerOf(c))'
  <2> SUFFICES ASSUME NEW c \in Conns, conn'[c] \in {"none", "backlog"} PROVE ~Alive(HandlerOf(c))'
    OBVIOUS
  <2>1. PICK h \in Handlers : h = HandlerOf(c)
    OBVIOUS
  <2>2. ~Alive(h)
    BY <2>1 DEF Connections
  <2>3. ~Alive(h)'
    BY <2>2
  <2>4. QED  BY <2>1, <2>3 DEF HandlerOf
<1>5. QED  BY <1>1, <1>2, <1>3, <1>4 DEF Connections

\* What a step leaves alone if tasks stay alive, loops move within accept() or return to
\* the check, and nothing else happens to sockets.
Moves ==
  /\ \A l \in Loops :
       /\ Alive(l)' <=> Alive(l)
       /\ pc[l] = "none" => pc'[l] = "none"
       /\ pc[l] = "check" => pc'[l] = "check"
       /\ pc'[l] \in {"try", "add", "grow", "register", "waiting"} => fd[l] \in Numbers
  /\ \A k \in StopTasks : (Alive(k)' => Alive(k)) /\ (pc[k] = "none" => pc'[k] = "none")
  /\ \A h \in Handlers : Alive(h)' <=> Alive(h)
  /\ UNCHANGED <<m_isStop, owner, todo, unposted, made, posts, stops, m_socks, target, fd, m_sock, open, conn,
                 hasty, reused>>

LEMMA MovesKeep ==
  ASSUME IndInv, Moves
  PROVE  /\ Owned' /\ OneOwner' /\ OpenSocks' /\ Connections' /\ Budget' /\ LoopShape'
         /\ (hasty \/ Patient)'
<1> USE Parts
<1>1. Owned'
  BY DEF Moves, Owned, Held, HandlerHas
<1>2. OneOwner' /\ OpenSocks'
  BY DEF Moves, OneOwner, OpenSocks
<1>3. Connections'
  BY ConnectionsStay DEF Moves, Connections
<1>4. Budget'
  BY DEF Moves, Budget
<1>5. LoopShape'
  BY DEF Moves, LoopShape
<1>6. Patient => Patient'
  <2> SUFFICES ASSUME Patient PROVE Patient'
    OBVIOUS
  <2>1. /\ \A k, j \in StopTasks : Alive(k)' /\ Alive(j)' => k = j
        /\ \A k \in StopTasks : Alive(k)' => m_isStop' /\ owner' \notin {"bind", "start"}
    BY DEF Patient, Moves
  <2>2. \A l \in Loops : Alive(l)' => ~(owner' = "bind" /\ m_isStop') /\ ~(owner' = "start" /\ target'[l] \in unposted')
    BY DEF Patient, Moves
  <2>3. \A l, o \in Loops : Alive(l)' /\ Alive(o)' /\ target'[l] = target'[o] => l = o
    BY DEF Patient, Moves
  <2>4. \A l \in Loops :
       Alive(l)' /\ ~m_isStop' =>
         m_sock'[target'[l]] # Closed /\ (pc'[l] # "check" => fd'[l] = m_sock'[target'[l]])
    BY DEF Patient, Moves
  <2>5. \A l, o \in Loops :
       Alive(l)' /\ Alive(o)' /\ pc'[l] # "check" /\ pc'[o] # "check" /\ fd'[l] = fd'[o] => l = o
    BY DEF Patient, Moves
  <2>6. \A l \in Loops, h \in Handlers :
       Alive(l)' /\ pc'[l] # "check" /\ Alive(h)' /\ fd'[l] = fd'[h] => fd'[l] \in reused'
    BY DEF Patient, Moves
  <2>7. QED  BY <2>1, <2>2, <2>3, <2>4, <2>5, <2>6 DEF Patient
<1>7. QED
  BY <1>1, <1>2, <1>3, <1>4, <1>5, <1>6 DEF Moves

\* A loop or a handler that goes on to another place disturbs no one.
FiberGoes(f, place) ==
  /\ Alive(f) /\ place \notin {"none", "ended"} /\ pc' = [pc EXCEPT ![f] = place]
  /\ f \in Loops => place \in LoopPcs
  /\ f \in Handlers => place \in HandlerPcs
  /\ pc[f] # "check"
  /\ place \in {"try", "add", "grow", "register", "waiting"} => fd[f] \in Numbers
  /\ UNCHANGED <<m_isStop, owner, todo, unposted, made, posts, stops, m_socks, target, fd, left, cur,
                 m_sock, open, conn, hasty, reused>>

LEMMA FiberGoesKeeps ==
  ASSUME IndInv, NEW f \in Fibers, NEW place, FiberGoes(f, place)
  PROVE  /\ Owned' /\ OneOwner' /\ OpenSocks' /\ Connections' /\ Budget' /\ LoopShape' /\ StopProgress'
         /\ (hasty \/ Patient)'
         /\ PcOK'
<1> USE Parts, TaskFacts
<1>1. \A t \in Tasks : pc'[t] = IF t = f THEN place ELSE pc[t]
  BY DEF FiberGoes, TasksOK
<1>2. \A k \in StopTasks : pc'[k] = pc[k]
  <2>1. \A k \in StopTasks : k \in Tasks /\ k # f
    OBVIOUS
  <2>2. QED  BY <1>1, <2>1
<1>3. Moves
  <2>1. UNCHANGED <<m_isStop, owner, todo, unposted, made, posts, stops, m_socks, target, fd, m_sock, open, conn,
                    hasty, reused>>
    BY DEF FiberGoes
  <2>2. \A l \in Loops :
       /\ Alive(l)' <=> Alive(l)
       /\ pc[l] = "none" => pc'[l] = "none"
       /\ pc[l] = "check" => pc'[l] = "check"
       /\ pc'[l] \in {"try", "add", "grow", "register", "waiting"} => fd[l] \in Numbers
    BY <1>1 DEF FiberGoes, Alive, LoopShape
  <2>3. \A k \in StopTasks : (Alive(k)' => Alive(k)) /\ (pc[k] = "none" => pc'[k] = "none")
    BY <1>2 DEF Alive
  <2>4. \A h \in Handlers : Alive(h)' <=> Alive(h)
    BY <1>1 DEF FiberGoes, Alive
  <2>5. QED  BY <2>1, <2>2, <2>3, <2>4 DEF Moves
<1>4. StopProgress'
  <2>1. \A k \in StopTasks : Inside(k)' <=> Inside(k)
    BY <1>2 DEF Inside, Alive
  <2>2. QED  BY <1>2, <2>1 DEF FiberGoes, StopProgress
<1>5. PcOK'
  BY <1>1, <1>2 DEF FiberGoes, TasksOK, PcOK
<1>6. QED
  BY <1>3, <1>4, <1>5, MovesKeep

LEMMA PartsNext ==
  ASSUME ServerOK', TasksOK', TableOK', FilesOK', ClientsOK', OthersOK',
         Owned', OneOwner', OpenSocks', Connections', Budget', LoopShape', StopProgress', TableCovers',
         (hasty \/ Patient)', AbortsExplained'
  PROVE  IndInv'
BY DEF IndInv, NumbersOwned, Owned, OneOwner, TypeOK, HandlerHas, Connections

\* Without an abort there is nothing to explain.
LEMMA StillNo == ASSUME aborted = "no", UNCHANGED verdict PROVE AbortsExplained'
BY DEF AbortsExplained, verdict

-----------------------------------------------------------------------------
(* The accept loops.                                                        *)

\* A fiber that waits, or is about to, has a number.
LEMMA FiberNumbers ==
  ASSUME IndInv
  PROVE  /\ \A l \in Loops : pc[l] \in {"try", "add", "grow", "register", "waiting"} => fd[l] \in Numbers
         /\ \A h \in Handlers : Alive(h) => fd[h] \in Numbers
         /\ \A f \in Fibers : pc[f] \in {"add", "grow", "register", "waiting"} => fd[f] \in Numbers
BY Parts, TaskFacts DEF LoopShape, Connections, Alive

\* The number of an accepted connection was nobody's, and its handler had not begun.
LEMMA AcceptsKeeps ==
  ASSUME IndInv, aborted = "no", NEW l \in Loops, Accepts(l)
  PROVE  IndInv'
<1> USE Parts, TaskFacts
<1>1. PICK n \in Numbers \ open : n = NextNumber
  BY MinMember, TcpServerAssumption DEF Accepts, NextNumber
<1>2. PICK c \in Backlog(fd[l]) : c = Min(Backlog(fd[l]))
  <2>1. Backlog(fd[l]) \subseteq Nat /\ Backlog(fd[l]) # {}
    BY TcpServerAssumption DEF Accepts, Backlog, Conns
  <2>2. QED  BY <2>1, MinMember
<1>3. c \in Conns /\ conn[c] = "backlog"
  BY DEF Backlog
<1>4. PICK h \in Handlers : h = HandlerOf(c)
  BY <1>3
<1>5. ~Alive(h)
  BY <1>3, <1>4 DEF Connections
<1>6. /\ pc[l] \in {"plain", "try"} /\ Alive(l)
      /\ conn' = [conn EXCEPT ![c] = "accepted"]
      /\ fd' = [fd EXCEPT ![h] = n] /\ pc' = [pc EXCEPT ![l] = "check", ![h] = "run"]
      /\ open' = open \cup {n} /\ m_datas' = m_datas \cup {n}
      /\ reused' = (IF Using(n) # {} THEN reused \cup {n} ELSE reused)
      /\ UNCHANGED <<server, target, ptr, left, cur, table, m_sock, watch, at, errors, verdict, hasty, late, forgotten>>
  BY <1>1, <1>2, <1>4 DEF Accepts, At, Alive
<1>7. \A t \in Tasks : pc'[t] = IF t = h THEN "run" ELSE IF t = l THEN "check" ELSE pc[t]
  BY <1>6 DEF TasksOK
<1>8. \A f \in Fibers : fd'[f] = IF f = h THEN n ELSE fd[f]
  BY <1>6 DEF TasksOK
<1>9. /\ \A o \in Loops : (Alive(o)' <=> Alive(o)) /\ fd'[o] = fd[o]
      /\ \A k \in StopTasks : pc'[k] = pc[k] /\ (Alive(k)' <=> Alive(k)) /\ (Inside(k)' <=> Inside(k))
      /\ \A g \in Handlers : (Alive(g)' <=> Alive(g) \/ g = h)
  <2>1. \A o \in Loops : pc'[o] = (IF o = l THEN "check" ELSE pc[o]) /\ fd'[o] = fd[o]
    BY <1>7, <1>8
  <2>2. \A k \in StopTasks : pc'[k] = pc[k]
    BY <1>7
  <2>3. \A g \in Handlers : pc'[g] = (IF g = h THEN "run" ELSE pc[g])
    BY <1>7
  <2>4. \A o \in Loops : (Alive(o)' <=> Alive(o)) /\ fd'[o] = fd[o]
    <3>1. Alive(l)
      BY <1>6
    <3>2. QED  BY <2>1, <3>1 DEF Alive
  <2>5. \A k \in StopTasks : pc'[k] = pc[k] /\ (Alive(k)' <=> Alive(k)) /\ (Inside(k)' <=> Inside(k))
    BY <2>2 DEF Alive, Inside
  <2>6. \A g \in Handlers : (Alive(g)' <=> Alive(g) \/ g = h)
    BY <2>3 DEF Alive
  <2>7. QED  BY <2>4, <2>5, <2>6
<1>10. TasksOK'
  <2>1. fd' \in [Fibers -> Numbers \cup {Closed}]
    BY <1>6 DEF TasksOK
  <2>2. pc' \in [Tasks -> LoopPcs \cup StopPcs \cup HandlerPcs]
    BY <1>6 DEF TasksOK, LoopPcs, HandlerPcs
  <2>3. /\ \A o \in Loops : pc'[o] \in LoopPcs
        /\ \A k \in StopTasks : pc'[k] \in StopPcs
        /\ \A g \in Handlers : pc'[g] \in HandlerPcs
    BY <1>7 DEF TasksOK, LoopPcs, HandlerPcs
  <2>4. QED  BY <1>6, <2>1, <2>2, <2>3 DEF TasksOK
<1>11. ServerOK' /\ TableOK' /\ FilesOK' /\ TableCovers'
  BY <1>6 DEF ServerOK, TableOK, FilesOK, TableCovers, server, table
<1>12. ClientsOK' /\ OthersOK'
  BY <1>6 DEF ClientsOK, OthersOK, verdict
<1>13. Owned'
  <2> SUFFICES ASSUME NEW i \in open'
               PROVE (\E s \in Socks : m_sock'[s] = i /\ (s \in m_socks' \/ Held(s)')) \/ HandlerHas(i)'
    BY DEF Owned
  <2>1. CASE i = n
    <3>1. Alive(h)' /\ fd'[h] = n
      BY <1>8, <1>9
    <3>2. QED  BY <2>1, <3>1 DEF HandlerHas
  <2>2. CASE i \in open /\ \E s \in Socks : m_sock[s] = i /\ (s \in m_socks \/ Held(s))
    BY <1>6, <1>9, <2>2 DEF Held, server
  <2>3. CASE i \in open /\ HandlerHas(i)
    <3>1. PICK g \in Handlers : Alive(g) /\ fd[g] = i
      BY <2>3 DEF HandlerHas
    <3>2. Alive(g)' /\ fd'[g] = i
      BY <1>5, <1>8, <1>9, <3>1
    <3>3. QED  BY <3>2 DEF HandlerHas
  <2>4. QED  BY <1>6, <2>1, <2>2, <2>3 DEF Owned
<1>14. OneOwner' /\ OpenSocks'
  BY <1>6 DEF OneOwner, OpenSocks
<1>15. Connections'
  <2>1. \A g \in Handlers : Alive(g)' => fd'[g] \in Numbers /\ fd'[g] \in open'
    BY <1>6, <1>8, <1>9 DEF Connections
  <2>2. \A g, i \in Handlers : Alive(g)' /\ Alive(i)' /\ fd'[g] = fd'[i] => g = i
    <3>1. ASSUME NEW g \in Handlers, Alive(g)', g # h PROVE Alive(g) /\ fd'[g] = fd[g] /\ fd[g] # n
      <4>1. Alive(g) /\ fd'[g] = fd[g]
        BY <1>8, <1>9, <3>1
      <4>2. fd[g] \in open
        BY <4>1 DEF Connections
      <4>3. QED  BY <4>1, <4>2
    <3>2. fd'[h] = n
      BY <1>8
    <3>3. QED  BY <3>1, <3>2 DEF Connections
  <2>3. \A s \in Socks, g \in Handlers : Alive(g)' => m_sock'[s] # fd'[g]
    BY <1>1, <1>6, <1>8, <1>9 DEF Connections, OpenSocks
  <2>4. \A d \in Conns : conn'[d] \in {"none", "backlog"} => ~Alive(HandlerOf(d))'
    <3> SUFFICES ASSUME NEW d \in Conns, conn'[d] \in {"none", "backlog"} PROVE ~Alive(HandlerOf(d))'
      OBVIOUS
    <3>1. d # c /\ conn[d] \in {"none", "backlog"}
      BY <1>3, <1>6 DEF ClientsOK
    <3>2. PICK g \in Handlers : g = HandlerOf(d)
      OBVIOUS
    <3>3. g # h /\ ~Alive(g)
      BY <1>3, <1>4, <3>1, <3>2 DEF Connections
    <3>4. ~Alive(g)'
      BY <1>9, <3>3
    <3>5. QED  BY <3>2, <3>4 DEF HandlerOf
  <2>5. QED  BY <2>1, <2>2, <2>3, <2>4 DEF Connections
<1>16. Budget'
  <2>1. \A o \in Loops : o > posts => pc'[o] = "none"
    BY <1>6, <1>7 DEF Budget, Alive
  <2>2. QED  BY <1>6, <1>9, <2>1 DEF Budget, server
<1>17. LoopShape'
  <2>1. UNCHANGED <<made, target>> /\ \A o \in Loops : pc'[o] \in {"check", pc[o]}
    BY <1>6, <1>7 DEF server
  <2>2. \A o \in Loops : Alive(o)' => target'[o] \in 1..made'
    BY <1>9, <2>1 DEF LoopShape
  <2>3. \A o \in Loops : pc'[o] \in {"try", "add", "grow", "register", "waiting"} => fd'[o] \in Numbers
    BY <1>9, <2>1 DEF LoopShape
  <2>4. QED  BY <2>2, <2>3 DEF LoopShape
<1>18. StopProgress'
  BY <1>6, <1>9 DEF StopProgress, server
<1>19. Patient => Patient'
  <2> SUFFICES ASSUME Patient PROVE Patient'
    OBVIOUS
  <2>1. UNCHANGED <<m_isStop, owner, unposted, target, m_sock>>
    BY <1>6 DEF server
  <2>2. \A o \in Loops : pc'[o] = (IF o = l THEN "check" ELSE pc[o])
    BY <1>7
  <2>3. /\ \A k, j \in StopTasks : Alive(k)' /\ Alive(j)' => k = j
        /\ \A k \in StopTasks : Alive(k)' => m_isStop' /\ owner' \notin {"bind", "start"}
    BY <1>9, <2>1 DEF Patient
  <2>4. \A o \in Loops : Alive(o)' => ~(owner' = "bind" /\ m_isStop') /\ ~(owner' = "start" /\ target'[o] \in unposted')
    BY <1>9, <2>1 DEF Patient
  <2>5. \A o, u \in Loops : Alive(o)' /\ Alive(u)' /\ target'[o] = target'[u] => o = u
    BY <1>9, <2>1 DEF Patient
  <2>6. \A o \in Loops :
       Alive(o)' /\ ~m_isStop' =>
         m_sock'[target'[o]] # Closed /\ (pc'[o] # "check" => fd'[o] = m_sock'[target'[o]])
    BY <1>9, <2>1, <2>2 DEF Patient
  <2>7. \A o, u \in Loops :
       Alive(o)' /\ Alive(u)' /\ pc'[o] # "check" /\ pc'[u] # "check" /\ fd'[o] = fd'[u] => o = u
    BY <1>9, <2>2 DEF Patient
  <2>8. ASSUME NEW o \in Loops, NEW g \in Handlers, Alive(o)', pc'[o] # "check", Alive(g)', fd'[o] = fd'[g]
        PROVE  fd'[o] \in reused'
    <3>1. Alive(o) /\ pc[o] # "check" /\ fd'[o] = fd[o]
      BY <1>9, <2>2, <2>8
    <3>2. CASE g = h
      <4>1. fd[o] = n
        BY <1>8, <2>8, <3>1, <3>2
      <4>2. o \in Using(n)
        BY <3>1, <4>1 DEF Using
      <4>3. QED  BY <1>6, <3>1, <4>1, <4>2
    <3>3. CASE g # h
      <4>1. Alive(g) /\ fd[o] = fd[g]
        BY <1>8, <1>9, <2>8, <3>1, <3>3
      <4>2. fd[o] \in reused
        BY <3>1, <4>1 DEF Patient
      <4>3. QED  BY <1>6, <3>1, <4>2
    <3>4. QED  BY <3>2, <3>3
  <2>9. QED  BY <2>3, <2>4, <2>5, <2>6, <2>7, <2>8 DEF Patient
<1>20. AbortsExplained'
  BY <1>6, StillNo
<1>21. QED
  BY <1>6, <1>10, <1>11, <1>12, <1>13, <1>14, <1>15, <1>16, <1>17, <1>18, <1>19, <1>20, PartsNext

LEMMA AcceptFailsKeeps ==
  ASSUME IndInv, aborted = "no", NEW l \in Loops, AcceptFails(l)
  PROVE  IndInv'
<1> USE Parts, TaskFacts
<1>1. FiberGoes(l, "check")
  BY FiberNumbers DEF AcceptFails, FiberGoes, Goes, At, Alive, LoopPcs, HandlerPcs, server, files, clients, history
<1>2. TasksOK'
  BY <1>1, FiberGoesKeeps DEF TasksOK, AcceptFails, PcOK
<1>3. ServerOK' /\ TableOK' /\ ClientsOK' /\ TableCovers'
  BY DEF AcceptFails, ServerOK, TableOK, ClientsOK, TableCovers, server, table, clients
<1>4. FilesOK' /\ OthersOK'
  BY DEF AcceptFails, FilesOK, OthersOK, files, history, verdict
<1>5. AbortsExplained'
  BY StillNo DEF AcceptFails
<1>6. QED
  BY <1>1, <1>2, <1>3, <1>4, <1>5, FiberGoesKeeps, PartsNext

LEMMA WouldBlockKeeps ==
  ASSUME IndInv, aborted = "no", NEW l \in Loops, WouldBlock(l)
  PROVE  IndInv'
<1> USE Parts, TaskFacts
<1>1. FiberGoes(l, "add")
  BY FiberNumbers DEF WouldBlock, FiberGoes, Goes, At, Alive, LoopPcs, HandlerPcs, server, files, clients, history
<1>2. TasksOK'
  BY <1>1, FiberGoesKeeps DEF TasksOK, WouldBlock, PcOK
<1>3. ServerOK' /\ TableOK' /\ ClientsOK' /\ TableCovers'
  BY DEF WouldBlock, ServerOK, TableOK, ClientsOK, TableCovers, server, table, clients
<1>4. FilesOK' /\ OthersOK'
  BY DEF WouldBlock, FilesOK, OthersOK, files, history, verdict
<1>5. AbortsExplained'
  BY StillNo DEF WouldBlock
<1>6. QED
  BY <1>1, <1>2, <1>3, <1>4, <1>5, FiberGoesKeeps, PartsNext

LEMMA RegisterFailsKeeps ==
  ASSUME IndInv, aborted = "no", NEW f \in Fibers, RegisterFails(f)
  PROVE  IndInv'
<1> USE Parts, TaskFacts
<1>1. FiberGoes(f, GivesUp(f))
  BY FiberNumbers DEF RegisterFails, FiberGoes, Goes, At, Alive, LoopPcs, HandlerPcs, server, files, clients, history, GivesUp
<1>2. TasksOK'
  BY <1>1, FiberGoesKeeps DEF TasksOK, RegisterFails, PcOK
<1>3. ServerOK' /\ TableOK' /\ ClientsOK' /\ TableCovers'
  BY DEF RegisterFails, ServerOK, TableOK, ClientsOK, TableCovers, server, table, clients
<1>4. FilesOK' /\ OthersOK'
  BY DEF RegisterFails, FilesOK, OthersOK, files, history, verdict
<1>5. AbortsExplained'
  BY StillNo DEF RegisterFails
<1>6. QED
  BY <1>1, <1>2, <1>3, <1>4, <1>5, FiberGoesKeeps, PartsNext

LEMMA RegisterKeeps ==
  ASSUME IndInv, aborted = "no", NEW f \in Fibers, Register(f)
  PROVE  IndInv'
<1> USE Parts, TaskFacts
<1>1. FiberGoes(f, "waiting")
  BY FiberNumbers DEF Register, FiberGoes, Goes, At, Alive, LoopPcs, HandlerPcs, server, files, clients, history
<1>2. TasksOK'
  BY <1>1, FiberGoesKeeps DEF TasksOK, Register, PcOK
<1>3. ServerOK' /\ TableOK' /\ ClientsOK' /\ TableCovers'
  BY DEF Register, ServerOK, TableOK, ClientsOK, TableCovers, server, table, clients
<1>4. FilesOK' /\ OthersOK'
  BY DEF Register, FilesOK, OthersOK, files, history, verdict
<1>5. AbortsExplained'
  BY StillNo DEF Register
<1>6. QED
  BY <1>1, <1>2, <1>3, <1>4, <1>5, FiberGoesKeeps, PartsNext

LEMMA ReportKeeps ==
  ASSUME IndInv, aborted = "no", NEW f \in Fibers, Report(f)
  PROVE  IndInv'
<1> USE Parts, TaskFacts
<1>1. FiberGoes(f, Retries(f))
  BY FiberNumbers DEF Report, FiberGoes, Goes, At, Alive, LoopPcs, HandlerPcs, server, files, clients, history, Retries
<1>2. TasksOK'
  BY <1>1, FiberGoesKeeps DEF TasksOK, Report, PcOK
<1>3. ServerOK' /\ TableOK' /\ ClientsOK' /\ TableCovers'
  BY DEF Report, ServerOK, TableOK, ClientsOK, TableCovers, server, table, clients
<1>4. FilesOK' /\ OthersOK'
  BY DEF Report, FilesOK, OthersOK, files, history, verdict
<1>5. AbortsExplained'
  BY StillNo DEF Report
<1>6. QED
  BY <1>1, <1>2, <1>3, <1>4, <1>5, FiberGoesKeeps, PartsNext

LEMMA RecvKeeps ==
  ASSUME IndInv, aborted = "no", NEW h \in Handlers, Recv(h)
  PROVE  IndInv'
<1> USE Parts, TaskFacts
<1>1. FiberGoes(h, "add")
  BY FiberNumbers DEF Recv, FiberGoes, Goes, At, Alive, LoopPcs, HandlerPcs, server, files, clients, history
<1>2. TasksOK'
  BY <1>1, FiberGoesKeeps DEF TasksOK, Recv, PcOK
<1>3. ServerOK' /\ TableOK' /\ ClientsOK' /\ TableCovers'
  BY DEF Recv, ServerOK, TableOK, ClientsOK, TableCovers, server, table, clients
<1>4. FilesOK' /\ OthersOK'
  BY DEF Recv, FilesOK, OthersOK, files, history, verdict
<1>5. AbortsExplained'
  BY StillNo DEF Recv
<1>6. QED
  BY <1>1, <1>2, <1>3, <1>4, <1>5, FiberGoesKeeps, PartsNext

LEMMA ReturnsKeeps ==
  ASSUME IndInv, aborted = "no", NEW h \in Handlers, Returns(h)
  PROVE  IndInv'
<1> USE Parts, TaskFacts
<1>1. FiberGoes(h, "close")
  BY FiberNumbers DEF Returns, FiberGoes, Goes, At, Alive, LoopPcs, HandlerPcs, server, files, clients, history
<1>2. TasksOK'
  BY <1>1, FiberGoesKeeps DEF TasksOK, Returns, PcOK
<1>3. ServerOK' /\ TableOK' /\ ClientsOK' /\ TableCovers'
  BY DEF Returns, ServerOK, TableOK, ClientsOK, TableCovers, server, table, clients
<1>4. FilesOK' /\ OthersOK'
  BY DEF Returns, FilesOK, OthersOK, files, history, verdict
<1>5. AbortsExplained'
  BY StillNo DEF Returns
<1>6. QED
  BY <1>1, <1>2, <1>3, <1>4, <1>5, FiberGoesKeeps, PartsNext

LEMMA LookUpKeeps ==
  ASSUME IndInv, aborted = "no", NEW f \in Fibers, LookUp(f)
  PROVE  IndInv'
<1> USE Parts, TaskFacts
<1>1. fd[f] \in Numbers /\ fd[f] \in Nat
  BY FiberNumbers, TcpServerAssumption DEF LookUp, At
<1>2. \E place \in {"register", "grow"} : FiberGoes(f, place)
  BY <1>1 DEF LookUp, FiberGoes, Goes, At, Alive, LoopPcs, HandlerPcs, server, files, clients, history
<1>3. ptr' \in [Fibers -> Nat] /\ waited' \in SUBSET Numbers
  BY <1>1 DEF LookUp, TasksOK, TableOK, PcOK
<1>4. TasksOK'
  BY <1>2, <1>3, FiberGoesKeeps DEF TasksOK, LookUp, PcOK
<1>5. ServerOK' /\ FilesOK' /\ ClientsOK' /\ OthersOK'
  BY DEF LookUp, ServerOK, FilesOK, ClientsOK, OthersOK, server, files, clients, history, verdict
<1>6. TableOK' /\ TableCovers'
  BY <1>3 DEF LookUp, TableOK, TableCovers
<1>7. AbortsExplained'
  BY StillNo DEF LookUp
<1>8. QED
  BY <1>2, <1>4, <1>5, <1>6, <1>7, FiberGoesKeeps, PartsNext

LEMMA GrowKeeps ==
  ASSUME IndInv, aborted = "no", NEW f \in Fibers, Grow(f)
  PROVE  IndInv'
<1> DEFINE new == (3 * fd[f]) \div 2
<1> USE Parts, TaskFacts
<1>1. fd[f] \in Numbers /\ fd[f] \in Nat \ {0, 1}
  BY FiberNumbers, TcpServerAssumption DEF Grow, At
<1>2. new \in Nat /\ fd[f] < new
  BY <1>1
<1>3. FiberGoes(f, "register")
  BY <1>1 DEF Grow, FiberGoes, Goes, At, Alive, LoopPcs, HandlerPcs, server, files, clients, history
<1>4. size' = new /\ shrunk' = (shrunk \/ new < size)
  BY DEF Grow, contextResize
<1> HIDE DEF new
<1>5. gen' \in [Numbers -> Nat]
  BY DEF Grow, contextResize, TableOK
<1>6. ptr' \in [Fibers -> Nat] /\ waited' = waited \cup {fd[f]}
  BY <1>1, <1>5 DEF Grow, TasksOK, PcOK
<1>7. TasksOK'
  BY <1>3, <1>6, FiberGoesKeeps DEF TasksOK, Grow, PcOK
<1>8. ServerOK' /\ FilesOK' /\ ClientsOK' /\ OthersOK'
  BY DEF Grow, ServerOK, FilesOK, ClientsOK, OthersOK, server, files, clients, history, verdict
<1>9. TableOK'
  BY <1>1, <1>2, <1>4, <1>5, <1>6 DEF TableOK
<1>10. TableCovers'
  <2> SUFFICES ASSUME ~shrunk', NEW n \in waited' PROVE n < size'
    BY DEF TableCovers
  <2>1. ~shrunk /\ ~(new < size)
    BY <1>4
  <2>2. n \in waited => n < size
    BY <2>1 DEF TableCovers
  <2>3. n \in Nat /\ size \in Nat
    BY <1>1, <1>6, TcpServerAssumption DEF TableOK
  <2>4. n \in waited \/ n = fd[f]
    BY <1>6
  <2>5. QED  BY <1>2, <1>4, <2>1, <2>2, <2>3, <2>4
<1>11. AbortsExplained'
  BY StillNo DEF Grow
<1>12. QED
  BY <1>3, <1>7, <1>8, <1>9, <1>10, <1>11, FiberGoesKeeps, PartsNext

LEMMA CheckKeeps ==
  ASSUME IndInv, aborted = "no", NEW l \in Loops, Check(l)
  PROVE  IndInv'
<1> DEFINE n == m_sock[target[l]]
           place == IF n \in m_datas THEN "try" ELSE "plain"
<1> USE Parts, TaskFacts
<1>1. target[l] \in Socks /\ target[l] \in 1..made /\ pc[l] = "check" /\ Alive(l)
  BY MadeSocks DEF Check, At, LoopShape, Alive
<1>2. n \in Numbers \cup {Closed} /\ (place = "try" => n \in Numbers) /\ place \in {"try", "plain"}
  BY <1>1 DEF FilesOK
<1>3. /\ fd' = [fd EXCEPT ![l] = n] /\ pc' = [pc EXCEPT ![l] = place] /\ ~m_isStop
      /\ UNCHANGED <<server, target, ptr, left, cur, table, files, clients, errors, verdict, history>>
  BY DEF Check, Goes
<1>4. m_sock[target[l]] = n
  OBVIOUS
<1> HIDE DEF n, place
<1>5. TasksOK'
  BY <1>2, <1>3 DEF TasksOK, LoopPcs
<1>6. ServerOK' /\ TableOK' /\ FilesOK' /\ ClientsOK' /\ OthersOK' /\ TableCovers'
  BY <1>3 DEF ServerOK, TableOK, FilesOK, ClientsOK, OthersOK, TableCovers, server, table, files, clients,
      history, verdict
<1>7. \A t \in Tasks : pc'[t] = IF t = l THEN place ELSE pc[t]
  BY <1>3 DEF TasksOK
<1>8. \A t \in Tasks : Alive(t)' <=> Alive(t)
  BY <1>1, <1>2, <1>7 DEF Alive
<1>9. \A h \in Handlers : (Alive(h)' <=> Alive(h)) /\ fd'[h] = fd[h]
  BY <1>3, <1>8 DEF TasksOK
<1>10. Connections'
  BY <1>3, <1>9, ConnectionsStay DEF Connections, files, clients
<1>11. Owned' /\ OneOwner' /\ OpenSocks'
  BY <1>3, <1>8, <1>9 DEF Owned, OneOwner, OpenSocks, Held, files, server, HandlerHas
<1>12. Budget'
  BY <1>1, <1>3, <1>7 DEF Budget, Alive, server, files
<1>13. LoopShape'
  BY <1>2, <1>3, <1>7, <1>8 DEF LoopShape, TasksOK, server
<1>14. StopProgress'
  <2>1. \A k \in StopTasks : pc'[k] = pc[k] /\ (Inside(k)' <=> Inside(k))
    BY <1>7 DEF Inside, Alive
  <2>2. QED  BY <1>3, <2>1 DEF StopProgress, server, files
<1>15. Patient => Patient'
  <2> SUFFICES ASSUME Patient PROVE Patient'
    OBVIOUS
  <2>1. fd'[l] = n /\ (\A o \in Loops \ {l} : fd'[o] = fd[o] /\ pc'[o] = pc[o]) /\ pc'[l] = place
    BY <1>3, <1>7 DEF TasksOK
  <2>2. UNCHANGED reused
    BY <1>3 DEF history
  <2>3. UNCHANGED <<m_isStop, owner, unposted, target, m_sock>>
    BY <1>3 DEF server, files
  <2>4. /\ \A k, j \in StopTasks : Alive(k)' /\ Alive(j)' => k = j
        /\ \A k \in StopTasks : Alive(k)' => m_isStop' /\ owner' \notin {"bind", "start"}
    BY <1>8, <2>3 DEF Patient
  <2>5. \A o \in Loops : Alive(o)' => ~(owner' = "bind" /\ m_isStop') /\ ~(owner' = "start" /\ target'[o] \in unposted')
    BY <1>8, <2>3 DEF Patient
  <2>6. \A o, u \in Loops : Alive(o)' /\ Alive(u)' /\ target'[o] = target'[u] => o = u
    BY <1>8, <2>3 DEF Patient
  <2>7. \A o \in Loops :
       Alive(o)' /\ ~m_isStop' =>
         m_sock'[target'[o]] # Closed /\ (pc'[o] # "check" => fd'[o] = m_sock'[target'[o]])
    BY <1>4, <1>8, <2>1, <2>3 DEF Patient
  <2>8. ASSUME NEW o \in Loops, NEW u \in Loops,
               Alive(o)', Alive(u)', pc'[o] # "check", pc'[u] # "check", fd'[o] = fd'[u]
        PROVE  o = u
    <3>1. target[o] \in Socks /\ target[u] \in Socks
      BY <1>8, <2>8, MadeSocks
    <3>2. /\ m_sock[target[o]] = fd'[o] /\ m_sock[target[u]] = fd'[u] /\ m_sock[target[o]] # Closed
      BY <1>3, <2>3, <2>7, <2>8
    <3>3. target[o] = target[u]
      BY <3>1, <3>2, <2>8 DEF OneOwner
    <3>4. QED  BY <2>3, <2>6, <2>8, <3>3
  <2>9. ASSUME NEW o \in Loops, NEW h \in Handlers, Alive(o)', pc'[o] # "check", Alive(h)', fd'[o] = fd'[h]
         PROVE  fd'[o] \in reused'
    <3>1. Alive(o) /\ Alive(h) /\ fd'[h] = fd[h]
      BY <1>8, <1>9, <2>9
    <3>2. CASE o = l
      <4>1. m_sock[target[l]] = fd[h]
        BY <1>4, <2>1, <2>9, <3>1, <3>2
      <4>2. QED  BY <1>1, <3>1, <4>1 DEF Connections
    <3>3. CASE o # l
      BY <2>1, <2>2, <2>9, <3>1, <3>3 DEF Patient
    <3>4. QED  BY <3>2, <3>3
  <2>10. QED  BY <2>4, <2>5, <2>6, <2>7, <2>8, <2>9 DEF Patient
<1>16. AbortsExplained'
  BY <1>3, StillNo
<1>17. QED
  BY <1>3, <1>5, <1>6, <1>11, <1>12, <1>13, <1>14, <1>15, <1>16, <1>10, PartsNext DEF history

\* Sockets that are destroyed take their numbers with them, and no others.
LEMMA DestroyKeeps ==
  ASSUME IndInv, NEW S \in SUBSET Socks, Destroy(S), UNCHANGED at
  PROVE  /\ FilesOK' /\ ClientsOK' /\ OneOwner' /\ OpenSocks'
         /\ \A s \in Socks : m_sock'[s] = IF s \in S THEN Closed ELSE m_sock[s]
         /\ \A n \in open' : (\E s \in Socks \ S : m_sock'[s] = n /\ (s \in m_socks \/ Held(s))) \/ HandlerHas(n)
         /\ \A h \in Handlers : Alive(h) => fd[h] \in open'
         /\ \A c \in Conns : conn'[c] \in {"none", "backlog"} => conn[c] \in {"none", "backlog"}
<1> USE Parts, TaskFacts
<1>1. \A s \in Socks : m_sock'[s] = IF s \in S THEN Closed ELSE m_sock[s]
  BY DEF Destroy
<1>2. open' = open \ Destroyed(S) /\ m_datas' = m_datas \ Destroyed(S)
  BY DEF Destroy, Shut
<1>3. FilesOK'
  <2>1. m_sock' \in [Socks -> Numbers \cup {Closed}]
    BY DEF Destroy, FilesOK
  <2>2. watch' \in [Numbers -> Fibers \cup {Nobody}]
    BY DEF Destroy, Shut, FilesOK
  <2>3. QED  BY <1>2, <2>1, <2>2 DEF FilesOK
<1>4. ClientsOK'
  BY DEF Destroy, Shut, ClientsOK
<1>5. OneOwner'
  BY <1>1 DEF OneOwner
<1>6. OpenSocks'
  <2> SUFFICES ASSUME NEW s \in Socks, m_sock'[s] # Closed PROVE m_sock'[s] \in open'
    BY DEF OpenSocks
  <2>1. s \notin S /\ m_sock'[s] = m_sock[s] /\ m_sock[s] \in open
    BY <1>1 DEF OpenSocks
  <2>2. m_sock[s] \notin Destroyed(S)
    BY <1>1, <2>1 DEF Destroyed, OneOwner
  <2>3. QED  BY <1>2, <2>1, <2>2
<1>7. ASSUME NEW n \in open' 
      PROVE (\E s \in Socks \ S : m_sock'[s] = n /\ (s \in m_socks \/ Held(s))) \/ HandlerHas(n)
  <2>1. n \in open /\ n \in Numbers /\ n \notin Destroyed(S)
    BY <1>2 DEF FilesOK
  <2>2. CASE HandlerHas(n)
    BY <2>2
  <2>3. CASE ~HandlerHas(n)
    <3>1. PICK s \in Socks : m_sock[s] = n /\ (s \in m_socks \/ Held(s))
      BY <2>1, <2>3 DEF Owned
    <3>2. s \notin S
      BY <2>1, <3>1 DEF Destroyed
    <3>3. QED  BY <1>1, <3>1, <3>2
  <2>4. QED  BY <2>2, <2>3
<1>8. \A h \in Handlers : Alive(h) => fd[h] \in open'
  BY <1>2 DEF Connections, Destroyed
<1>9. \A c \in Conns : conn'[c] \in {"none", "backlog"} => conn[c] \in {"none", "backlog"}
  BY DEF Destroy, Shut
<1>10. QED
  BY <1>1, <1>3, <1>4, <1>5, <1>6, <1>7, <1>8, <1>9

LEMMA LoopEndsKeeps ==
  ASSUME IndInv, aborted = "no", NEW l \in Loops, LoopEnds(l)
  PROVE  IndInv'
<1> DEFINE S == LastHeld(l)
<1> USE Parts, TaskFacts
<1>1. pc[l] = "check" /\ Alive(l) /\ target[l] \in Socks /\ m_isStop
  BY MadeSocks DEF LoopEnds, At, Alive
<1>2. S \in SUBSET Socks /\ S \cap m_socks = {}
  BY <1>1 DEF LastHeld
<1>3. /\ Destroy(S) /\ pc' = [pc EXCEPT ![l] = "ended"]
      /\ UNCHANGED <<server, target, fd, ptr, left, cur, table, at, errors, verdict, history>>
  BY DEF LoopEnds, Goes
<1>4. /\ FilesOK' /\ ClientsOK' /\ OneOwner' /\ OpenSocks'
      /\ \A s \in Socks : m_sock'[s] = IF s \in S THEN Closed ELSE m_sock[s]
      /\ \A n \in open' : (\E s \in Socks \ S : m_sock'[s] = n /\ (s \in m_socks \/ Held(s))) \/ HandlerHas(n)
      /\ \A h \in Handlers : Alive(h) => fd[h] \in open'
      /\ \A c \in Conns : conn'[c] \in {"none", "backlog"} => conn[c] \in {"none", "backlog"}
  BY <1>2, <1>3, DestroyKeeps
<1>5. \A t \in Tasks : pc'[t] = IF t = l THEN "ended" ELSE pc[t]
  BY <1>3 DEF TasksOK
<1>6. /\ \A o \in Loops : Alive(o)' <=> Alive(o) /\ o # l
      /\ \A k \in StopTasks : pc'[k] = pc[k] /\ (Alive(k)' <=> Alive(k))
  BY <1>5 DEF Alive
<1>7. \A h \in Handlers : (Alive(h)' <=> Alive(h)) /\ fd'[h] = fd[h]
  BY <1>1, <1>3, <1>5 DEF Alive, TasksOK
<1>8. \A j : HandlerHas(j) => HandlerHas(j)'
  BY <1>7 DEF HandlerHas
<1>9. Connections'
  BY <1>4, <1>7, ConnectionsStay DEF Connections
<1>10. Owned'
  <2> SUFFICES ASSUME NEW n \in open', ~HandlerHas(n) PROVE \E s \in Socks : m_sock'[s] = n /\ (s \in m_socks' \/ Held(s)')
    BY <1>8 DEF Owned
  <2>1. PICK s \in Socks \ S : m_sock'[s] = n /\ (s \in m_socks \/ Held(s))
    BY <1>4
  <2>2. s \in m_socks \/ \E o \in Loops \ {l} : Alive(o) /\ target[o] = s
    <3>1. CASE s = target[l]
      BY <2>1, <3>1 DEF LastHeld
    <3>2. CASE s # target[l]
      BY <2>1, <3>2 DEF Held
    <3>3. QED  BY <3>1, <3>2
  <2>3. QED  BY <1>3, <1>6, <2>1, <2>2 DEF Held, server
<1>11. TasksOK'
  BY <1>3, <1>5 DEF TasksOK, LoopPcs
<1>12. ServerOK' /\ TableOK' /\ OthersOK' /\ TableCovers'
  BY <1>3 DEF ServerOK, TableOK, OthersOK, TableCovers, server, table, history, verdict
<1>13. Budget'
  <2>1. \A s \in Socks : s > made => m_sock'[s] = Closed
    BY <1>4 DEF Budget
  <2>2. (\A o \in Loops : o > posts => pc'[o] = "none") /\ (\A k \in StopTasks : k > MaxLoops + stops => pc'[k] = "none")
    BY <1>1, <1>5, <1>6 DEF Budget, Alive
  <2>3. QED  BY <1>3, <2>1, <2>2 DEF Budget, server
<1>14. LoopShape'
  BY <1>3, <1>5, <1>6 DEF LoopShape, server
<1>15. StopProgress'
  <2>1. \A k \in StopTasks : Inside(k)' <=> Inside(k)
    BY <1>6 DEF Inside
  <2>2. {s \in m_socks : m_sock'[s] # Closed} = {s \in m_socks : m_sock[s] # Closed} /\ m_socks' = m_socks
    BY <1>2, <1>3, <1>4 DEF ServerOK, server
  <2>3. (\A k \in StopTasks : ~Inside(k)') => \A s \in m_socks : m_sock'[s] # Closed
    BY <1>2, <1>4, <2>1 DEF StopProgress, ServerOK
  <2>4. QED  BY <1>3, <1>6, <2>1, <2>2, <2>3 DEF StopProgress
<1>16. Patient => Patient'
  <2> SUFFICES ASSUME Patient PROVE Patient'
    OBVIOUS
  <2>1. UNCHANGED <<m_isStop, owner, unposted, target, fd, reused>> /\ m_isStop
    BY <1>1, <1>3 DEF server, history
  <2>2. \A o \in Loops : Alive(o)' => Alive(o) /\ pc'[o] = pc[o]
    BY <1>5, <1>6
  <2>3. QED  BY <1>6, <1>7, <2>1, <2>2 DEF Patient
<1>17. AbortsExplained'
  BY <1>3, StillNo
<1>18. QED
  BY <1>3, <1>4, <1>10, <1>11, <1>12, <1>13, <1>14, <1>15, <1>16, <1>17, <1>9, PartsNext DEF history

-----------------------------------------------------------------------------
(* Peers, handlers and aborts.                                              *)

\* A step that touches only the peers.
LEMMA ClientStepsKeep ==
  ASSUME IndInv, aborted = "no", ClientsOK',
         \A c \in Conns : conn'[c] \in {"none", "backlog"} => conn[c] \in {"none", "backlog"},
         UNCHANGED <<server, tasks, table, files, errors, verdict, history>>
  PROVE  IndInv'
<1> USE Parts, TaskFacts
<1>1. ServerOK' /\ TasksOK' /\ TableOK' /\ FilesOK' /\ OthersOK' /\ TableCovers'
  BY DEF ServerOK, TasksOK, TableOK, FilesOK, OthersOK, TableCovers, server, tasks, table, files,
      history, verdict
<1>2. Owned' /\ OneOwner' /\ OpenSocks' /\ Budget' /\ LoopShape'
  <2>1. Owned' /\ OneOwner' /\ OpenSocks'
    BY DEF Owned, OneOwner, OpenSocks, Held, Alive, server, tasks, files, HandlerHas
  <2>2. Budget' /\ LoopShape'
    BY DEF Budget, LoopShape, Alive, server, tasks, files
  <2>3. QED  BY <2>1, <2>2
<1>3. Connections'
  BY ConnectionsStay DEF Connections, Alive, tasks, files
<1>4. StopProgress'
  BY DEF StopProgress, Inside, Alive, server, tasks, files
<1>5. Patient => Patient'
  BY DEF Patient, Alive, server, tasks, files, history
<1>6. AbortsExplained'
  BY StillNo
<1>7. QED
  BY <1>1, <1>2, <1>4, <1>5, <1>6, <1>3, PartsNext DEF history

LEMMA PeersKeep ==
  ASSUME IndInv, aborted = "no", NEW c \in Conns, PeerConnects(c)
  PROVE  IndInv'
<1>1. ClientsOK' /\ \A d \in Conns : conn'[d] \in {"none", "backlog"} => conn[d] \in {"none", "backlog"}
  <2>1. CASE \E n \in open : conn' = [conn EXCEPT ![c] = "backlog"] /\ at' = [at EXCEPT ![c] = n]
    BY <2>1, Parts DEF PeerConnects, ClientsOK, FilesOK
  <2>2. CASE conn' = [conn EXCEPT ![c] = "closed"] /\ UNCHANGED at
    BY <2>2, Parts DEF PeerConnects, ClientsOK
  <2>3. QED  BY <2>1, <2>2 DEF PeerConnects
<1>2. QED  BY <1>1, ClientStepsKeep DEF PeerConnects

\* An abort that is explained.
LEMMA AbortKeeps ==
  ASSUME IndInv, NEW why \in {"index", "assert", "race"}, NEW n \in Numbers \cup {Closed}, Abort(why, n),
         why = "race" => hasty,
         why = "assert" => hasty \/ (m_isStop /\ n \in reused),
         why = "index" => shrunk \/ n \notin waited
  PROVE  IndInv'
<1> USE Parts, TaskFacts
<1>1. UNCHANGED <<server, tasks, table, files, clients, errors, history>> /\ aborted' = why /\ abortedAt' = n
  BY DEF Abort
<1>2. ServerOK' /\ TasksOK' /\ TableOK' /\ FilesOK' /\ ClientsOK' /\ OthersOK' /\ TableCovers'
  BY <1>1 DEF ServerOK, TasksOK, TableOK, FilesOK, ClientsOK, OthersOK, TableCovers, server, tasks, table, files,
     clients, history
<1>3. Owned' /\ OneOwner' /\ OpenSocks' /\ Connections' /\ Budget' /\ LoopShape'
  <2>1. Owned' /\ OneOwner' /\ OpenSocks'
    BY <1>1 DEF Owned, OneOwner, OpenSocks, Held, HandlerHas, Alive, server, tasks, files
  <2>2. Budget' /\ LoopShape'
    BY <1>1 DEF Budget, LoopShape, Alive, server, tasks, files
  <2>3. Connections'
    BY <1>1, ConnectionsStay DEF Connections, Alive, tasks, files, clients
  <2>4. QED  BY <2>1, <2>2, <2>3
<1>4. StopProgress'
  BY <1>1 DEF StopProgress, Inside, Alive, server, tasks, files
<1>5. Patient => Patient'
  BY <1>1 DEF Patient, Alive, server, tasks, files, history
<1>6. AbortsExplained'
  <2>1. UNCHANGED <<hasty, shrunk, waited, m_isStop, reused>>
    BY <1>1 DEF table, history, server
  <2>2. aborted' = "race" => hasty'
    BY <1>1, <2>1
  <2>3. aborted' = "assert" => hasty' \/ (m_isStop' /\ abortedAt' \in reused')
    BY <1>1, <2>1
  <2>4. aborted' = "index" => shrunk' \/ abortedAt' \notin waited'
    BY <1>1, <2>1
  <2>5. QED  BY <2>2, <2>3, <2>4 DEF AbortsExplained
<1>7. QED
  BY <1>1, <1>2, <1>3, <1>4, <1>5, <1>6, PartsNext DEF history

\* A number beyond the table was not waited on, or the table was made smaller.
LEMMA BeyondKeeps ==
  ASSUME IndInv, NEW N \in SUBSET (Numbers \cup {Closed}), Beyond(N)
  PROVE  IndInv'
<1>1. PICK n \in N : n >= size /\ Abort("index", n)
  BY DEF Beyond
<1>2. size \in Nat /\ (shrunk \in BOOLEAN)
  BY Parts DEF TableOK
<1>3. n \in Numbers /\ n \in Nat
  BY <1>1, <1>2, TcpServerAssumption DEF Closed
<1>4. ~(n < size)
  BY <1>1, <1>2, <1>3
<1>5. shrunk \/ n \notin waited
  BY <1>4, Parts DEF TableCovers
<1>6. QED  BY <1>1, <1>3, <1>5, AbortKeeps

LEMMA SocketNumbers ==
  ASSUME IndInv, NEW S \in SUBSET Socks
  PROVE  Destroyed(S) \in SUBSET (Numbers \cup {Closed})
BY Parts DEF Destroyed, FilesOK

LEMMA StopCancelsBeyondKeeps ==
  ASSUME IndInv, NEW k \in StopTasks, StopCancelsBeyond(k)
  PROVE  IndInv'
<1> USE Parts, TaskFacts
<1>1. left[k] \subseteq Socks /\ left[k] \subseteq Nat /\ left[k] # {}
  BY DEF TasksOK, StopCancelsBeyond
<1>2. Min(left[k]) \in Socks
  BY <1>1, MinMember
<1>3. {m_sock[Min(left[k])]} \in SUBSET (Numbers \cup {Closed})
  <2>1. \A s \in Socks : m_sock[s] \in Numbers \cup {Closed}
    BY SMT DEF FilesOK
  <2>2. QED  BY <1>2, <2>1, Zenon
<1>4. QED  BY <1>3, BeyondKeeps DEF StopCancelsBeyond

LEMMA CloseBeyondKeeps ==
  ASSUME IndInv, NEW k \in StopTasks \cup Handlers, CloseBeyond(k)
  PROVE  IndInv'
<1> USE Parts, TaskFacts
<1>1. Number(k) \in Numbers \cup {Closed}
  <2>1. CASE k \in StopTasks
    <3>1. cur[k] \in Socks
      BY <2>1 DEF CloseBeyond, At, StopProgress, TasksOK
    <3>2. QED  BY <2>1, <3>1 DEF Number, FilesOK
  <2>2. CASE k \in Handlers
    BY <2>2 DEF Number, TasksOK
  <2>3. QED  BY <2>1, <2>2
<1>2. QED  BY <1>1, BeyondKeeps DEF CloseBeyond

LEMMA TimesOutBeyondKeeps ==
  ASSUME IndInv, NEW h \in Handlers, TimesOutBeyond(h)
  PROVE  IndInv'
<1>1. fd[h] \in Numbers \cup {Closed}
  BY Parts, TaskFacts DEF TasksOK
<1>2. QED  BY <1>1, BeyondKeeps DEF TimesOutBeyond

LEMMA LoopEndsBeyondKeeps ==
  ASSUME IndInv, NEW l \in Loops, LoopEndsBeyond(l)
  PROVE  IndInv'
<1>1. LastHeld(l) \in SUBSET Socks
  BY MadeSocks DEF LoopEndsBeyond, At, Alive, LastHeld
<1>2. QED  BY <1>1, SocketNumbers, BeyondKeeps DEF LoopEndsBeyond

LEMMA BindBeyondKeeps == ASSUME IndInv, BindBeyond PROVE IndInv'
<1>1. CASE Numbers \ open # {} /\ Beyond({NextNumber})
  <2>1. NextNumber \in Numbers
    BY <1>1, MinMember, TcpServerAssumption DEF NextNumber
  <2>2. QED  BY <1>1, <2>1, BeyondKeeps
<1>2. CASE Beyond(Destroyed(Dropped))
  <2>1. Dropped \in SUBSET Socks
    BY Parts DEF Dropped, ServerOK
  <2>2. QED  BY <1>2, <2>1, SocketNumbers, BeyondKeeps
<1>3. QED  BY <1>1, <1>2 DEF BindBeyond

LEMMA DestructBeyondKeeps == ASSUME IndInv, DestructBeyond PROVE IndInv'
<1>1. m_socks \in SUBSET Socks
  BY Parts DEF ServerOK
<1>2. QED  BY <1>1, SocketNumbers, BeyondKeeps DEF DestructBeyond

LEMMA StopRacesKeeps ==
  ASSUME IndInv, NEW k \in StopTasks, StopRaces(k)
  PROVE  IndInv'
<1>1. hasty
  <2> SUFFICES ASSUME Patient PROVE FALSE
    BY Parts
  <2>1. CASE At(k, "begin") /\ StopInside
    BY <2>1 DEF StopInside, Patient, At, Alive
  <2>2. CASE At(k, "next") /\ owner = "start"
    BY <2>2 DEF Patient, At, Alive
  <2>3. QED  BY <2>1, <2>2 DEF StopRaces
<1>2. QED  BY <1>1, AbortKeeps DEF StopRaces

LEMMA BindRacesKeeps == ASSUME IndInv, BindRaces PROVE IndInv'
<1>1. hasty
  BY Parts DEF BindRaces, StopInside, Patient
<1>2. QED  BY <1>1, AbortKeeps DEF BindRaces

\* The assertion of addEvent: of two fibers that wait on one number, one is a loop and
\* the other has a connection that was accepted under the loop.
LEMMA AssertFailsKeeps ==
  ASSUME IndInv, NEW f \in Fibers, AssertFails(f)
  PROVE  IndInv'
<1> USE Parts, TaskFacts
<1>1. PICK o \in Fibers : pc[o] = "waiting" /\ fd[o] = fd[f]
  BY DEF AssertFails, Occupied, Waiters
<1>2. pc[f] = "register" /\ Alive(f) /\ Alive(o) /\ o # f /\ fd[f] \in Numbers
  BY <1>1, FiberNumbers DEF AssertFails, At, Alive
<1>3. ASSUME Patient PROVE m_isStop /\ fd[f] \in reused
  <2>1. ASSUME NEW l \in Loops, NEW h \in Handlers, Alive(l), Alive(h), pc[l] # "check", fd[l] = fd[h]
        PROVE  m_isStop /\ fd[l] \in reused
    <3>1. fd[l] \in reused
      BY <1>3, <2>1 DEF Patient
    <3>2. ASSUME ~m_isStop PROVE FALSE
      <4>1. fd[l] = m_sock[target[l]] /\ target[l] \in Socks
        BY <1>3, <2>1, <3>2, MadeSocks DEF Patient
      <4>2. QED  BY <2>1, <4>1 DEF Connections
    <3>3. QED  BY <3>1, <3>2
  <2>2. CASE f \in Loops /\ o \in Loops
    BY <1>1, <1>2, <1>3, <2>2 DEF Patient
  <2>3. CASE f \in Handlers /\ o \in Handlers
    BY <1>1, <1>2, <2>3 DEF Connections
  <2>4. CASE f \in Loops /\ o \in Handlers
    BY <1>1, <1>2, <2>1, <2>4
  <2>5. CASE f \in Handlers /\ o \in Loops
    BY <1>1, <1>2, <2>1, <2>5
  <2>6. QED  BY <2>2, <2>3, <2>4, <2>5
<1>4. hasty \/ (m_isStop /\ fd[f] \in reused)
  BY <1>3
<1>5. Abort("assert", fd[f])
  BY DEF AssertFails
<1>6. QED  BY <1>2, <1>4, <1>5, AbortKeeps

-----------------------------------------------------------------------------
(* The owner.                                                               *)

\* A step of the owner that changes neither tasks nor sockets.
LEMMA OwnerSteps ==
  ASSUME IndInv, aborted = "no", ServerOK', Budget', (hasty \/ Patient)', hasty' \in BOOLEAN,
         UNCHANGED <<m_socks, made, tasks, table, files, clients, errors, verdict, late, forgotten, reused>>
  PROVE  IndInv'
<1> USE Parts, TaskFacts
<1>1. TasksOK' /\ TableOK' /\ FilesOK' /\ ClientsOK' /\ OthersOK' /\ TableCovers'
  BY DEF TasksOK, TableOK, FilesOK, ClientsOK, OthersOK, TableCovers, tasks, table, files, clients,
      history, verdict
<1>2. Owned' /\ OneOwner' /\ OpenSocks'
  BY DEF Owned, OneOwner, OpenSocks, Held, Alive, tasks, files, HandlerHas
<1>3. Connections'
  BY ConnectionsStay DEF Connections, Alive, tasks, files, clients
<1>4. LoopShape'
  BY DEF LoopShape, Alive, tasks
<1>5. StopProgress'
  BY DEF StopProgress, Inside, Alive, tasks, files
<1>6. AbortsExplained'
  BY StillNo
<1>7. QED
  BY <1>1, <1>2, <1>4, <1>5, <1>6, <1>3, PartsNext

\* A call is hasty or begins when nothing is under way.
LEMMA BindKeeps ==
  ASSUME IndInv, aborted = "no", NEW addrs \in 1..MaxSocks, NEW fresh \in BOOLEAN, Bind(addrs, fresh)
  PROVE  IndInv'
<1> USE Parts, TaskFacts
<1>1. ServerOK'
  <2>1. todo' \in 0..MaxSocks
    BY TcpServerAssumption DEF Bind
  <2>2. fails' \in BOOLEAN
    BY Zenon DEF Bind, Calls
  <2>3. QED  BY <2>1, <2>2 DEF Bind, ServerOK
<1>2. Budget'
  BY DEF Bind, Budget, tasks, files
<1>3. hasty' \in BOOLEAN /\ (hasty' <=> hasty \/ Unsettled)
  BY Zenon DEF Bind, Calls
<1>4. (hasty \/ Patient)'
  <2> SUFFICES ASSUME ~hasty, ~Unsettled, Patient PROVE Patient'
    BY <1>3
  <2>1. UNCHANGED <<pc, target, fd, m_sock, m_isStop, reused>> /\ owner' = "bind"
    BY DEF Bind, tasks, files
  <2>2. (\A k \in StopTasks : ~Alive(k)) /\ (m_isStop => \A l \in Loops : ~Alive(l))
    BY DEF Unsettled
  <2>3. QED  BY <2>1, <2>2 DEF Patient, Alive
<1>5. QED
  BY <1>1, <1>2, <1>3, <1>4, OwnerSteps DEF Bind

LEMMA BindFailsKeeps == ASSUME IndInv, aborted = "no", BindFails PROVE IndInv'
<1> USE Parts, TaskFacts
<1>1. ServerOK'
  <2>1. todo' \in 0..MaxSocks
    BY TcpServerAssumption DEF BindFails, ServerOK
  <2>2. fails' \in BOOLEAN
    BY Zenon DEF BindFails
  <2>3. QED  BY <2>1, <2>2 DEF BindFails, ServerOK
<1>2. Budget'
  <2>1. made' + todo' <= MaxSocks
    BY TcpServerAssumption DEF BindFails, Budget, ServerOK
  <2>2. QED  BY <2>1 DEF BindFails, Budget, tasks, files
<1>3. (hasty \/ Patient)' /\ hasty' \in BOOLEAN
  BY DEF BindFails, Patient, Alive, OthersOK, tasks, files, history, verdict
<1>4. QED
  BY <1>1, <1>2, <1>3, OwnerSteps DEF BindFails, history 

LEMMA StartKeeps == ASSUME IndInv, aborted = "no", Start PROVE IndInv'
<1> USE Parts, TaskFacts
<1>1. ServerOK'
  <2>1. m_isStop' \in BOOLEAN
    BY Zenon DEF Start, Calls
  <2>2. QED  BY <2>1 DEF Start, ServerOK
<1>2. Budget'
  BY DEF Start, Budget, tasks, files
<1>3. hasty' \in BOOLEAN /\ (hasty' <=> hasty \/ Unsettled)
  BY Zenon DEF Start, Calls
<1>4. (hasty \/ Patient)'
  <2> SUFFICES ASSUME ~hasty, ~Unsettled, Patient PROVE Patient'
    BY <1>3
  <2>1. UNCHANGED <<pc, target, fd, m_sock>> /\ m_isStop
    BY DEF Start, tasks, files
  <2>2. (\A k \in StopTasks : ~Alive(k)) /\ (\A l \in Loops : ~Alive(l))
    BY <2>1 DEF Unsettled
  <2>3. QED  BY <2>1, <2>2 DEF Patient, Alive
<1>5. QED
  BY <1>1, <1>2, <1>3, <1>4, OwnerSteps DEF Start

LEMMA StartEndsKeeps == ASSUME IndInv, aborted = "no", StartEnds PROVE IndInv'
<1> USE Parts, TaskFacts
<1>1. ServerOK' /\ Budget'
  BY DEF StartEnds, ServerOK, Budget, tasks, files
<1>2. (hasty \/ Patient)' /\ hasty' \in BOOLEAN
  BY DEF StartEnds, Patient, Alive, OthersOK, tasks, files, history, verdict
<1>3. QED
  BY <1>1, <1>2, OwnerSteps DEF StartEnds, history

\* A new socket gets a number that no socket has, and is not yet in any other hand.
LEMMA BindSucceedsKeeps == ASSUME IndInv, aborted = "no", BindSucceeds PROVE IndInv'
<1> DEFINE n == NextNumber
           x == made + 1
<1> USE Parts, TaskFacts, MadeSocks
<1>1. n \in Numbers /\ n \notin open
  <2>1. Numbers \ open \subseteq Nat /\ Numbers \ open # {}
    BY TcpServerAssumption DEF BindSucceeds
  <2>2. NextNumber \in Numbers \ open
    BY <2>1, MinMember DEF NextNumber
  <2>3. QED  BY <2>2
<1>2. x \in Socks /\ x \in Nat /\ x > made /\ made + 1 <= MaxSocks /\ todo' \in 0..MaxSocks /\ made' + todo' <= MaxSocks
  BY TcpServerAssumption DEF BindSucceeds, Socks, ServerOK, Budget
<1>3. m_sock[x] = Closed /\ x \notin m_socks
  BY <1>2 DEF Budget
<1>4. /\ made' = x /\ m_socks' = m_socks \cup {x} /\ m_sock' = [m_sock EXCEPT ![x] = n]
      /\ open' = open \cup {n} /\ m_datas' = m_datas \cup {n}
      /\ UNCHANGED <<m_isStop, fails, owner, unposted, posts, stops, tasks, table, watch, clients, errors, verdict, history>>
      /\ ~StopInside /\ owner = "bind"
  BY DEF BindSucceeds
<1> HIDE DEF n, x
<1>5. \A s \in Socks : m_sock'[s] = IF s = x THEN n ELSE m_sock[s]
  BY <1>2, <1>4 DEF FilesOK
<1>6. ServerOK'
  BY <1>2, <1>4, TcpServerAssumption DEF ServerOK, x
<1>7. TasksOK' /\ TableOK' /\ ClientsOK' /\ OthersOK' /\ TableCovers'
  BY <1>4 DEF TasksOK, TableOK, ClientsOK, OthersOK, TableCovers, tasks, table, clients, history, verdict
<1>8. FilesOK'
  BY <1>1, <1>2, <1>4 DEF FilesOK
<1>9. \A t \in Tasks : Alive(t)' <=> Alive(t)
  BY <1>4 DEF Alive, tasks
<1>10. \A h \in Handlers : (Alive(h)' <=> Alive(h)) /\ fd'[h] = fd[h]
  BY <1>4, <1>9 DEF tasks
<1>11. \A j : HandlerHas(j) => HandlerHas(j)'
  BY <1>10 DEF HandlerHas
<1>12. Connections'
  <2>1. \A s \in Socks, h \in Handlers : Alive(h)' => m_sock'[s] # fd'[h]
    <3> SUFFICES ASSUME NEW s \in Socks, NEW h \in Handlers, Alive(h) PROVE m_sock'[s] # fd[h]
      BY <1>10
    <3>1. fd[h] \in open /\ m_sock[s] # fd[h]
      BY DEF Connections
    <3>2. QED  BY <1>1, <1>5, <3>1
  <2>2. open \subseteq open' /\ conn' = conn
    BY <1>4 DEF clients
  <2>3. \A h \in Handlers : Alive(h)' => fd'[h] \in Numbers /\ fd'[h] \in open'
    BY <1>10, <2>2 DEF Connections
  <2>4. \A h, g \in Handlers : Alive(h)' /\ Alive(g)' /\ fd'[h] = fd'[g] => h = g
    BY <1>10 DEF Connections
  <2>5. \A c \in Conns : conn'[c] \in {"none", "backlog"} => ~Alive(HandlerOf(c))'
    BY <1>4, <2>2 DEF Connections, Alive, tasks
  <2>6. QED  BY <2>1, <2>3, <2>4, <2>5 DEF Connections
<1>13. Owned'
  <2> SUFFICES ASSUME NEW i \in open', ~HandlerHas(i) PROVE \E s \in Socks : m_sock'[s] = i /\ (s \in m_socks' \/ Held(s)')
    BY <1>11 DEF Owned
  <2>1. CASE i = n
    BY <1>2, <1>4, <1>5, <2>1
  <2>2. CASE i \in open
    <3>1. PICK s \in Socks : m_sock[s] = i /\ (s \in m_socks \/ Held(s))
      BY <2>2 DEF Owned
    <3>2. s # x
      BY <1>3, <2>2, <3>1 DEF FilesOK
    <3>3. Held(s) => Held(s)'
      BY <1>4, <1>9 DEF Held, tasks
    <3>4. QED  BY <1>4, <1>5, <3>1, <3>2, <3>3
  <2>3. QED  BY <1>4, <2>1, <2>2
<1>14. OneOwner' /\ OpenSocks'
  BY <1>1, <1>4, <1>5 DEF OneOwner, OpenSocks
<1>15. Budget'
  <2>1. m_socks' \subseteq 1..made'
    BY <1>2, <1>4 DEF Budget, x
  <2>2. \A s \in Socks : s > made' => m_sock'[s] = Closed
    BY <1>2, <1>4, <1>5 DEF Budget, x
  <2>3. QED  BY <1>2, <1>4, <2>1, <2>2 DEF Budget, tasks
<1>16. LoopShape'
  <2>1. \A l \in Loops : Alive(l) => target[l] \in 1..made'
    BY <1>4 DEF LoopShape, x
  <2>2. QED  BY <1>4, <1>9, <2>1 DEF LoopShape, tasks
<1>17. StopProgress'
  <2>1. (\A k \in StopTasks : ~Inside(k)) /\ (\A k \in StopTasks : ~Inside(k)')
    BY <1>4 DEF StopInside, Inside, Alive, tasks
  <2>2. \A k \in StopTasks : pc'[k] \notin {"close", "del", "sys"}
    BY <2>1 DEF Inside, Alive
  <2>3. \A s \in m_socks' : m_sock'[s] # Closed
    <3>1. \A s \in m_socks : s \in Socks /\ m_sock[s] # Closed
      BY <2>1 DEF StopProgress, ServerOK
    <3>2. n # Closed
      BY <1>1
    <3>3. QED  BY <1>2, <1>4, <1>5, <3>1, <3>2
  <2>4. QED  BY <2>1, <2>2, <2>3 DEF StopProgress
<1>18. Patient => Patient'
  <2> SUFFICES ASSUME Patient PROVE Patient'
    OBVIOUS
  <2>1. UNCHANGED <<pc, target, fd, m_isStop, owner, unposted, reused>>
    BY <1>4 DEF tasks, history
  <2>2. \A l \in Loops : Alive(l) => target[l] # x /\ target[l] \in Socks
    BY DEF x
  <2>3. \A l \in Loops : Alive(l) => m_sock'[target[l]] = m_sock[target[l]]
    BY <1>5, <2>2
  <2>4. QED  BY <1>9, <2>1, <2>3 DEF Patient
<1>19. AbortsExplained'
  BY <1>4, StillNo
<1>20. QED
  BY <1>4, <1>6, <1>7, <1>8, <1>13, <1>14, <1>15, <1>16, <1>17, <1>18, <1>19, <1>12, PartsNext DEF history

\* A failing bind() drops the sockets that no loop holds, and closes them.
LEMMA BindEndsKeeps == ASSUME IndInv, aborted = "no", BindEnds PROVE IndInv'
<1> DEFINE S == Dropped
<1> USE Parts, TaskFacts
<1>1. S \in SUBSET Socks /\ (\A s \in S : s \in m_socks /\ ~Held(s)) /\ (~fails => S = {})
  BY DEF Dropped, ServerOK
<1>2. fails => \A s \in m_socks : s \in S \/ Held(s)
  BY DEF Dropped
<1>3. /\ owner = "bind" /\ owner' = "idle" /\ m_socks' = (IF fails THEN {} ELSE m_socks) /\ Destroy(S)
      /\ ~(fails /\ StopInside)
      /\ forgotten' = (IF fails THEN forgotten \cup (m_socks \ S) ELSE forgotten)
      /\ UNCHANGED <<m_isStop, fails, todo, unposted, made, posts, stops, tasks, table, at, errors, verdict, hasty, late, reused>>
  BY DEF BindEnds
<1> HIDE DEF S
<1>4. /\ FilesOK' /\ ClientsOK' /\ OneOwner' /\ OpenSocks'
      /\ \A s \in Socks : m_sock'[s] = IF s \in S THEN Closed ELSE m_sock[s]
      /\ \A n \in open' : (\E s \in Socks \ S : m_sock'[s] = n /\ (s \in m_socks \/ Held(s))) \/ HandlerHas(n)
      /\ \A h \in Handlers : Alive(h) => fd[h] \in open'
      /\ \A c \in Conns : conn'[c] \in {"none", "backlog"} => conn[c] \in {"none", "backlog"}
  BY <1>1, <1>3, DestroyKeeps
<1>5. ServerOK' /\ TasksOK' /\ TableOK' /\ OthersOK' /\ TableCovers'
  BY <1>3 DEF ServerOK, TasksOK, TableOK, OthersOK, TableCovers, tasks, table, history, verdict
<1>6. UNCHANGED <<pc, target, fd, left, cur>>
  BY <1>3 DEF tasks
<1>7. \A h \in Handlers : (Alive(h)' <=> Alive(h)) /\ fd'[h] = fd[h]
  BY <1>6 DEF Alive
<1>8. \A j : HandlerHas(j) => HandlerHas(j)'
  BY <1>7 DEF HandlerHas
<1>9. Connections'
  BY <1>4, <1>7, ConnectionsStay DEF Connections
<1>10. Owned'
  <2> SUFFICES ASSUME NEW n \in open', ~HandlerHas(n) PROVE \E s \in Socks : m_sock'[s] = n /\ (s \in m_socks' \/ Held(s)')
    BY <1>8 DEF Owned
  <2>1. PICK s \in Socks \ S : m_sock'[s] = n /\ (s \in m_socks \/ Held(s))
    BY <1>4
  <2>2. Held(s) => Held(s)'
    BY <1>6 DEF Held, Alive
  <2>3. QED  BY <1>2, <1>3, <2>1, <2>2
<1>11. Budget'
  <2>1. \A s \in Socks : s > made => m_sock'[s] = Closed
    BY <1>4 DEF Budget
  <2>2. QED  BY <1>3, <1>6, <2>1 DEF Budget
<1>12. LoopShape'
  BY <1>3, <1>6 DEF LoopShape, Alive
<1>13. StopProgress'
  <2>1. \A k \in StopTasks : (Inside(k)' <=> Inside(k)) /\ (pc[k] \in {"close", "del", "sys"} => Inside(k))
    BY <1>6 DEF Inside, Alive
  <2>2. CASE fails
    <3>1. \A k \in StopTasks : ~Inside(k)
      BY <1>3, <2>2 DEF StopInside, Inside
    <3>2. QED  BY <1>3, <1>6, <2>1, <2>2, <3>1 DEF StopProgress
  <2>3. CASE ~fails
    <3>1. m_socks' = m_socks /\ \A s \in m_socks : m_sock'[s] = m_sock[s]
      BY <1>1, <1>3, <1>4, <2>3 DEF ServerOK
    <3>2. {s \in m_socks' : m_sock'[s] # Closed} = {s \in m_socks : m_sock[s] # Closed}
      BY <3>1
    <3>3. QED  BY <1>6, <2>1, <3>1, <3>2 DEF StopProgress
  <2>4. QED  BY <2>2, <2>3
<1>14. Patient => Patient'
  <2> SUFFICES ASSUME Patient PROVE Patient'
    OBVIOUS
  <2>1. \A l \in Loops : Alive(l) => m_sock'[target[l]] = m_sock[target[l]]
    BY <1>1, <1>4, MadeSocks DEF Held
  <2>2. UNCHANGED m_isStop
    BY <1>3
  <2>3. QED  BY <1>3, <1>6, <2>1, <2>2 DEF Patient, Alive
<1>15. AbortsExplained'
  BY <1>3, StillNo
<1>16. QED
  BY <1>3, <1>4, <1>5, <1>10, <1>11, <1>12, <1>13, <1>14, <1>15, <1>9, PartsNext

LEMMA DestructKeeps == ASSUME IndInv, aborted = "no", Destruct PROVE IndInv'
<1> USE Parts, TaskFacts
<1>1. \A t \in Tasks : ~Alive(t)
  BY DEF Destruct, Released
<1>2. /\ owner' = "gone" /\ m_socks' = {} /\ Destroy(m_socks)
      /\ UNCHANGED <<m_isStop, fails, todo, unposted, made, posts, stops, tasks, table, at, errors, verdict, history>>
  BY DEF Destruct
<1>3. m_socks \in SUBSET Socks
  BY DEF ServerOK
<1>4. /\ FilesOK' /\ ClientsOK' /\ OneOwner' /\ OpenSocks'
      /\ \A s \in Socks : m_sock'[s] = IF s \in m_socks THEN Closed ELSE m_sock[s]
      /\ \A n \in open' : (\E s \in Socks \ m_socks : m_sock'[s] = n /\ (s \in m_socks \/ Held(s))) \/ HandlerHas(n)
      /\ \A h \in Handlers : Alive(h) => fd[h] \in open'
      /\ \A c \in Conns : conn'[c] \in {"none", "backlog"} => conn[c] \in {"none", "backlog"}
  BY <1>2, <1>3, DestroyKeeps
<1>5. ServerOK' /\ TasksOK' /\ TableOK' /\ OthersOK' /\ TableCovers'
  BY <1>2 DEF ServerOK, TasksOK, TableOK, OthersOK, TableCovers, tasks, table, history, verdict
<1>6. UNCHANGED <<pc, target, fd, left, cur>> /\ \A t \in Tasks : ~Alive(t)'
  BY <1>1, <1>2 DEF tasks, Alive
<1>7. \A h \in Handlers : (Alive(h)' <=> Alive(h)) /\ fd'[h] = fd[h]
  BY <1>1, <1>6 DEF TasksOK
<1>8. \A j : HandlerHas(j) => HandlerHas(j)'
  BY <1>7 DEF HandlerHas
<1>9. Connections'
  BY <1>4, <1>7, ConnectionsStay DEF Connections
<1>10. Owned'
  BY <1>1, <1>4, <1>8 DEF Owned, Held, HandlerHas
<1>11. Budget'
  <2>1. \A s \in Socks : s > made => m_sock'[s] = Closed
    BY <1>4 DEF Budget
  <2>2. QED  BY <1>2, <1>6, <2>1 DEF Budget
<1>12. LoopShape' /\ StopProgress'
  BY <1>2, <1>6 DEF LoopShape, StopProgress, Inside, Alive
<1>13. Patient'
  BY <1>6 DEF Patient
<1>14. AbortsExplained'
  BY <1>2, StillNo
<1>15. QED
  BY <1>4, <1>5, <1>10, <1>11, <1>12, <1>13, <1>14, <1>9, PartsNext

\* start() posts a loop for a socket that is open and has none.
LEMMA StartPostsKeeps == ASSUME IndInv, aborted = "no", StartPosts PROVE IndInv'
<1> DEFINE l == posts + 1
           s == Min(unposted)
<1> USE Parts, TaskFacts
<1>1. s \in unposted /\ s \in Socks /\ unposted \subseteq Socks
  BY MinMember DEF StartPosts, ServerOK
<1>2. /\ owner = "start" /\ unposted' = unposted \ {s} /\ posts' = l
      /\ target' = [target EXCEPT ![l] = s] /\ pc' = [pc EXCEPT ![l] = "check"]
      /\ UNCHANGED <<m_isStop, m_socks, fails, owner, todo, made, stops, fd, ptr, left, cur, table, files,
                     clients, errors, verdict, history>>
  BY DEF StartPosts
<1>3. posts \in Nat /\ MaxLoops \in Nat
  BY TcpServerAssumption DEF ServerOK
<1> HIDE DEF s
<1>4. /\ IsFiniteSet(unposted) /\ Cardinality(unposted) \in Nat /\ Cardinality(unposted') \in Nat
      /\ Cardinality(unposted') = Cardinality(unposted) - 1
  <2>1. IsFiniteSet(unposted)
    BY <1>1, FS_Subset
  <2>2. QED  BY <1>1, <1>2, <2>1, FS_RemoveElement, FS_CardinalityType
<1>5. posts + Cardinality(unposted) <= MaxLoops /\ unposted \subseteq m_socks
  BY <1>2 DEF Budget
<1>6. l \in 1..MaxLoops /\ l \in Loops /\ l > posts /\ posts' + Cardinality(unposted') <= MaxLoops
  BY <1>2, <1>3, <1>4, <1>5 DEF Loops
<1>7. pc[l] = "none" /\ ~Alive(l)
  BY <1>6 DEF Budget, Alive
<1> HIDE DEF l
<1>8. \A t \in Tasks : pc'[t] = IF t = l THEN "check" ELSE pc[t]
  BY <1>2, <1>6 DEF TasksOK
<1>9. \A o \in Loops : target'[o] = IF o = l THEN s ELSE target[o]
  BY <1>2, <1>6 DEF TasksOK
<1>10. /\ \A o \in Loops : Alive(o)' <=> Alive(o) \/ o = l
       /\ \A k \in StopTasks : pc'[k] = pc[k] /\ (Alive(k)' <=> Alive(k))
  BY <1>6, <1>8 DEF Alive
<1>11. ServerOK'
  <2>1. posts' \in 0..MaxLoops
    BY <1>2, <1>3, <1>6
  <2>2. QED  BY <1>2, <2>1 DEF ServerOK
<1>12. TasksOK'
  BY <1>1, <1>2, <1>6, <1>8 DEF TasksOK, LoopPcs
<1>13. TableOK' /\ FilesOK' /\ ClientsOK' /\ OthersOK' /\ TableCovers'
  BY <1>2 DEF TableOK, FilesOK, ClientsOK, OthersOK, TableCovers, table, files, clients, history, verdict
<1>14. \A h \in Handlers : (Alive(h)' <=> Alive(h)) /\ fd'[h] = fd[h]
  BY <1>2, <1>6, <1>8 DEF Alive
<1>15. \A j : HandlerHas(j) => HandlerHas(j)'
  BY <1>14 DEF HandlerHas
<1>16. Connections'
  BY <1>2, <1>14, ConnectionsStay DEF files, clients, Connections
<1>17. Owned'
  <2> SUFFICES ASSUME NEW n \in open', ~HandlerHas(n) PROVE \E r \in Socks : m_sock'[r] = n /\ (r \in m_socks' \/ Held(r)')
    BY <1>15 DEF Owned
  <2>1. PICK r \in Socks : m_sock[r] = n /\ (r \in m_socks \/ Held(r))
    BY <1>2 DEF Owned, files
  <2>2. Held(r) => Held(r)'
    BY <1>7, <1>9, <1>10 DEF Held
  <2>3. QED  BY <1>2, <2>1, <2>2 DEF files
<1>18. OneOwner' /\ OpenSocks'
  BY <1>2 DEF OneOwner, OpenSocks, files
<1>19. Budget'
  <2>1. \A o \in Loops : o > posts' => pc'[o] = "none"
    BY <1>2, <1>3, <1>8 DEF Budget, l
  <2>2. QED  BY <1>2, <1>5, <1>6, <1>10, <2>1 DEF Budget, files
<1>20. LoopShape'
  <2>1. s \in 1..made
    BY <1>1, <1>5 DEF Budget
  <2>2. QED  BY <1>2, <1>8, <1>9, <1>10, <2>1 DEF LoopShape
<1>21. StopProgress'
  <2>1. \A k \in StopTasks : Inside(k)' <=> Inside(k)
    BY <1>10 DEF Inside
  <2>2. QED  BY <1>2, <1>10, <2>1 DEF StopProgress, files
<1>22. Patient => Patient'
  <2> SUFFICES ASSUME Patient PROVE Patient'
    OBVIOUS
  <2>1. UNCHANGED <<m_isStop, owner, fd, m_sock>>
    BY <1>2 DEF files
  <2>2. \A k \in StopTasks : ~Alive(k) /\ ~Alive(k)' /\ ~Inside(k)
    BY <1>2, <1>10 DEF Patient, Inside
  <2>3. m_sock[s] # Closed
    BY <1>1, <1>5, <2>2 DEF StopProgress
  <2>4. \A o \in Loops : Alive(o)' => ~(owner' = "start" /\ target'[o] \in unposted')
    BY <1>2, <1>9, <1>10, <2>1 DEF Patient
  <2>5. \A o, u \in Loops : Alive(o)' /\ Alive(u)' /\ target'[o] = target'[u] => o = u
    BY <1>1, <1>2, <1>9, <1>10 DEF Patient
  <2>6. \A o \in Loops :
         Alive(o)' /\ ~m_isStop' =>
           m_sock'[target'[o]] # Closed /\ (pc'[o] # "check" => fd'[o] = m_sock'[target'[o]])
    BY <1>7, <1>8, <1>9, <1>10, <2>1, <2>3 DEF Patient
  <2>7. \A o, u \in Loops :
         Alive(o)' /\ Alive(u)' /\ pc'[o] # "check" /\ pc'[u] # "check" /\ fd'[o] = fd'[u] => o = u
    BY <1>8, <1>10, <2>1 DEF Patient
  <2>8. \A o \in Loops, h \in Handlers :
         Alive(o)' /\ pc'[o] # "check" /\ Alive(h)' /\ fd'[o] = fd'[h] => fd'[o] \in reused'
    <3>1. reused' = reused /\ \A o \in Loops : Alive(o)' /\ pc'[o] # "check" => Alive(o) /\ pc[o] # "check"
      BY <1>2, <1>8, <1>10 DEF history
    <3>2. QED  BY <1>14, <2>1, <3>1 DEF Patient
  <2>9. QED  BY <1>2, <2>1, <2>2, <2>4, <2>5, <2>6, <2>7, <2>8 DEF Patient
<1>23. AbortsExplained'
  BY <1>2, StillNo
<1>24. QED
  BY <1>2, <1>11, <1>12, <1>13, <1>17, <1>18, <1>19, <1>20, <1>21, <1>22, <1>23, <1>16, PartsNext DEF history

LEMMA StopKeeps == ASSUME IndInv, aborted = "no", Stop PROVE IndInv'
<1> DEFINE k == MaxLoops + stops + 1
<1> USE Parts, TaskFacts
<1>1. k \in StopTasks /\ k > MaxLoops + stops /\ stops + 1 \in 0..MaxStops /\ stops \in Nat
  BY TcpServerAssumption DEF Stop, Calls, StopTasks, ServerOK
<1>2. pc[k] = "none" /\ ~Alive(k)
  BY <1>1 DEF Budget, Alive
<1>3. /\ owner = "idle" /\ m_isStop' = TRUE /\ stops' = stops + 1 /\ pc' = [pc EXCEPT ![k] = "begin"]
      /\ UNCHANGED <<m_socks, fails, owner, todo, unposted, made, posts, target, fd, ptr, left, cur, table,
                     files, clients, errors, verdict, late, forgotten, reused>>
  BY DEF Stop, Calls
<1>4. hasty' \in BOOLEAN /\ (hasty' <=> hasty \/ Unsettled)
  BY Zenon DEF Stop, Calls
<1>5. k = MaxLoops + stops + 1
  OBVIOUS
<1> HIDE DEF k
<1>6. \A t \in Tasks : pc'[t] = IF t = k THEN "begin" ELSE pc[t]
  BY <1>1, <1>3 DEF TasksOK
<1>7. /\ \A l \in Loops : pc'[l] = pc[l] /\ (Alive(l)' <=> Alive(l))
      /\ \A j \in StopTasks : (Alive(j)' <=> Alive(j) \/ j = k) /\ (Inside(j)' <=> Inside(j))
  BY <1>1, <1>2, <1>6 DEF Alive, Inside
<1>8. ServerOK'
  <2>1. m_isStop' \in BOOLEAN
    BY <1>3, Zenon
  <2>2. QED  BY <1>1, <1>3, <2>1 DEF ServerOK
<1>9. TasksOK'
  BY <1>1, <1>3, <1>6 DEF TasksOK, StopPcs
<1>10. TableOK' /\ FilesOK' /\ ClientsOK' /\ OthersOK' /\ TableCovers'
  BY <1>3, <1>4 DEF TableOK, FilesOK, ClientsOK, OthersOK, TableCovers, table, files, clients, history, verdict
<1>11. \A h \in Handlers : (Alive(h)' <=> Alive(h)) /\ fd'[h] = fd[h]
  BY <1>1, <1>3, <1>6 DEF Alive
<1>12. \A j : HandlerHas(j) => HandlerHas(j)'
  BY <1>11 DEF HandlerHas
<1>13. Connections'
  <2>1. m_sock' = m_sock /\ open' = open /\ conn' = conn
    BY <1>3, Zenon DEF files, clients
  <2>2. \A h \in Handlers : Alive(h)' => fd[h] \in open'
    BY <1>11, <2>1, Zenon DEF Connections
  <2>3. QED  BY <1>11, <2>1, <2>2, ConnectionsStay
<1>14. Owned' /\ OneOwner' /\ OpenSocks'
  BY <1>3, <1>7, <1>12 DEF Owned, OneOwner, OpenSocks, Held, files, HandlerHas
<1>15. Budget'
  <2>1. \A j \in StopTasks : j > MaxLoops + stops' => pc'[j] = "none"
    BY <1>1, <1>3, <1>5, <1>6, TcpServerAssumption DEF Budget, StopTasks
  <2>2. QED  BY <1>3, <1>7, <2>1 DEF Budget, files
<1>16. LoopShape'
  BY <1>3, <1>7 DEF LoopShape
<1>17. StopProgress'
  <2>1. \A j \in StopTasks : pc'[j] \in {"close", "del", "sys"} => pc[j] = pc'[j]
    BY <1>6
  <2>2. QED  BY <1>3, <1>7, <2>1 DEF StopProgress, files
<1>18. (hasty \/ Patient)'
  <2> SUFFICES ASSUME ~hasty, ~Unsettled, Patient PROVE Patient'
    BY <1>4
  <2>1. \A j \in StopTasks : ~Alive(j)
    BY DEF Unsettled
  <2>2. UNCHANGED <<fd, target, unposted, owner, m_sock, reused>> /\ m_isStop'
    BY <1>3 DEF files
  <2>3. QED  BY <1>3, <1>7, <1>11, <2>1, <2>2 DEF Patient
<1>19. AbortsExplained'
  BY <1>3, StillNo
<1>20. QED
  BY <1>8, <1>9, <1>10, <1>14, <1>15, <1>16, <1>17, <1>18, <1>19, <1>13, PartsNext

-----------------------------------------------------------------------------
(* The task of stop().                                                      *)

\* A step of a stop task that leaves the sockets and the loops alone.
LEMMA StopTaskMoves ==
  ASSUME IndInv, NEW k \in StopTasks, NEW place \in StopPcs \ {"none"}, Alive(k), pc' = [pc EXCEPT ![k] = place],
         UNCHANGED <<m_isStop, owner, todo, unposted, made, posts, stops, m_socks, target, fd, m_sock, open, conn, hasty,
                   reused>>
  PROVE  /\ Owned' /\ OneOwner' /\ OpenSocks' /\ Connections' /\ Budget' /\ LoopShape' /\ (hasty \/ Patient)'
         /\ PcOK'
         /\ \A j \in StopTasks : pc'[j] = IF j = k THEN place ELSE pc[j]
<1> USE Parts, TaskFacts
<1>1. \A t \in Tasks : pc'[t] = IF t = k THEN place ELSE pc[t]
  BY DEF TasksOK, PcOK
<1>2. (\A l \in Loops : pc'[l] = pc[l]) /\ (\A h \in Handlers : pc'[h] = pc[h])
  BY <1>1
<1>3. \A j \in StopTasks : pc'[j] = IF j = k THEN place ELSE pc[j]
  BY <1>1
<1>4. Moves
  BY <1>2, <1>3 DEF Moves, Alive, LoopShape
<1>5. /\ PcOK'
  BY <1>2, <1>3 DEF TasksOK, PcOK
<1>6. QED  BY <1>3, <1>4, <1>5, MovesKeep

LEMMA StopBeginsKeeps ==
  ASSUME IndInv, aborted = "no", NEW k \in StopTasks, StopBegins(k)
  PROVE  IndInv'
<1> USE Parts, TaskFacts
<1>1. /\ pc[k] = "begin" /\ Alive(k) /\ ~StopInside /\ pc' = [pc EXCEPT ![k] = "next"] /\ left' = [left EXCEPT ![k] = m_socks]
      /\ UNCHANGED <<server, target, fd, ptr, cur, table, files, clients, errors, verdict, history>>
  BY DEF StopBegins, At, Goes, Alive
<1>2. /\ Owned' /\ OneOwner' /\ OpenSocks' /\ Connections' /\ Budget' /\ LoopShape' /\ (hasty \/ Patient)'
      /\ PcOK'
      /\ \A j \in StopTasks : pc'[j] = IF j = k THEN "next" ELSE pc[j]
  <2>1. "next" \in StopPcs \ {"none"}
    BY DEF StopPcs
  <2>2. UNCHANGED <<m_isStop, owner, todo, unposted, made, posts, stops, m_socks, target, fd, m_sock, open, conn,
                    hasty, reused>>
    BY <1>1 DEF server, files, clients, history
  <2>3. QED  BY <1>1, <2>1, <2>2, StopTaskMoves
<1>3. left' \in [StopTasks -> SUBSET Socks] /\ left'[k] = m_socks
  BY <1>1 DEF TasksOK, ServerOK, PcOK
<1>4. TasksOK'
  BY <1>1, <1>2, <1>3 DEF TasksOK, PcOK
<1>5. ServerOK' /\ TableOK' /\ FilesOK' /\ ClientsOK' /\ OthersOK' /\ TableCovers'
  BY <1>1 DEF ServerOK, TableOK, FilesOK, ClientsOK, OthersOK, TableCovers, server, table, files, clients,
      history, verdict
<1>6. StopProgress'
  <2>1. \A j \in StopTasks : ~Inside(j) /\ pc[j] \notin {"close", "del", "sys"}
    BY <1>1 DEF StopInside, Inside, Alive
  <2>2. \A j \in StopTasks : (Inside(j)' <=> j = k) /\ pc'[j] \notin {"close", "del", "sys"}
    BY <1>2, <2>1 DEF Inside, Alive
  <2>3. m_socks' = m_socks /\ m_sock' = m_sock /\ m_socks = {s \in m_socks : m_sock[s] # Closed}
    BY <1>1, <2>1 DEF StopProgress, server, files
  <2>4. QED  BY <1>3, <2>2, <2>3 DEF StopProgress
<1>7. AbortsExplained'
  BY <1>1, StillNo
<1>8. QED
  BY <1>2, <1>4, <1>5, <1>6, <1>7, PartsNext

\* A cancelAll or cancelEvent wakes fibers that wait, and the task goes on.
LEMMA CancelAllMoves ==
  ASSUME IndInv, NEW k \in StopTasks \cup Handlers, NEW n \in Numbers, NEW place, CancelAll(k, n, place),
         k \in StopTasks => Inside(k) /\ place \in {"close", "del"},
         k \in Handlers => Alive(k) /\ place \in {"waiting", "del"}
  PROVE  /\ Owned' /\ OneOwner' /\ OpenSocks' /\ Connections' /\ Budget' /\ LoopShape'
         /\ (hasty \/ Patient)' /\ PcOK'
         /\ ServerOK' /\ TableOK' /\ FilesOK' /\ ClientsOK' /\ OthersOK' /\ TableCovers'
         /\ UNCHANGED <<server, target, fd, ptr, left, m_sock, verdict>>
         /\ \A j \in StopTasks : pc'[j] = IF j = k THEN place ELSE pc[j]
<1> USE Parts, TaskFacts
<1>1. /\ pc' = [t \in Tasks |-> IF t \in Cancelled(n) THEN Retries(t) ELSE IF t = k THEN place ELSE pc[t]]
      /\ watch' = [watch EXCEPT ![n] = IF Cancelled(n) # {} THEN Nobody ELSE @]
      /\ UNCHANGED <<server, target, fd, ptr, left, table, m_sock, open, m_datas, clients, errors, verdict, history>>
  BY DEF CancelAll
<1>2. \A f \in Cancelled(n) : f \in Fibers /\ pc[f] = "waiting"
  BY DEF Cancelled, Found, Waiters
<1>3. \A l \in Loops : pc'[l] = IF l \in Cancelled(n) THEN "try" ELSE pc[l]
  BY <1>1 DEF Retries
<1>4. \A j \in StopTasks : pc'[j] = IF j = k THEN place ELSE pc[j]
  BY <1>1, <1>2
<1>5. \A h \in Handlers : pc'[h] = IF h \in Cancelled(n) THEN "run" ELSE IF h = k THEN place ELSE pc[h]
  BY <1>1 DEF Retries
<1>6. Moves
  <2>1. UNCHANGED <<m_isStop, owner, todo, unposted, made, posts, stops, m_socks, target, fd, m_sock, open, conn,
                    hasty, reused>>
    BY <1>1 DEF server, clients, history
  <2>2. \A l \in Loops :
       /\ Alive(l)' <=> Alive(l)
       /\ pc[l] = "none" => pc'[l] = "none"
       /\ pc[l] = "check" => pc'[l] = "check"
       /\ pc'[l] \in {"try", "add", "grow", "register", "waiting"} => fd[l] \in Numbers
    BY <1>2, <1>3 DEF Alive, LoopShape
  <2>3. \A j \in StopTasks : (Alive(j)' => Alive(j)) /\ (pc[j] = "none" => pc'[j] = "none")
    BY <1>4 DEF Alive, Inside
  <2>4. \A h \in Handlers : Alive(h)' <=> Alive(h)
    BY <1>2, <1>5 DEF Alive
  <2>5. QED  BY <2>1, <2>2, <2>3, <2>4 DEF Moves
<1>7. PcOK'
  <2>1. /\ \A l \in Loops : pc'[l] \in LoopPcs
        /\ \A j \in StopTasks : pc'[j] \in StopPcs
        /\ \A h \in Handlers : pc'[h] \in HandlerPcs
    BY <1>3, <1>4, <1>5 DEF TasksOK, LoopPcs, StopPcs, HandlerPcs
  <2>2. pc' \in [Tasks -> LoopPcs \cup StopPcs \cup HandlerPcs]
    BY <1>1, <2>1
  <2>3. QED  BY <2>1, <2>2 DEF PcOK
<1>8. ServerOK' /\ TableOK' /\ ClientsOK' /\ OthersOK' /\ TableCovers'
  BY <1>1 DEF ServerOK, TableOK, ClientsOK, OthersOK, TableCovers, server, table, clients, history, verdict
<1>9. FilesOK'
  BY <1>1 DEF FilesOK
<1>10. QED
  BY <1>1, <1>4, <1>6, <1>7, <1>8, <1>9, MovesKeep

LEMMA CancelAllKeeps ==
  ASSUME IndInv, aborted = "no", NEW k \in StopTasks, NEW n \in Numbers, NEW place \in {"close", "del"},
         Inside(k), CancelAll(k, n, place), NEW s \in left[k], cur' = [cur EXCEPT ![k] = s]
  PROVE  IndInv'
<1> USE Parts, TaskFacts
<1>1. /\ Owned' /\ OneOwner' /\ OpenSocks' /\ Connections' /\ Budget' /\ LoopShape'
      /\ (hasty \/ Patient)' /\ PcOK'
      /\ ServerOK' /\ TableOK' /\ FilesOK' /\ ClientsOK' /\ OthersOK' /\ TableCovers'
      /\ UNCHANGED <<server, target, fd, ptr, left, m_sock, verdict>>
      /\ \A j \in StopTasks : pc'[j] = IF j = k THEN place ELSE pc[j]
  BY CancelAllMoves
<1>2. TasksOK'
  <2>1. cur' \in [StopTasks -> Socks \cup {Nobody}]
    BY DEF TasksOK
  <2>2. QED  BY <1>1, <2>1 DEF TasksOK, PcOK
<1>3. StopProgress'
  <2>1. \A j \in StopTasks : Inside(j)' <=> Inside(j)
    BY <1>1 DEF Inside, Alive
  <2>2. \A j \in StopTasks \ {k} : cur'[j] = cur[j] /\ pc'[j] = pc[j]
    BY <1>1 DEF TasksOK
  <2>3. cur'[k] = s
    BY DEF TasksOK
  <2>4. \A j \in StopTasks : pc'[j] \in {"close", "del", "sys"} => cur'[j] \in left'[j]
    BY <1>1, <2>2, <2>3 DEF StopProgress
  <2>5. QED  BY <1>1, <2>1, <2>4 DEF StopProgress, server
<1>4. AbortsExplained'
  BY <1>1, StillNo
<1>5. QED
  BY <1>1, <1>2, <1>3, <1>4, PartsNext

LEMMA HandlerCancelKeeps ==
  ASSUME IndInv, aborted = "no", NEW h \in Handlers, NEW n \in Numbers, NEW place \in {"waiting", "del"},
         Alive(h), CancelAll(h, n, place), UNCHANGED cur
  PROVE  IndInv'
<1> USE Parts, TaskFacts
<1>1. /\ Owned' /\ OneOwner' /\ OpenSocks' /\ Connections' /\ Budget' /\ LoopShape'
      /\ (hasty \/ Patient)' /\ PcOK'
      /\ ServerOK' /\ TableOK' /\ FilesOK' /\ ClientsOK' /\ OthersOK' /\ TableCovers'
      /\ UNCHANGED <<server, target, fd, ptr, left, m_sock, verdict>>
      /\ \A j \in StopTasks : pc'[j] = IF j = h THEN place ELSE pc[j]
  BY CancelAllMoves
<1>2. TasksOK'
  BY <1>1 DEF TasksOK, PcOK
<1>3. StopProgress'
  <2>1. \A j \in StopTasks : pc'[j] = pc[j] /\ (Inside(j)' <=> Inside(j))
    BY <1>1 DEF Inside, Alive
  <2>2. QED  BY <1>1, <2>1 DEF StopProgress, server
<1>4. AbortsExplained'
  BY <1>1, StillNo
<1>5. QED
  BY <1>1, <1>2, <1>3, <1>4, PartsNext

\* The steps of a handler that closes its connection, or times out.
LEMMA HandlerClosesKeeps ==
  ASSUME IndInv, aborted = "no", NEW h \in Handlers, CloseCancels(h) \/ CloseDels(h) \/ TimesOut(h)
  PROVE  IndInv'
<1> USE Parts, TaskFacts
<1>1. Alive(h) /\ Number(h) = fd[h] /\ fd[h] \in Numbers
  BY FiberNumbers DEF CloseCancels, CloseDels, TimesOut, At, Alive, Number
<1>2. CASE CloseCancels(h)
  BY <1>1, <1>2, HandlerCancelKeeps DEF CloseCancels
<1>3. CASE TimesOut(h)
  BY <1>1, <1>3, HandlerCancelKeeps DEF TimesOut
<1>4. CASE CloseDels(h)
  <2>1. FiberGoes(h, "sys")
    BY <1>1, <1>4 DEF CloseDels, FiberGoes, Goes, At, HandlerPcs, server, clients, history
  <2>2. TasksOK'
    BY <1>4, <2>1, FiberGoesKeeps DEF TasksOK, CloseDels, PcOK
  <2>3. ServerOK' /\ TableOK' /\ ClientsOK' /\ TableCovers'
    BY <1>4 DEF CloseDels, ServerOK, TableOK, ClientsOK, TableCovers, server, table, clients
  <2>4. FilesOK' /\ OthersOK'
    BY <1>4 DEF CloseDels, FilesOK, OthersOK, history, verdict
  <2>5. AbortsExplained'
    BY <1>4, StillNo DEF CloseDels
  <2>6. QED
    BY <2>1, <2>2, <2>3, <2>4, <2>5, FiberGoesKeeps, PartsNext
<1>5. QED  BY <1>2, <1>3, <1>4

\* The number of a connection is closed; nobody else has it.
LEMMA HandlerSysKeeps ==
  ASSUME IndInv, aborted = "no", NEW h \in Handlers, HandlerSys(h)
  PROVE  IndInv'
<1> USE Parts, TaskFacts
<1>1. PICK n \in Numbers : n = fd[h]
  BY FiberNumbers DEF HandlerSys, At, Alive
<1>2. /\ pc[h] = "sys" /\ Alive(h) /\ open' = open \ {n} /\ watch' = [watch EXCEPT ![n] = Nobody]
      /\ conn' = [c \in Conns |-> IF HandlerOf(c) = h THEN "closed" ELSE conn[c]]
      /\ pc' = [pc EXCEPT ![h] = "ended"]
      /\ UNCHANGED <<server, target, fd, ptr, left, cur, table, m_sock, m_datas, at, errors, verdict, history>>
  BY <1>1 DEF HandlerSys, At, Alive, Goes
<1>3. \A t \in Tasks : pc'[t] = IF t = h THEN "ended" ELSE pc[t]
  BY <1>2 DEF TasksOK
<1>4. /\ \A l \in Loops : pc'[l] = pc[l] /\ (Alive(l)' <=> Alive(l))
      /\ \A k \in StopTasks : pc'[k] = pc[k] /\ (Alive(k)' <=> Alive(k)) /\ (Inside(k)' <=> Inside(k))
      /\ \A g \in Handlers : Alive(g)' <=> Alive(g) /\ g # h
  BY <1>3 DEF Alive, Inside
<1>5. ServerOK' /\ TableOK' /\ OthersOK' /\ TableCovers'
  BY <1>2 DEF ServerOK, TableOK, OthersOK, TableCovers, server, table, history, verdict
<1>6. TasksOK'
  <2>1. pc' \in [Tasks -> LoopPcs \cup StopPcs \cup HandlerPcs]
    <3>1. pc \in [Tasks -> LoopPcs \cup StopPcs \cup HandlerPcs] /\ "ended" \in HandlerPcs
      BY DEF TasksOK, HandlerPcs
    <3>2. pc' = [pc EXCEPT ![h] = "ended"]
      BY <1>2
    <3>3. QED  BY <3>1, <3>2
  <2>2. /\ \A l \in Loops : pc'[l] \in LoopPcs
        /\ \A k \in StopTasks : pc'[k] \in StopPcs
        /\ \A g \in Handlers : pc'[g] \in HandlerPcs
    <3>1. (\A l \in Loops : pc'[l] = pc[l]) /\ (\A k \in StopTasks : pc'[k] = pc[k])
      BY <1>4
    <3>2. \A g \in Handlers : pc'[g] = IF g = h THEN "ended" ELSE pc[g]
      BY <1>3
    <3>3. QED  BY <3>1, <3>2 DEF TasksOK, HandlerPcs
  <2>3. QED  BY <1>2, <2>1, <2>2 DEF TasksOK
<1>7. FilesOK' /\ ClientsOK'
  BY <1>2 DEF FilesOK, ClientsOK
<1>8. Owned'
  <2> SUFFICES ASSUME NEW i \in open'
               PROVE (\E s \in Socks : m_sock'[s] = i /\ (s \in m_socks' \/ Held(s)')) \/ HandlerHas(i)'
    BY DEF Owned
  <2>1. i \in open /\ i # n
    BY <1>2
  <2>2. CASE HandlerHas(i)
    <3>1. PICK g \in Handlers : Alive(g) /\ fd[g] = i
      BY <2>2 DEF HandlerHas
    <3>2. Alive(g)' /\ fd'[g] = i
      BY <1>1, <1>2, <1>4, <2>1, <3>1
    <3>3. QED  BY <3>2 DEF HandlerHas
  <2>3. CASE ~HandlerHas(i)
    BY <1>2, <1>4, <2>1, <2>3 DEF Owned, Held, server
  <2>4. QED  BY <2>2, <2>3
<1>9. OneOwner' /\ OpenSocks'
  BY <1>1, <1>2 DEF OneOwner, OpenSocks, Connections
<1>10. Connections'
  <2>1. \A g \in Handlers : (Alive(g)' => Alive(g)) /\ fd'[g] = fd[g]
    BY <1>2, <1>4
  <2>2. \A g \in Handlers : Alive(g)' => fd[g] \in open'
    BY <1>1, <1>2, <1>4 DEF Connections
  <2>3. \A c \in Conns : conn'[c] \in {"none", "backlog"} => conn[c] \in {"none", "backlog"}
    BY <1>2
  <2>4. QED  BY <1>2, <2>1, <2>2, <2>3, ConnectionsStay
<1>11. Budget' /\ LoopShape'
  BY <1>2, <1>4 DEF Budget, LoopShape, server
<1>12. StopProgress'
  BY <1>2, <1>4 DEF StopProgress, server
<1>13. Patient => Patient'
  BY <1>2, <1>4 DEF Patient, server, history
<1>14. AbortsExplained'
  BY <1>2, StillNo
<1>15. QED
  BY <1>2, <1>5, <1>6, <1>7, <1>8, <1>9, <1>10, <1>11, <1>12, <1>13, <1>14, PartsNext DEF history

\* What a stop task has in hand or left has a number.
LEMMA LeftNumbers ==
  ASSUME IndInv, NEW k \in StopTasks, Inside(k)
  PROVE  \A s \in left[k] : s \in Socks /\ m_sock[s] \in Numbers
BY Parts DEF StopProgress, TasksOK, FilesOK

LEMMA StopCancelsKeeps ==
  ASSUME IndInv, aborted = "no", NEW k \in StopTasks, StopCancels(k)
  PROVE  IndInv'
<1>1. Inside(k) /\ left[k] # {} /\ left[k] \subseteq Nat
  BY Parts, TaskFacts DEF StopCancels, At, Inside, Alive, TasksOK
<1>2. PICK s \in left[k] : s = Min(left[k])
  BY <1>1, MinMember
<1>3. PICK n \in Numbers : n = m_sock[s]
  BY <1>1, LeftNumbers
<1>4. cur' = [cur EXCEPT ![k] = s] /\ CancelAll(k, n, "close")
  BY <1>2, <1>3 DEF StopCancels
<1>5. QED  BY <1>1, <1>4, CancelAllKeeps

LEMMA CloseCancelsKeeps ==
  ASSUME IndInv, aborted = "no", NEW k \in StopTasks, CloseCancels(k)
  PROVE  IndInv'
<1>1. Inside(k)
  BY DEF CloseCancels, At, Inside, Alive
<1>2. PICK s \in left[k] : s = cur[k]
  BY Parts DEF CloseCancels, At, StopProgress
<1>3. PICK n \in Numbers : n = m_sock[s]
  BY <1>1, LeftNumbers
<1>4. CancelAll(k, n, "del")
  BY <1>2, <1>3 DEF CloseCancels, Number
<1>5. cur' = [cur EXCEPT ![k] = s]
  BY <1>2, Parts DEF CloseCancels, TasksOK
<1>6. QED  BY <1>1, <1>4, <1>5, CancelAllKeeps

LEMMA CloseDelsKeeps ==
  ASSUME IndInv, aborted = "no", NEW k \in StopTasks, CloseDels(k)
  PROVE  IndInv'
<1> USE Parts, TaskFacts
<1>1. /\ pc[k] = "del" /\ Alive(k) /\ pc' = [pc EXCEPT ![k] = "sys"] /\ m_datas' \subseteq m_datas
      /\ UNCHANGED <<server, target, fd, ptr, left, cur, table, m_sock, open, watch, clients, errors, verdict, history>>
  BY DEF CloseDels, Number, At, Goes, Alive
<1>2. /\ Owned' /\ OneOwner' /\ OpenSocks' /\ Connections' /\ Budget' /\ LoopShape' /\ (hasty \/ Patient)'
      /\ PcOK'
      /\ \A j \in StopTasks : pc'[j] = IF j = k THEN "sys" ELSE pc[j]
  <2>1. "sys" \in StopPcs \ {"none"}
    BY DEF StopPcs
  <2>2. UNCHANGED <<m_isStop, owner, todo, unposted, made, posts, stops, m_socks, target, fd, m_sock, open, conn,
                    hasty, reused>>
    BY <1>1 DEF server, clients, history
  <2>3. QED  BY <1>1, <2>1, <2>2, StopTaskMoves
<1>3. TasksOK'
  BY <1>1, <1>2 DEF TasksOK, PcOK
<1>4. ServerOK' /\ TableOK' /\ FilesOK' /\ ClientsOK' /\ OthersOK' /\ TableCovers'
  BY <1>1 DEF ServerOK, TableOK, FilesOK, ClientsOK, OthersOK, TableCovers, server, table, clients, history,
      verdict
<1>5. StopProgress'
  <2>1. \A j \in StopTasks : Inside(j)' <=> Inside(j)
    BY <1>1, <1>2 DEF Inside, Alive
  <2>2. \A j \in StopTasks : pc'[j] \in {"close", "del", "sys"} => pc[j] \in {"close", "del", "sys"}
    BY <1>1, <1>2
  <2>3. QED  BY <1>1, <2>1, <2>2 DEF StopProgress, server
<1>6. AbortsExplained'
  BY <1>1, StillNo
<1>7. QED
  BY <1>2, <1>3, <1>4, <1>5, <1>6, PartsNext

\* The number is closed and the socket loses it; nobody else has it.
LEMMA CloseSysKeeps ==
  ASSUME IndInv, aborted = "no", NEW k \in StopTasks, CloseSys(k)
  PROVE  IndInv'
<1> USE Parts, TaskFacts
<1>1. pc[k] = "sys" /\ Alive(k) /\ Inside(k)
  BY DEF CloseSys, At, Alive, Inside
<1>2. PICK x \in left[k] : x = cur[k]
  BY <1>1 DEF StopProgress
<1>3. PICK n \in Numbers : n = m_sock[x]
  BY <1>1, LeftNumbers
<1>4. x \in Socks /\ x \in m_socks
  BY <1>1, LeftNumbers DEF StopProgress
<1>5. /\ Shut({n}) /\ m_sock' = [m_sock EXCEPT ![x] = Closed] /\ pc' = [pc EXCEPT ![k] = "next"]
      /\ left' = [left EXCEPT ![k] = left[k] \ {x}] /\ cur' = [cur EXCEPT ![k] = Nobody]
      /\ UNCHANGED <<server, target, fd, ptr, table, m_datas, at, errors, verdict, history>>
  BY <1>2, <1>3 DEF CloseSys, Goes
<1>6. \A t \in Tasks : pc'[t] = IF t = k THEN "next" ELSE pc[t]
  BY <1>5 DEF TasksOK
<1>7. /\ \A l \in Loops : pc'[l] = pc[l] /\ (Alive(l)' <=> Alive(l))
      /\ \A j \in StopTasks : (Alive(j)' <=> Alive(j)) /\ (Inside(j)' <=> Inside(j)) /\ (j # k => pc'[j] = pc[j])
  BY <1>1, <1>6 DEF Alive, Inside
<1>8. \A s \in Socks : m_sock'[s] = IF s = x THEN Closed ELSE m_sock[s]
  BY <1>4, <1>5 DEF FilesOK
<1>9. open' = open \ {n}
  BY <1>5 DEF Shut
<1>10. ServerOK' /\ TableOK' /\ OthersOK' /\ TableCovers'
  BY <1>5 DEF ServerOK, TableOK, OthersOK, TableCovers, server, table, history, verdict
<1>11. TasksOK'
  <2>1. left' \in [StopTasks -> SUBSET Socks] /\ cur' \in [StopTasks -> Socks \cup {Nobody}]
    BY <1>5 DEF TasksOK
  <2>2. /\ \A l \in Loops : pc'[l] \in LoopPcs
        /\ \A j \in StopTasks : pc'[j] \in StopPcs
        /\ \A h \in Handlers : pc'[h] \in HandlerPcs
    BY <1>6 DEF TasksOK, StopPcs
  <2>3. pc' \in [Tasks -> LoopPcs \cup StopPcs \cup HandlerPcs]
    <3>1. pc \in [Tasks -> LoopPcs \cup StopPcs \cup HandlerPcs] /\ "next" \in StopPcs
      BY DEF TasksOK, StopPcs
    <3>2. QED  BY <1>5, <3>1
  <2>4. QED  BY <1>5, <2>1, <2>2, <2>3 DEF TasksOK
<1>12. FilesOK'
  <2>1. m_sock' \in [Socks -> Numbers \cup {Closed}]
    BY <1>4, <1>5 DEF FilesOK
  <2>2. watch' \in [Numbers -> Fibers \cup {Nobody}]
    BY <1>5 DEF Shut, FilesOK
  <2>3. QED  BY <1>5, <1>9, <2>1, <2>2 DEF FilesOK
<1>13. ClientsOK'
  BY <1>5 DEF Shut, ClientsOK
<1>14. \A h \in Handlers : (Alive(h)' <=> Alive(h)) /\ fd'[h] = fd[h]
  BY <1>1, <1>5, <1>6 DEF Alive
<1>15. \A j : HandlerHas(j) => HandlerHas(j)'
  BY <1>14 DEF HandlerHas
<1>16. Connections'
  <2>1. \A h \in Handlers : (Alive(h)' => Alive(h)) /\ fd'[h] = fd[h]
    BY <1>14
  <2>2. \A h \in Handlers : Alive(h)' => fd[h] \in open'
    BY <1>3, <1>4, <1>9, <1>14 DEF Connections
  <2>3. \A s \in Socks : m_sock'[s] \in {m_sock[s], Closed}
    BY <1>8
  <2>4. \A c \in Conns : conn'[c] \in {"none", "backlog"} => conn[c] \in {"none", "backlog"}
    BY <1>5 DEF Shut
  <2>5. QED  BY <2>1, <2>2, <2>3, <2>4, ConnectionsStay
<1>17. Owned'
  <2> SUFFICES ASSUME NEW i \in open', ~HandlerHas(i) PROVE \E s \in Socks : m_sock'[s] = i /\ (s \in m_socks' \/ Held(s)')
    BY <1>15 DEF Owned
  <2>1. PICK s \in Socks : m_sock[s] = i /\ (s \in m_socks \/ Held(s))
    BY <1>9 DEF Owned
  <2>2. s # x
    BY <1>3, <1>9, <2>1
  <2>3. Held(s) => Held(s)'
    BY <1>5, <1>7 DEF Held
  <2>4. QED  BY <1>5, <1>8, <2>1, <2>2, <2>3 DEF server
<1>18. OneOwner' /\ OpenSocks'
  BY <1>3, <1>4, <1>8, <1>9 DEF OneOwner, OpenSocks
<1>19. Budget'
  <2>1. \A s \in Socks : s > made => m_sock'[s] = Closed
    BY <1>8 DEF Budget
  <2>2. \A j \in StopTasks : j > MaxLoops + stops => pc'[j] = "none"
    BY <1>1, <1>7 DEF Budget
  <2>3. QED  BY <1>5, <1>7, <2>1, <2>2 DEF Budget, server
<1>20. LoopShape'
  BY <1>5, <1>7 DEF LoopShape, server
<1>21. StopProgress'
  <2>1. \A j \in StopTasks : j # k => ~Inside(j)
    BY <1>1 DEF StopProgress
  <2>2. left'[k] = {s \in m_socks' : m_sock'[s] # Closed}
    <3>1. left[k] = {s \in m_socks : m_sock[s] # Closed} /\ m_socks' = m_socks /\ m_socks \subseteq Socks
      BY <1>1, <1>5 DEF StopProgress, server, ServerOK
    <3>2. left'[k] = left[k] \ {x}
      BY <1>5 DEF TasksOK
    <3>3. QED  BY <1>8, <3>1, <3>2
  <2>3. \A j \in StopTasks : pc'[j] \notin {"close", "del", "sys"}
    BY <1>6, <1>7, <2>1 DEF Inside, Alive
  <2>4. QED  BY <1>1, <1>7, <2>1, <2>2, <2>3 DEF StopProgress
<1>22. Patient => Patient'
  <2> SUFFICES ASSUME Patient PROVE Patient'
    OBVIOUS
  <2>1. m_isStop
    BY <1>1 DEF Patient
  <2>2. UNCHANGED <<m_isStop, owner, unposted, target, fd, reused>>
    BY <1>5 DEF server, history
  <2>3. QED  BY <1>7, <1>14, <2>1, <2>2 DEF Patient
<1>23. AbortsExplained'
  BY <1>5, StillNo
<1>24. QED
  BY <1>5, <1>10, <1>11, <1>12, <1>13, <1>17, <1>18, <1>19, <1>20, <1>21, <1>22, <1>23, <1>16, PartsNext DEF history

LEMMA StopClearsKeeps ==
  ASSUME IndInv, aborted = "no", NEW k \in StopTasks, StopClears(k)
  PROVE  IndInv'
<1> USE Parts, TaskFacts
<1>1. /\ pc[k] = "next" /\ Alive(k) /\ Inside(k) /\ left[k] = {} /\ owner # "start" /\ m_socks' = {}
      /\ pc' = [pc EXCEPT ![k] = "ended"]
      /\ UNCHANGED <<m_isStop, fails, owner, todo, unposted, made, posts, stops, target, fd, ptr, left, cur,
                     table, files, clients, errors, verdict, history>>
  BY DEF StopClears, At, Goes, Alive, Inside
<1>2. \A s \in m_socks : m_sock[s] = Closed
  BY <1>1 DEF StopProgress
<1>3. \A t \in Tasks : pc'[t] = IF t = k THEN "ended" ELSE pc[t]
  BY <1>1 DEF TasksOK
<1>4. /\ \A l \in Loops : pc'[l] = pc[l] /\ (Alive(l)' <=> Alive(l))
      /\ \A j \in StopTasks : Alive(j)' <=> Alive(j) /\ j # k
  BY <1>3 DEF Alive
<1>5. ServerOK' /\ TableOK' /\ FilesOK' /\ ClientsOK' /\ OthersOK' /\ TableCovers'
  BY <1>1 DEF ServerOK, TableOK, FilesOK, ClientsOK, OthersOK, TableCovers, table, files, clients, history,
      verdict
<1>6. TasksOK'
  BY <1>1, <1>3 DEF TasksOK, StopPcs
<1>7. \A h \in Handlers : (Alive(h)' <=> Alive(h)) /\ fd'[h] = fd[h]
  BY <1>1, <1>3 DEF Alive
<1>8. \A j : HandlerHas(j) => HandlerHas(j)'
  BY <1>7 DEF HandlerHas
<1>9. Connections'
  BY <1>1, <1>7, ConnectionsStay DEF files, clients, Connections
<1>10. Owned'
  <2> SUFFICES ASSUME NEW n \in open', ~HandlerHas(n) PROVE \E s \in Socks : m_sock'[s] = n /\ (s \in m_socks' \/ Held(s)')
    BY <1>8 DEF Owned
  <2>1. PICK s \in Socks : m_sock[s] = n /\ (s \in m_socks \/ Held(s))
    BY <1>1 DEF Owned, files
  <2>2. n # Closed
    BY <1>1 DEF FilesOK, files
  <2>3. Held(s)
    BY <1>2, <2>1, <2>2
  <2>4. QED  BY <1>1, <1>4, <2>1, <2>3 DEF Held, files
<1>11. OneOwner' /\ OpenSocks'
  BY <1>1 DEF OneOwner, OpenSocks, files
<1>12. Budget'
  <2>1. \A j \in StopTasks : j > MaxLoops + stops => pc'[j] = "none"
    BY <1>1, <1>3 DEF Budget
  <2>2. QED  BY <1>1, <1>4, <2>1 DEF Budget, files
<1>13. LoopShape'
  BY <1>1, <1>4 DEF LoopShape
<1>14. StopProgress'
  <2>1. \A j \in StopTasks : ~Inside(j)' /\ pc'[j] \notin {"close", "del", "sys"}
    <3>1. \A j \in StopTasks : j # k => ~Inside(j)
      BY <1>1 DEF StopProgress
    <3>2. \A j \in StopTasks : pc'[j] = IF j = k THEN "ended" ELSE pc[j]
      BY <1>3
    <3>3. QED  BY <3>1, <3>2 DEF Inside, Alive
  <2>2. QED  BY <1>1, <2>1 DEF StopProgress
<1>15. Patient => Patient'
  BY <1>1, <1>4, <1>7 DEF Patient, files, history
<1>16. AbortsExplained'
  BY <1>1, StillNo
<1>17. QED
  BY <1>1, <1>5, <1>6, <1>10, <1>11, <1>12, <1>13, <1>14, <1>15, <1>16, <1>9, PartsNext DEF history

-----------------------------------------------------------------------------
(* Theorems.                                                                *)

LEMMA StepInv == IndInv /\ [Next]_vars => IndInv'
<1> SUFFICES ASSUME IndInv, [Next]_vars PROVE IndInv'
  OBVIOUS
<1>1. CASE UNCHANGED vars
  <2>1. UNCHANGED <<server, tasks, table, files, clients, errors, verdict, history>>
    BY <1>1 DEF vars
  <2>2. ASSUME aborted = "no" PROVE IndInv'
    <3>1. ClientsOK' /\ \A c \in Conns : conn'[c] = conn[c]
      BY <2>1, Parts DEF ClientsOK, clients
    <3>2. QED  BY <2>1, <2>2, <3>1, ClientStepsKeep
  <2>3. ASSUME aborted # "no" PROVE IndInv'
    <3>1. PICK why \in {"index", "assert", "race"} : why = aborted
      BY <2>3, Parts DEF OthersOK, history, verdict
    <3>2. PICK n \in Numbers \cup {Closed} : n = abortedAt
      BY Parts DEF OthersOK
    <3>3. Abort(why, n)
      BY <2>1, <3>1, <3>2 DEF Abort, verdict
    <3>4. QED  BY <3>1, <3>2, <3>3, AbortKeeps, Parts DEF AbortsExplained
  <2>4. QED  BY <2>2, <2>3
<1>2. CASE Next
  <2>1. aborted = "no"
    BY <1>2 DEF Next
  <2>2. CASE OwnerCalls
    BY <2>1, <2>2, StartKeeps, StopKeeps, DestructKeeps, DestructBeyondKeeps, BindKeeps DEF OwnerCalls
  <2>3. CASE OwnerProceeds
    BY <2>1, <2>3, BindSucceedsKeeps, BindFailsKeeps, BindEndsKeeps, BindBeyondKeeps, BindRacesKeeps, StartPostsKeeps,
       StartEndsKeeps DEF OwnerProceeds
  <2>4. ASSUME NEW f \in Fibers, Waits(f) \/ Report(f) PROVE IndInv'
    BY <2>1, <2>4, LookUpKeeps, GrowKeeps, RegisterKeeps, RegisterFailsKeeps, ReportKeeps, AssertFailsKeeps DEF Waits
  <2>5. ASSUME NEW l \in Loops, LoopStep(l) PROVE IndInv'
    BY <2>1, <2>4, <2>5, TaskFacts, CheckKeeps, LoopEndsKeeps, LoopEndsBeyondKeeps, AcceptsKeeps, AcceptFailsKeeps,
       WouldBlockKeeps DEF LoopStep
  <2>6. ASSUME NEW h \in Handlers, HandlerStep(h) \/ TimesOut(h) \/ TimesOutBeyond(h) PROVE IndInv'
    BY <2>1, <2>4, <2>6, TaskFacts, RecvKeeps, ReturnsKeeps, HandlerClosesKeeps, HandlerSysKeeps, CloseBeyondKeeps,
       TimesOutBeyondKeeps DEF HandlerStep, Closes
  <2>7. ASSUME NEW k \in StopTasks, StopStep(k) PROVE IndInv'
    BY <2>1, <2>7, StopBeginsKeeps, StopCancelsKeeps, StopCancelsBeyondKeeps, CloseCancelsKeeps, CloseBeyondKeeps,
       CloseDelsKeeps, CloseSysKeeps, StopClearsKeeps, StopRacesKeeps DEF StopStep, Closes
  <2>8. ASSUME NEW c \in Conns, PeerConnects(c) PROVE IndInv'
    BY <2>1, <2>8, PeersKeep
  <2>9. QED  BY <1>2, <2>2, <2>3, <2>4, <2>5, <2>6, <2>7, <2>8 DEF Next
<1>3. QED  BY <1>1, <1>2

\* The inductive invariant holds in every behaviour of the server, its loops, its stop
\* tasks and its peers, for instances of every size.
THEOREM SpecIndInv == Spec => []IndInv
<1>1. QED  BY InitInv, StepInv, PTL DEF Spec

\* Every number in use belongs to exactly one Socket: a listening one that m_socks or
\* an accept loop still holds, or that of a connection whose handler has not returned;
\* through failing binds, ending loops, stop(), accepts, closes and ~TcpServer.
THEOREM SpecNumbersOwned == Spec => []NumbersOwned
<1>1. IndInv => NumbersOwned
  BY DEF IndInv
<1>2. QED  BY <1>1, SpecIndInv, PTL

\* A race on m_socks takes an owner that did not let stop() take effect.  So does a
\* failed assertion of addEvent, unless the server is being stopped and accept() was
\* given the very number while a loop still worked on it.  cancelAll and cancelEvent
\* look beyond the table of contexts only for a number on which no fiber has waited, or
\* after the table was made smaller.
THEOREM SpecAbortsExplained == Spec => []AbortsExplained
<1>1. IndInv => AbortsExplained
  BY DEF IndInv
<1>2. QED  BY <1>1, SpecIndInv, PTL
=============================================================================
