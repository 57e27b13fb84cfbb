----------------------------- MODULE HookProofs -----------------------------
(***************************************************************************)
(* Proofs about Hook.tla for any number of descriptors and fibers, and any *)
(* bounds.                                                                 *)
(***************************************************************************)
EXTENDS Hook, TLAPS

-----------------------------------------------------------------------------
(* The inductive invariant, besides the properties it is made of.           *)

\* Where a fiber is tells what its call is about.
CallShape ==
  \A f \in Fibers :
    /\ pc[f] \in {"raw", "try"} => call[f].kind \in IOKinds
    /\ pc[f] = "soerror" => call[f].kind = "connect"
    /\ pc[f] \in {"raw", "try", "arm", "add", "wait", "woken", "soerror", "blocked"}
         => call[f].fd \in Fds /\ call[f].gen # 0 /\ call[f].kind \in IOKinds \cup {"connect"}
    /\ pc[f] \in {"closeDel", "closeSys"} => call[f].fd \in Fds
    /\ pc[f] = "fcntl" => call[f].fd \in Fds /\ call[f].gen # 0 /\ call[f].kind \in {"fcntl", "fcntlBlock"}
    /\ IF pc[f] = "register" THEN call[f].made \in Fds ELSE call[f].made = NoFd

\* A call that has no timer has no callback of one to come, and a sleeping fiber has
\* the one or the other.
FiredOwned ==
  \A f \in Fibers :
    /\ pc[f] \in {"idle", "register", "closeDel", "closeSys", "fcntl"} => fired[f] = 0
    /\ pc[f] = "sleep" /\ fired[f] > 0 => ~timer[f]

\* Numbers that are being closed or have just been handed out are open, and one fiber
\* does it; the context is gone before the number.
InOneHand ==
  /\ \A f \in Fibers : pc[f] \in {"closeDel", "closeSys"} => Known(call[f].fd)
  /\ \A f \in Fibers : pc[f] = "closeSys" => m_datas[call[f].fd] = NoCtx
  /\ \A f \in Fibers : pc[f] = "register" => sock[call[f].made].gen # 0
  /\ \A f, g \in Fibers :
       pc[f] \in {"closeDel", "closeSys"} /\ pc[g] \in {"closeDel", "closeSys"} /\ call[f].fd = call[g].fd => f = g
  /\ \A f, g \in Fibers : pc[f] = "register" /\ pc[g] = "register" /\ call[f].made = call[g].made => f = g

\* Contexts belong to sockets that have existed, and a number the program does not
\* hold has none, unless it was closed behind FdManager's back.
ContextsRight ==
  /\ \A fd \in Fds : m_datas[fd].gen = 0 => m_datas[fd] = NoCtx
  /\ \A fd \in Fds : Known(fd) /\ ~BeingShut(fd) => m_datas[fd].gen # 0
  /\ \A fd \in Fds \ rawCloses : Known(fd) /\ ~BeingShut(fd) => m_datas[fd].gen = sock[fd].gen
  /\ \A fd \in Fds \ rawCloses : ~Known(fd) => m_datas[fd] = NoCtx

\* No socket is newer than the last.
GensPast ==
  /\ \A fd \in Fds : sock[fd].gen <= opens /\ m_datas[fd].gen <= opens
  /\ \A f \in Fibers : call[f].gen <= opens /\ call[f].ctxGen <= opens

\* A socket is non-blocking while the context made for it is there, and for a call that
\* has found that context until the socket is about to be closed, unless an fcntl() meant
\* for another socket has come in between; an fcntl() that found no context can reach the
\* socket it is meant for only while that is about to be closed.
Nonblocking ==
  /\ \A fd \in Fds : m_datas[fd].gen # 0 /\ sock[fd].gen = m_datas[fd].gen
                      => sock[fd].nonblock \/ sock[fd].gen \in strays
  /\ \A f \in Fibers :
       call[f].fd \in Fds /\ call[f].ctxGen # 0 /\ sock[call[f].fd].gen = call[f].ctxGen
         => sock[call[f].fd].nonblock \/ BeingShut(call[f].fd) \/ sock[call[f].fd].gen \in strays
  /\ \A f \in Fibers :
       pc[f] = "blocked" /\ call[f].ctxGen # 0
         => sock[call[f].fd].gen # call[f].ctxGen \/ BeingShut(call[f].fd) \/ sock[call[f].fd].gen \in strays
  /\ \A f \in Fibers :
       pc[f] = "fcntl" /\ call[f].kind = "fcntlBlock" /\ sock[call[f].fd].gen = call[f].gen
         => BeingShut(call[f].fd)

\* A connection attempt that is under way does not make the socket writable, connect
\* waits once, and a fiber its timeout has woken knows.
WakersTold ==
  /\ \A fd \in Fds : "WRITE" \in sock[fd].cond => sock[fd].conn \in {"yes", "failed"}
  /\ \A f \in Fibers :
       /\ pc[f] \in {"idle", "register", "closeDel", "closeSys", "sleep", "fcntl"} => woken[f] = "no"
       /\ pc[f] \in {"arm", "add", "wait", "blocked"} /\ call[f].kind = "connect" => woken[f] = "no"
       /\ pc[f] = "woken" /\ woken[f] = "timeout" => tinfo[f]
       /\ pc[f] = "soerror" => woken[f] # "timeout"
       /\ /\ pc[f] \in {"woken", "soerror"} /\ call[f].kind = "connect" /\ woken[f] = "event"
          /\ sock[call[f].fd].gen = call[f].gen
          => sock[call[f].fd].conn \in {"yes", "failed"}

\* A report that a socket is writable is about one that has existed, and while that is
\* still the number's, its connection attempt has ended.
ReportsTold ==
  \A fd \in Fds : \A g \in reports[fd]["WRITE"] :
    g # 0 /\ g <= opens /\ (sock[fd].gen = g => sock[fd].conn \in {"yes", "failed"})

\* The inductive invariant.
IndInv ==
  /\ WaitersExact /\ TimerOwned /\ CallShape /\ FiredOwned
  /\ InOneHand /\ ContextsRight /\ GensPast /\ Nonblocking /\ WakersTold /\ ReportsTold

-----------------------------------------------------------------------------
(* Proofs.                                                                  *)

SockType == [gen : 0..MaxOpens, nonblock : BOOLEAN, conn : Conns, cond : SUBSET Dirs]
CtxType == [gen : 0..MaxOpens, userNonblock : BOOLEAN, timed : [Dirs -> BOOLEAN]]
CallType == [kind : Kinds, fd : Fds \cup {NoFd}, gen : 0..MaxOpens, ctxGen : 0..MaxOpens,
             timed : BOOLEAN, made : Fds \cup {NoFd}]
WokenNames == {"no", "event", "stale", "cancel", "timeout"}
ReportsType == [Fds -> [Dirs -> SUBSET (0..MaxOpens)]]

\* WaitersExact without the types.
Exact ==
  \A f \in Fibers, fd \in Fds, e \in Dirs :
    waiter[fd][e] = f <=> pc[f] = "wait" /\ call[f].fd = fd /\ Dir(call[f].kind) = e

LEMMA Types ==
  ASSUME IndInv
  PROVE  /\ sock \in [Fds -> SockType] /\ opens \in 0..MaxOpens /\ m_datas \in [Fds -> CtxType]
         /\ waiter \in [Fds -> [Dirs -> Fibers \cup {NoFiber}]] /\ watched \in [Fds -> SUBSET Dirs]
         /\ reports \in ReportsType /\ strays \in SUBSET (0..MaxOpens)
         /\ pc \in [Fibers -> Places] /\ call \in [Fibers -> CallType]
         /\ tinfo \in [Fibers -> BOOLEAN] /\ timer \in [Fibers -> BOOLEAN]
         /\ fired \in [Fibers -> Nat] /\ cancels \in [Fds -> [Dirs -> Nat]]
         /\ woken \in [Fibers -> WokenNames]
         /\ calls \in 0..MaxCalls /\ rawCloses \in SUBSET Fds /\ aborted \in BOOLEAN
         /\ Exact
  BY DEF IndInv, WaitersExact, TypeOK, SockType, CtxType, CallType, WokenNames, ReportsType, Exact

LEMMA TypesBack ==
  ASSUME /\ sock' \in [Fds -> SockType] /\ opens' \in 0..MaxOpens /\ m_datas' \in [Fds -> CtxType]
         /\ waiter' \in [Fds -> [Dirs -> Fibers \cup {NoFiber}]] /\ watched' \in [Fds -> SUBSET Dirs]
         /\ reports' \in ReportsType /\ strays' \in SUBSET (0..MaxOpens)
         /\ pc' \in [Fibers -> Places] /\ call' \in [Fibers -> CallType]
         /\ tinfo' \in [Fibers -> BOOLEAN] /\ timer' \in [Fibers -> BOOLEAN]
         /\ fired' \in [Fibers -> Nat] /\ cancels' \in [Fds -> [Dirs -> Nat]]
         /\ woken' \in [Fibers -> WokenNames]
         /\ calls' \in 0..MaxCalls /\ rawCloses' \in SUBSET Fds /\ aborted' \in BOOLEAN,
         Exact'
  PROVE  WaitersExact'
  BY DEF WaitersExact, TypeOK, SockType, CtxType, CallType, WokenNames, ReportsType, Exact

LEMMA NotFd == NoFd \notin Fds  BY HookAssumption DEF NoFd

LEMMA DirType == \A kind : Dir(kind) \in Dirs  BY DEF Dir, Dirs

LEMMA NoCallType ==
  /\ NoCall \in CallType /\ NoCall.made = NoFd /\ NoCall.gen = 0 /\ NoCall.ctxGen = 0 /\ NoCall.fd = NoFd
  /\ NoCall.kind = "sleep"
  BY HookAssumption DEF NoCall, CallType, Kinds

-----------------------------------------------------------------------------
LEMMA InitInv == Init => IndInv
<1> SUFFICES ASSUME Init PROVE IndInv
  OBVIOUS
<1> USE HookAssumption
<1>1. \A f \in Fibers : pc[f] = "idle" /\ call[f] = NoCall /\ ~tinfo[f] /\ ~timer[f] /\ fired[f] = 0 /\ woken[f] = "no"
  BY DEF Init
<1>2. \A fd \in Fds : sock[fd] = Closed /\ m_datas[fd] = NoCtx /\ \A e \in Dirs : waiter[fd][e] = NoFiber
  BY DEF Init
<1>3. TypeOK
  <2>1. Closed \in SockType  BY DEF Closed, SockType, Conns
  <2>2. NoCtx \in CtxType  BY DEF NoCtx, NewCtx, CtxType
  <2>3. sock \in [Fds -> SockType] /\ m_datas \in [Fds -> CtxType] /\ call \in [Fibers -> CallType]
    BY <2>1, <2>2, NoCallType DEF Init
  <2>4. tinfo \in [Fibers -> BOOLEAN] /\ timer \in [Fibers -> BOOLEAN] /\ aborted \in BOOLEAN  BY DEF Init
  <2>5. /\ waiter \in [Fds -> [Dirs -> Fibers \cup {NoFiber}]] /\ watched \in [Fds -> SUBSET Dirs]
        /\ cancels \in [Fds -> [Dirs -> Nat]] /\ fired \in [Fibers -> Nat] /\ woken \in [Fibers -> WokenNames]
        /\ pc \in [Fibers -> Places]
    BY DEF Init, WokenNames, Places
  <2>6. opens \in 0..MaxOpens /\ calls \in 0..MaxCalls /\ rawCloses \in SUBSET Fds /\ strays \in SUBSET (0..MaxOpens)
    BY DEF Init
  <2>7. reports \in ReportsType  BY DEF Init, ReportsType
  <2>8. QED  BY <2>3, <2>4, <2>5, <2>6, <2>7 DEF TypeOK, SockType, CtxType, CallType, WokenNames, ReportsType
<1>4. WaitersExact  BY <1>1, <1>2, <1>3 DEF WaitersExact
<1>5. TimerOwned /\ CallShape /\ FiredOwned
  BY <1>1, NoCallType DEF TimerOwned, CallShape, FiredOwned
<1>6. \A fd \in Fds : ~Known(fd) /\ sock[fd].gen = 0 /\ sock[fd].cond = {} /\ m_datas[fd].gen = 0
  BY <1>2 DEF Known, Closed, NoCtx, NewCtx
<1>7. InOneHand /\ ContextsRight  BY <1>1, <1>2, <1>6 DEF InOneHand, ContextsRight
<1>8. GensPast /\ Nonblocking  BY <1>1, <1>6, NoCallType DEF GensPast, Nonblocking, Init
<1>9. WakersTold  BY <1>1, <1>6 DEF WakersTold
<1>10. ReportsTold  BY DEF Init, ReportsTold, Dirs
<1>11. QED  BY <1>4, <1>5, <1>7, <1>8, <1>9, <1>10 DEF IndInv

-----------------------------------------------------------------------------
(* Steps that leave descriptors and contexts alone.                         *)

Hands == {"register", "closeDel", "closeSys"}

\* Whether a call c on a socket may find it blocking.
MayBlock(c) == c.ctxGen # 0 /\ c.fd \in Fds /\ sock[c.fd].gen = c.ctxGen
               /\ ~sock[c.fd].nonblock /\ ~BeingShut(c.fd) /\ sock[c.fd].gen \notin strays

\* A call c that may block its thread has the right to.
Excused(c) == sock[c.fd].gen # c.ctxGen \/ BeingShut(c.fd) \/ sock[c.fd].gen \in strays

\* An fcntl() c that clears the flag of its own socket, though that is not about to be closed.
Reaches(c) == c.kind = "fcntlBlock" /\ sock[c.fd].gen = c.gen /\ ~BeingShut(c.fd)

\* No socket is replaced or made blocking.
SameSockets ==
  /\ opens' = opens /\ rawCloses' = rawCloses /\ strays' = strays
  /\ \A fd \in Fds : sock'[fd].gen = sock[fd].gen /\ (sock[fd].nonblock => sock'[fd].nonblock)

\* No context is made or dropped.
SameContexts ==
  \A fd \in Fds : m_datas'[fd].gen = m_datas[fd].gen /\ (m_datas'[fd] = NoCtx <=> m_datas[fd] = NoCtx)

\* A fiber in the middle of a call, or between two, has not found a blocking socket.
QuietFiber(f) ==
  /\ pc'[f] \in Hands \/ pc[f] \in Hands => pc'[f] = pc[f] /\ call'[f] = call[f]
  /\ call'[f].made = call[f].made /\ call'[f].gen <= opens /\ call'[f].ctxGen <= opens
  /\ ~MayBlock(call'[f])
  /\ pc'[f] = "blocked" /\ call'[f].ctxGen # 0 => Excused(call'[f])
  /\ pc'[f] = "fcntl" => ~Reaches(call'[f])

LEMMA QuietContexts ==
  ASSUME IndInv, SameSockets, SameContexts, CallShape', \A f \in Fibers : QuietFiber(f)
  PROVE  InOneHand' /\ ContextsRight' /\ GensPast' /\ Nonblocking'
<1>1. \A fd \in Fds : Known(fd)' <=> Known(fd)  BY DEF Known, SameSockets, QuietFiber
<1>2. \A fd : BeingShut(fd)' <=> BeingShut(fd)  BY DEF BeingShut, QuietFiber, Hands
<1>3. \A f \in Fibers : /\ pc'[f] \in {"closeDel", "closeSys"} => call'[f].fd \in Fds
                        /\ pc'[f] = "register" => call'[f].made \in Fds
                        /\ pc'[f] \in {"blocked", "fcntl"} => call'[f].fd \in Fds
  BY DEF CallShape
<1>4. InOneHand'
  <2>1. \A f \in Fibers : pc'[f] \in Hands => pc'[f] = pc[f] /\ call'[f] = call[f]  BY DEF QuietFiber
  <2>2. QED  BY <1>1, <1>3, <2>1 DEF IndInv, InOneHand, Hands, SameSockets, SameContexts
<1>5. ContextsRight'  BY <1>1, <1>2 DEF IndInv, ContextsRight, SameSockets, SameContexts
<1>6. GensPast'  BY DEF IndInv, GensPast, QuietFiber, SameSockets, SameContexts
<1>7. Nonblocking'
  <2>1. \A fd \in Fds : m_datas'[fd].gen # 0 /\ sock'[fd].gen = m_datas'[fd].gen
                         => sock'[fd].nonblock \/ sock'[fd].gen \in strays'
    BY DEF IndInv, Nonblocking, SameSockets, SameContexts
  <2>2. \A f \in Fibers :
          call'[f].fd \in Fds /\ call'[f].ctxGen # 0 /\ sock'[call'[f].fd].gen = call'[f].ctxGen
            => sock'[call'[f].fd].nonblock \/ BeingShut(call'[f].fd) \/ sock'[call'[f].fd].gen \in strays'
    BY DEF QuietFiber, MayBlock, SameSockets
  <2>3. \A f \in Fibers :
          pc'[f] = "blocked" /\ call'[f].ctxGen # 0
            => sock'[call'[f].fd].gen # call'[f].ctxGen \/ BeingShut(call'[f].fd) \/ sock'[call'[f].fd].gen \in strays'
    BY <1>3 DEF QuietFiber, SameSockets, Excused
  <2>4. \A f \in Fibers :
          pc'[f] = "fcntl" /\ call'[f].kind = "fcntlBlock" /\ sock'[call'[f].fd].gen = call'[f].gen
            => BeingShut(call'[f].fd)
    BY <1>3 DEF QuietFiber, SameSockets, Reaches
  <2>5. \A f \in Fibers : BeingShut(call[f].fd)' <=> BeingShut(call'[f].fd)
    BY DEF BeingShut, QuietFiber, Hands
  <2>6. QED  BY <2>1, <2>2, <2>3, <2>4, <2>5 DEF Nonblocking
<1>8. QED  BY <1>4, <1>5, <1>6, <1>7

\* A call that is in progress has nothing to hide.
LEMMA NobodyMayBlock ==
  ASSUME IndInv, NEW f \in Fibers
  PROVE  ~MayBlock(call[f])
  BY DEF IndInv, Nonblocking, MayBlock

LEMMA QuietIfStill ==
  ASSUME IndInv, NEW f \in Fibers, call'[f] = call[f],
         pc'[f] = pc[f] \/ (pc[f] \notin Hands /\ pc'[f] \notin Hands \cup {"blocked", "fcntl"})
  PROVE  QuietFiber(f)
<1>1. ~MayBlock(call'[f])  BY NobodyMayBlock
<1>2. call'[f].gen <= opens /\ call'[f].ctxGen <= opens  BY DEF IndInv, GensPast
<1>3. pc'[f] = "blocked" /\ call'[f].ctxGen # 0 => Excused(call'[f])
  BY DEF IndInv, Nonblocking, Hands, Excused
<1>4. pc'[f] = "fcntl" => ~Reaches(call'[f])  BY DEF IndInv, Nonblocking, Hands, Reaches
<1>5. QED  BY <1>1, <1>2, <1>3, <1>4 DEF QuietFiber, Hands

LEMMA QuietIfReturned ==
  ASSUME IndInv, NEW f \in Fibers, call'[f] = NoCall, pc[f] \notin Hands, pc'[f] \in {"idle", "sleep"}
  PROVE  QuietFiber(f)
<1>1. call[f].made = NoFd  BY DEF IndInv, CallShape, Hands
<1>2. ~MayBlock(NoCall) /\ 0 <= opens  BY NoCallType, Types, HookAssumption DEF MayBlock
<1>3. QED  BY <1>1, <1>2, NoCallType DEF QuietFiber, Hands

\* One fiber moves, which neither waits nor begins to.
LEMMA MoveExact ==
  ASSUME IndInv, NEW f \in Fibers, pc[f] # "wait", pc'[f] # "wait", waiter' = waiter,
         \A g \in Fibers \ {f} : pc'[g] = pc[g] /\ call'[g] = call[g]
  PROVE  Exact'
<1>1. Exact  BY Types
<1>2. QED  BY <1>1 DEF Exact

\* Reports stay what they are while no socket is replaced but by a new one or none.
LEMMA ReportsStay ==
  ASSUME IndInv, \A d \in Fds : reports'[d]["WRITE"] \subseteq reports[d]["WRITE"],
         opens' \in {opens, opens + 1},
         \A d \in Fds :
           \/ /\ sock'[d].gen = sock[d].gen
              /\ sock[d].conn \in {"yes", "failed"} => sock'[d].conn \in {"yes", "failed"}
           \/ sock'[d].gen \in {0, opens + 1}
  PROVE  ReportsTold'
<1> SUFFICES ASSUME NEW d \in Fds, NEW g \in reports'[d]["WRITE"]
             PROVE  g # 0 /\ g <= opens' /\ (sock'[d].gen = g => sock'[d].conn \in {"yes", "failed"})
  BY DEF ReportsTold
<1>1. "WRITE" \in Dirs  BY DEF Dirs
<1>2. g \in 0..MaxOpens /\ opens \in Nat  BY <1>1, Types, HookAssumption DEF ReportsType
<1>3. g # 0 /\ g <= opens /\ (sock[d].gen = g => sock[d].conn \in {"yes", "failed"})  BY DEF IndInv, ReportsTold
<1>4. g <= opens'  BY <1>2, <1>3
<1>5. g \notin {0, opens + 1}  BY <1>2, <1>3
<1>6. CASE sock'[d].gen = g
  <2>1. sock'[d].gen = sock[d].gen /\ (sock[d].conn \in {"yes", "failed"} => sock'[d].conn \in {"yes", "failed"})
    BY <1>5, <1>6
  <2>2. QED  BY <1>3, <1>4, <1>6, <2>1
<1>7. QED  BY <1>3, <1>4, <1>6

-----------------------------------------------------------------------------
(* A call returns.                                                          *)

\* What a returning call leaves behind, the waiting fibers apart.
LEMMA ReturnsInv ==
  ASSUME IndInv, NEW f \in Fibers, Returns(f), pc[f] \notin Hands \cup {"wait"},
         timer' = [timer EXCEPT ![f] = FALSE] \/ (timer' = timer /\ ~timer[f]),
         sock' \in [Fds -> SockType], SameSockets,
         \A fd \in Fds : sock'[fd].conn = sock[fd].conn /\ sock'[fd].cond \subseteq sock[fd].cond,
         UNCHANGED <<m_datas, waiter, watched, reports, cancels, calls, aborted>>
  PROVE  IndInv'
<1>1. /\ pc' = [pc EXCEPT ![f] = "idle"] /\ call' = [call EXCEPT ![f] = NoCall]
      /\ woken' = [woken EXCEPT ![f] = "no"] /\ tinfo' = [tinfo EXCEPT ![f] = FALSE]
      /\ fired' = [fired EXCEPT ![f] = 0]
  BY DEF Returns, Goto
<1>2. pc'[f] = "idle" /\ call'[f] = NoCall /\ woken'[f] = "no" /\ fired'[f] = 0 /\ ~timer'[f]
      /\ \A g \in Fibers \ {f} : /\ pc'[g] = pc[g] /\ call'[g] = call[g] /\ woken'[g] = woken[g]
                                 /\ fired'[g] = fired[g]
  BY <1>1, Types
<1>3. \A g \in Fibers \ {f} : timer'[g] = timer[g] /\ tinfo'[g] = tinfo[g]  BY <1>1, Types
<1>4. Exact'  BY <1>2, MoveExact
<1>5. tinfo' \in [Fibers -> BOOLEAN] /\ timer' \in [Fibers -> BOOLEAN]  BY <1>1, Types
<1>6. WaitersExact'
  <2>1. pc' \in [Fibers -> Places] /\ call' \in [Fibers -> CallType] /\ woken' \in [Fibers -> WokenNames]
        /\ fired' \in [Fibers -> Nat]
    BY <1>1, Types, NoCallType DEF Places, WokenNames
  <2>2. opens' \in 0..MaxOpens /\ rawCloses' \in SUBSET Fds /\ strays' \in SUBSET (0..MaxOpens)
    BY Types DEF SameSockets
  <2>3. QED  BY <1>4, <1>5, <2>1, <2>2, Types, TypesBack
<1>7. CallShape'  BY <1>2, NoCallType DEF IndInv, CallShape
<1>8. TimerOwned' /\ FiredOwned'  BY <1>2, <1>3 DEF IndInv, TimerOwned, FiredOwned
<1>9. InOneHand' /\ ContextsRight' /\ GensPast' /\ Nonblocking'
  <2>1. QuietFiber(f)  BY <1>2, QuietIfReturned
  <2>2. \A g \in Fibers \ {f} : QuietFiber(g)  BY <1>2, QuietIfStill
  <2>3. SameContexts  BY DEF SameContexts
  <2>4. QED  BY <1>7, <2>1, <2>2, <2>3, QuietContexts
<1>10. WakersTold'
  <2>1. \A fd \in Fds : "WRITE" \in sock'[fd].cond => sock'[fd].conn \in {"yes", "failed"}
    BY DEF IndInv, WakersTold
  <2>2. \A g \in Fibers : pc[g] \in {"woken", "soerror"} => call[g].fd \in Fds  BY DEF IndInv, CallShape
  <2>3. QED  BY <1>2, <1>3, <2>1, <2>2 DEF IndInv, WakersTold, SameSockets
<1>11. ReportsTold'  BY ReportsStay DEF SameSockets
<1>12. QED  BY <1>6, <1>7, <1>8, <1>9, <1>10, <1>11 DEF IndInv

LEMMA SameIfUnchanged ==
  ASSUME UNCHANGED <<sock, opens, rawCloses, strays>>
  PROVE  SameSockets
  BY DEF SameSockets

\* Changing what a socket is ready for, or how its connection is, leaves the rest alone.
LEMMA CondSet ==
  ASSUME sock \in [Fds -> SockType], NEW d \in Fds, NEW c \in SUBSET Dirs, sock' = [sock EXCEPT ![d].cond = c]
  PROVE  /\ sock' \in [Fds -> SockType]
         /\ sock'[d].gen = sock[d].gen /\ sock'[d].nonblock = sock[d].nonblock
         /\ sock'[d].conn = sock[d].conn /\ sock'[d].cond = c
         /\ \A x \in Fds \ {d} : sock'[x] = sock[x]
<1> DEFINE r == [sock[d] EXCEPT !.cond = c]
<1>1. sock[d] \in SockType  OBVIOUS
<1>2. /\ r \in SockType /\ r.gen = sock[d].gen /\ r.nonblock = sock[d].nonblock /\ r.conn = sock[d].conn /\ r.cond = c
  BY <1>1 DEF SockType
<1> HIDE DEF r
<1>3. sock' = [sock EXCEPT ![d] = r]  BY DEF r
<1>4. QED  BY <1>2, <1>3

LEMMA CallEndsInv ==
  ASSUME IndInv, NEW f \in Fibers, CallEnds(f)
  PROVE  IndInv'
<1> DEFINE fd == call[f].fd
<1>1. /\ pc[f] \in {"try", "raw"} /\ Returns(f)
      /\ UNCHANGED <<opens, m_datas, waiter, watched, reports, timer, cancels, calls, rawCloses, strays, aborted>>
  BY DEF CallEnds, Calling, io, world
<1>2. fd \in Fds /\ ~timer[f]  BY <1>1 DEF IndInv, CallShape, TimerOwned
<1>3. sock' = sock \/ \E left \in SUBSET sock[fd].cond : sock' = [sock EXCEPT ![fd].cond = left]
  BY DEF CallEnds
<1>4. sock' \in [Fds -> SockType] /\ \A d \in Fds : /\ sock'[d].gen = sock[d].gen /\ sock'[d].nonblock = sock[d].nonblock
                                                    /\ sock'[d].conn = sock[d].conn /\ sock'[d].cond \subseteq sock[d].cond
  <2>1. CASE sock' = sock  BY <2>1, Types
  <2>2. CASE \E left \in SUBSET sock[fd].cond : sock' = [sock EXCEPT ![fd].cond = left]
    <3>1. PICK left \in SUBSET sock[fd].cond : sock' = [sock EXCEPT ![fd].cond = left]  BY <2>2
    <3>2. left \in SUBSET Dirs  BY <1>2, Types DEF SockType
    <3>3. /\ sock' \in [Fds -> SockType]
          /\ sock'[fd].gen = sock[fd].gen /\ sock'[fd].nonblock = sock[fd].nonblock
          /\ sock'[fd].conn = sock[fd].conn /\ sock'[fd].cond = left
          /\ \A x \in Fds \ {fd} : sock'[x] = sock[x]
      <4>1. sock \in [Fds -> SockType]  BY Types
      <4> HIDE DEF fd
      <4>2. QED  BY <1>2, <3>1, <3>2, <4>1, CondSet
    <3>4. QED  BY <3>1, <3>3
  <2>3. QED  BY <1>3, <2>1, <2>2
<1>5. SameSockets  BY <1>1, <1>4 DEF SameSockets
<1>6. QED  BY <1>1, <1>2, <1>4, <1>5, ReturnsInv DEF Hands

LEMMA SoErrorInv ==
  ASSUME IndInv, NEW f \in Fibers, SoError(f)
  PROVE  IndInv'
<1>1. /\ pc[f] = "soerror" /\ Returns(f)
      /\ UNCHANGED <<sock, opens, m_datas, waiter, watched, reports, timer, cancels, calls, rawCloses, strays, aborted>>
  BY DEF SoError, kernel, io, world
<1>2. ~timer[f]  BY <1>1 DEF IndInv, TimerOwned
<1>3. QED  BY <1>1, <1>2, Types, SameIfUnchanged, ReturnsInv DEF Hands

LEMMA SleepEndsInv ==
  ASSUME IndInv, NEW f \in Fibers, SleepEnds(f)
  PROVE  IndInv'
<1>1. /\ pc[f] = "sleep" /\ fired[f] > 0 /\ Returns(f)
      /\ UNCHANGED <<sock, opens, m_datas, waiter, watched, reports, timer, cancels, calls, rawCloses, strays, aborted>>
  BY DEF SleepEnds, kernel, io, world
<1>2. ~timer[f]  BY <1>1 DEF IndInv, FiredOwned
<1>3. QED  BY <1>1, <1>2, Types, SameIfUnchanged, ReturnsInv DEF Hands

-----------------------------------------------------------------------------
(* A call goes on.                                                          *)

\* A fiber moves on in its call, without a wait.
LEMMA GoesOn ==
  ASSUME IndInv, NEW f \in Fibers, NEW place, pc' = [pc EXCEPT ![f] = place],
         place \in Places \ (Hands \cup {"wait", "idle", "sleep", "woken", "fcntl"}),
         pc[f] \notin Hands \cup {"wait", "idle", "sleep", "fcntl"},
         timer' \in [Fibers -> BOOLEAN], \A g \in Fibers \ {f} : timer'[g] = timer[g],
         timer'[f] => place = "add",
         place \in {"raw", "try"} => call[f].kind \in IOKinds,
         place = "soerror" => call[f].kind = "connect" /\ woken[f] # "timeout",
         place \in {"arm", "add", "blocked"} /\ call[f].kind = "connect" => woken[f] = "no",
         place = "soerror" /\ woken[f] = "event" => pc[f] = "woken",
         place = "blocked" /\ call[f].ctxGen # 0 => Excused(call[f]),
         UNCHANGED <<sock, opens, m_datas, waiter, watched, reports, call, tinfo, fired, cancels, woken, calls, rawCloses, strays, aborted>>
  PROVE  IndInv'
<1>1. pc'[f] = place /\ \A g \in Fibers \ {f} : pc'[g] = pc[g]  BY Types
<1>2. Exact'  BY <1>1, MoveExact
<1>3. WaitersExact'
  <2>1. pc' \in [Fibers -> Places]  BY Types
  <2>2. QED  BY <1>2, <2>1, Types, TypesBack
<1>4. CallShape'
  <2>1. /\ call[f].fd \in Fds /\ call[f].gen # 0 /\ call[f].made = NoFd
        /\ call[f].kind \in IOKinds \cup {"connect"}
    BY Types DEF IndInv, CallShape, Hands, Places
  <2>2. QED  BY <1>1, <2>1 DEF IndInv, CallShape, Hands
<1>5. TimerOwned' /\ FiredOwned'  BY <1>1 DEF IndInv, TimerOwned, FiredOwned, Hands
<1>6. InOneHand' /\ ContextsRight' /\ GensPast' /\ Nonblocking'
  <2>1. QuietFiber(f)
    <3>1. ~MayBlock(call'[f])  BY NobodyMayBlock
    <3>2. call'[f].gen <= opens /\ call'[f].ctxGen <= opens  BY DEF IndInv, GensPast
    <3>3. QED  BY <1>1, <3>1, <3>2 DEF QuietFiber
  <2>2. \A g \in Fibers \ {f} : QuietFiber(g)  BY <1>1, QuietIfStill
  <2>3. SameContexts /\ SameSockets  BY DEF SameContexts, SameSockets
  <2>4. QED  BY <1>4, <2>1, <2>2, <2>3, QuietContexts
<1>7. WakersTold'  BY <1>1 DEF IndInv, WakersTold, Hands
<1>8. ReportsTold'  BY ReportsStay
<1>9. QED  BY <1>3, <1>4, <1>5, <1>6, <1>7, <1>8 DEF IndInv

LEMMA CallWouldBlockInv ==
  ASSUME IndInv, NEW f \in Fibers, CallWouldBlock(f)
  PROVE  IndInv'
<1>1. /\ pc[f] \in {"try", "raw"}
      /\ UNCHANGED <<sock, opens, m_datas, waiter, watched, reports, timer, cancels, calls, rawCloses, strays, aborted>>
  BY DEF CallWouldBlock, Calling, kernel, io, world
<1>2. ~timer[f] /\ call[f].kind \in IOKinds  BY <1>1 DEF IndInv, TimerOwned, CallShape
<1>3. CASE pc[f] = "raw"
  <2>1. Returns(f)  BY <1>3 DEF CallWouldBlock
  <2>2. QED  BY <1>1, <1>2, <2>1, Types, SameIfUnchanged, ReturnsInv DEF Hands
<1>4. CASE pc[f] # "raw"
  <2>1. pc' = [pc EXCEPT ![f] = "arm"] /\ UNCHANGED <<call, woken, tinfo, fired>>
    BY <1>4 DEF CallWouldBlock, Goto
  <2>2. QED  BY <1>1, <1>2, <2>1, Types, GoesOn DEF Hands, Places, IOKinds
<1>5. QED  BY <1>3, <1>4

LEMMA CallBlocksInv ==
  ASSUME IndInv, NEW f \in Fibers, CallBlocks(f)
  PROVE  IndInv'
<1>1. /\ pc[f] \in {"try", "raw"} /\ pc' = [pc EXCEPT ![f] = "blocked"]
      /\ UNCHANGED <<sock, opens, m_datas, waiter, watched, reports, call, tinfo, timer, fired, cancels, woken,
                     calls, rawCloses, strays, aborted>>
  BY DEF CallBlocks, Calling, Goto, kernel, io, timing, world
<1>2. ~timer[f] /\ call[f].kind \in IOKinds /\ call[f].fd \in Fds
  BY <1>1 DEF IndInv, TimerOwned, CallShape
<1>3. ~sock[call[f].fd].nonblock  BY DEF CallBlocks, CallOutcome, Outcome
<1>4. call[f].ctxGen # 0 => Excused(call[f])
  BY <1>2, <1>3, NobodyMayBlock DEF MayBlock, Excused
<1>5. QED  BY <1>1, <1>2, <1>4, Types, GoesOn DEF Hands, Places, IOKinds

LEMMA UnblocksInv ==
  ASSUME IndInv, NEW f \in Fibers, Unblocks(f)
  PROVE  IndInv'
<1>1. /\ pc[f] = "blocked"
      /\ UNCHANGED <<sock, opens, m_datas, waiter, watched, reports, timer, cancels, calls, rawCloses, strays, aborted>>
  BY DEF Unblocks, kernel, io, world
<1>2. ~timer[f] /\ call[f].kind \in IOKinds \cup {"connect"}  BY <1>1 DEF IndInv, TimerOwned, CallShape
<1>3. CASE call[f].kind = "connect"
  <2>1. Returns(f)  BY <1>3 DEF Unblocks
  <2>2. QED  BY <1>1, <1>2, <2>1, Types, SameIfUnchanged, ReturnsInv DEF Hands
<1>4. CASE call[f].kind # "connect"
  <2> DEFINE place == IF call[f].ctxGen = 0 THEN "raw" ELSE "try"
  <2>1. pc' = [pc EXCEPT ![f] = place] /\ UNCHANGED <<call, woken, tinfo, fired>>
    BY <1>4 DEF Unblocks, Goto
  <2>2. place \in {"raw", "try"}  OBVIOUS
  <2> HIDE DEF place
  <2>3. QED  BY <1>1, <1>2, <1>4, <2>1, <2>2, Types, GoesOn DEF Hands, Places
<1>5. QED  BY <1>3, <1>4

LEMMA ArmInv ==
  ASSUME IndInv, NEW f \in Fibers, Arm(f)
  PROVE  IndInv'
<1>1. /\ pc[f] = "arm" /\ pc' = [pc EXCEPT ![f] = "add"]
      /\ UNCHANGED <<sock, opens, m_datas, waiter, watched, reports, call, tinfo, fired, cancels, woken,
                     calls, rawCloses, strays, aborted>>
  BY DEF Arm, Goto, kernel, io, world
<1>2. timer' \in [Fibers -> BOOLEAN] /\ \A g \in Fibers \ {f} : timer'[g] = timer[g]
  <2>1. CASE call[f].timed
    <3>1. PICK kept \in BOOLEAN : timer' = [timer EXCEPT ![f] = kept]  BY <2>1 DEF Arm, AddsTimer
    <3>2. QED  BY <3>1, Types
  <2>2. CASE ~call[f].timed  BY <2>2, Types DEF Arm
  <2>3. QED  BY <2>1, <2>2
<1>3. call[f].kind = "connect" => woken[f] = "no"  BY <1>1 DEF IndInv, WakersTold
<1>4. QED  BY <1>1, <1>2, <1>3, GoesOn DEF Hands, Places

LEMMA ResumesInv ==
  ASSUME IndInv, NEW f \in Fibers, Resumes(f)
  PROVE  IndInv'
<1>1. /\ pc[f] = "woken" /\ timer' = [timer EXCEPT ![f] = FALSE]
      /\ UNCHANGED <<sock, opens, m_datas, waiter, watched, reports, cancels, calls, rawCloses, strays, aborted>>
  BY DEF Resumes, kernel, io, world
<1>2. CASE tinfo[f]
  <2>1. Returns(f)  BY <1>2 DEF Resumes
  <2>2. QED  BY <1>1, <2>1, Types, SameIfUnchanged, ReturnsInv DEF Hands
<1>3. CASE ~tinfo[f]
  <2> DEFINE place == IF call[f].kind = "connect" THEN "soerror" ELSE "try"
  <2>1. pc' = [pc EXCEPT ![f] = place] /\ UNCHANGED <<call, woken, tinfo, fired>>
    BY <1>3 DEF Resumes, Goto
  <2>2. /\ (place = "soerror" /\ call[f].kind = "connect") \/ (place = "try" /\ call[f].kind \in IOKinds)
        /\ woken[f] # "timeout"
    <3>1. woken[f] = "timeout" => tinfo[f]  BY <1>1 DEF IndInv, WakersTold
    <3>2. call[f].kind \in IOKinds \cup {"connect"}  BY <1>1 DEF IndInv, CallShape
    <3>3. QED  BY <1>3, <3>1, <3>2
  <2>3. timer' \in [Fibers -> BOOLEAN] /\ ~timer'[f] /\ \A g \in Fibers \ {f} : timer'[g] = timer[g]
    BY <1>1, Types
  <2> HIDE DEF place
  <2>4. place \in Places \ (Hands \cup {"wait", "idle", "sleep", "woken", "fcntl"})
    BY <2>2 DEF Hands, Places
  <2>5. QED  BY <1>1, <2>1, <2>2, <2>3, <2>4, GoesOn DEF Hands
<1>4. QED  BY <1>2, <1>3

LEMMA AddEventInv ==
  ASSUME IndInv, NEW f \in Fibers, addEvent(f)
  PROVE  IndInv'
<1> DEFINE fd == call[f].fd
<1> DEFINE e == Dir(call[f].kind)
<1>1. pc[f] = "add" /\ UNCHANGED <<sock, opens, m_datas, cancels, calls, rawCloses, strays>>
  BY DEF addEvent, kernel
<1>2. fd \in Fds /\ e \in Dirs  BY <1>1, DirType DEF IndInv, CallShape
<1>3. CASE /\ aborted' = TRUE
           /\ UNCHANGED <<waiter, watched, reports, pc, call, woken, tinfo, fired, timer>>
  <2>1. aborted' \in BOOLEAN  BY <1>3
  <2>2. WaitersExact'  BY <1>1, <1>3, <2>1, Types, TypesBack DEF Exact
  <2>3. TimerOwned' /\ CallShape' /\ FiredOwned' /\ WakersTold' /\ GensPast'
    BY <1>1, <1>3 DEF IndInv, TimerOwned, CallShape, FiredOwned, WakersTold, GensPast
  <2>0. ReportsTold'  BY <1>1, <1>3, ReportsStay
  <2>4. \A g \in Fibers : QuietFiber(g)  BY <1>3, QuietIfStill
  <2>5. SameSockets /\ SameContexts  BY <1>1 DEF SameSockets, SameContexts
  <2>6. QED  BY <2>0, <2>2, <2>3, <2>4, <2>5, QuietContexts DEF IndInv
<1>4. CASE /\ waiter[fd][e] = NoFiber /\ waiter' = [waiter EXCEPT ![fd][e] = f]
           /\ watched' \in [Fds -> SUBSET Dirs]
           /\ pc' = [pc EXCEPT ![f] = "wait"]
           /\ UNCHANGED <<reports, call, woken, tinfo, fired, timer, aborted>>
  <2>1. pc'[f] = "wait" /\ \A g \in Fibers \ {f} : pc'[g] = pc[g]  BY <1>4, Types
  <2>2. waiter' \in [Fds -> [Dirs -> Fibers \cup {NoFiber}]] /\ waiter'[fd][e] = f
        /\ \A d \in Fds, x \in Dirs : d # fd \/ x # e => waiter'[d][x] = waiter[d][x]
    BY <1>2, <1>4, Types
  <2>3. Exact'
    <3>1. Exact  BY Types
    <3>2. \A g \in Fibers : g # NoFiber  BY HookAssumption
    <3>3. \A d \in Fds, x \in Dirs : waiter[d][x] # f  BY <1>1, <3>1 DEF Exact
    <3>4. ASSUME NEW g \in Fibers, NEW d \in Fds, NEW x \in Dirs
          PROVE  waiter'[d][x] = g <=> pc'[g] = "wait" /\ call'[g].fd = d /\ Dir(call'[g].kind) = x
      <4>1. CASE d = fd /\ x = e
        <5>1. CASE g = f  BY <1>4, <2>1, <2>2, <4>1, <5>1
        <5>2. CASE g # f
          <6>1. waiter'[d][x] # g  BY <2>2, <4>1, <5>2
          <6>2. waiter[d][x] # g  BY <1>4, <3>2, <4>1
          <6>3. QED  BY <1>4, <2>1, <3>1, <5>2, <6>1, <6>2 DEF Exact
        <5>3. QED  BY <5>1, <5>2
      <4>2. CASE d # fd \/ x # e
        <5>1. waiter'[d][x] = waiter[d][x]  BY <2>2, <4>2
        <5>2. CASE g = f  BY <1>4, <3>3, <4>2, <5>1, <5>2
        <5>3. CASE g # f  BY <1>4, <2>1, <3>1, <5>1, <5>3 DEF Exact
        <5>4. QED  BY <5>2, <5>3
      <4>3. QED  BY <4>1, <4>2
    <3>5. QED  BY <3>4 DEF Exact
  <2>4. WaitersExact'
    <3>1. pc' \in [Fibers -> Places]  BY <1>4, Types DEF Places
    <3>2. QED  BY <1>1, <1>4, <2>2, <2>3, <3>1, Types, TypesBack
  <2>5. CallShape'  BY <1>1, <1>4, <2>1 DEF IndInv, CallShape
  <2>6. TimerOwned' /\ FiredOwned'  BY <1>4, <2>1 DEF IndInv, TimerOwned, FiredOwned
  <2>7. \A g \in Fibers : QuietFiber(g)  BY <1>1, <1>4, <2>1, QuietIfStill DEF Hands
  <2>8. SameSockets /\ SameContexts  BY <1>1 DEF SameSockets, SameContexts
  <2>9. WakersTold'  BY <1>1, <1>4, <2>1 DEF IndInv, WakersTold
  <2>10. ReportsTold'  BY <1>1, <1>4, ReportsStay
  <2>11. QED  BY <2>4, <2>5, <2>6, <2>7, <2>8, <2>9, <2>10, QuietContexts DEF IndInv
<1>5. CASE /\ timer' = [timer EXCEPT ![f] = FALSE] /\ UNCHANGED <<waiter, watched, reports, aborted>>
           /\ IF call[f].kind = "connect"
              THEN pc' = [pc EXCEPT ![f] = "soerror"] /\ UNCHANGED <<call, woken, tinfo, fired>>
              ELSE Returns(f)
  <2>1. timer' \in [Fibers -> BOOLEAN] /\ ~timer'[f] /\ \A g \in Fibers \ {f} : timer'[g] = timer[g]
    BY <1>5, Types
  <2>2. CASE call[f].kind = "connect"
    <3>1. woken[f] = "no"  BY <1>1, <2>2 DEF IndInv, WakersTold
    <3>2. QED  BY <1>1, <1>5, <2>1, <2>2, <3>1, GoesOn DEF Hands, Places
  <2>3. CASE call[f].kind # "connect"
    <3>1. Returns(f)  BY <1>5, <2>3
    <3>2. QED  BY <1>1, <1>5, <3>1, Types, SameIfUnchanged, ReturnsInv DEF Hands
  <2>4. QED  BY <2>2, <2>3
<1>6. watched' = [watched EXCEPT ![fd] = Events(fd) \cup {e}] => watched' \in [Fds -> SUBSET Dirs]
  BY <1>2, Types DEF Events
<1>7. e \notin Events(fd) => waiter[fd][e] = NoFiber  BY <1>2 DEF Events
<1>8. QED  BY <1>3, <1>4, <1>5, <1>6, <1>7 DEF addEvent, Goto, io

-----------------------------------------------------------------------------
(* A call begins.                                                           *)

\* An idle fiber begins a call that hands out no number, or makes one that is
\* over at once: everything but the contexts.
LEMMA BeginKeeps ==
  ASSUME IndInv, NEW f \in Fibers, pc[f] = "idle", NEW c \in CallType, NEW place,
         place \in {"idle", "sleep", "try", "raw", "arm", "blocked", "fcntl"},
         pc' = [pc EXCEPT ![f] = place], call' = [call EXCEPT ![f] = c], c.made = NoFd,
         place \notin {"idle", "sleep"} => c.fd \in Fds /\ c.gen # 0,
         place = "fcntl" => c.kind \in {"fcntl", "fcntlBlock"},
         place \notin {"idle", "sleep", "fcntl"} => c.kind \in IOKinds \cup {"connect"},
         place \in {"try", "raw"} => c.kind \in IOKinds,
         calls' \in 0..MaxCalls, m_datas' \in [Fds -> CtxType],
         timer' \in [Fibers -> BOOLEAN], \A g \in Fibers \ {f} : timer'[g] = timer[g],
         timer'[f] => place = "sleep",
         sock' \in [Fds -> SockType], opens' = opens,
         \A fd \in Fds : /\ sock'[fd].gen = sock[fd].gen
                         /\ "WRITE" \in sock'[fd].cond => sock'[fd].conn \in {"yes", "failed"}
                         /\ sock[fd].conn \in {"yes", "failed"} => sock'[fd].conn \in {"yes", "failed"},
         UNCHANGED <<waiter, watched, reports, tinfo, fired, cancels, woken, rawCloses, strays, aborted>>
  PROVE  WaitersExact' /\ TimerOwned' /\ CallShape' /\ FiredOwned' /\ WakersTold' /\ ReportsTold'
<1>1. /\ pc'[f] = place /\ call'[f] = c
      /\ \A g \in Fibers \ {f} : pc'[g] = pc[g] /\ call'[g] = call[g]
  BY Types
<1>2. WaitersExact'
  <2>1. Exact'  BY <1>1, MoveExact
  <2>2. pc' \in [Fibers -> Places] /\ call' \in [Fibers -> CallType]  BY Types DEF Places
  <2>3. QED  BY <2>1, <2>2, Types, TypesBack
<1>3. CallShape'  BY <1>1 DEF IndInv, CallShape
<1>4. fired[f] = 0 /\ woken[f] = "no"  BY DEF IndInv, FiredOwned, WakersTold
<1>5. TimerOwned' /\ FiredOwned'
  <2>1. TimerOwned'  BY <1>1 DEF IndInv, TimerOwned
  <2>2. FiredOwned'  BY <1>1, <1>4 DEF IndInv, FiredOwned
  <2>3. QED  BY <2>1, <2>2
<1>6. WakersTold'
  <2>1. \A g \in Fibers : pc[g] \in {"woken", "soerror"} => call[g].fd \in Fds  BY DEF IndInv, CallShape
  <2>2. QED  BY <1>1, <1>4, <2>1 DEF IndInv, WakersTold
<1>7. ReportsTold'  BY ReportsStay
<1>8. QED  BY <1>2, <1>3, <1>5, <1>6, <1>7

\* What the bound on calls gives.
LEMMA CountedCalls ==
  ASSUME IndInv, Counted
  PROVE  calls' \in 0..MaxCalls /\ UNCHANGED <<rawCloses, strays, aborted>>
  BY Types, HookAssumption DEF Counted

LEMMA SleepInv ==
  ASSUME IndInv, NEW f \in Fibers, Sleep(f)
  PROVE  IndInv'
<1>1. /\ pc[f] = "idle" /\ Counted /\ call' = [call EXCEPT ![f] = NoCall] /\ pc' = [pc EXCEPT ![f] = "sleep"]
      /\ \E kept \in BOOLEAN : timer' = [timer EXCEPT ![f] = kept]
      /\ UNCHANGED <<sock, opens, m_datas, waiter, watched, reports, tinfo, fired, cancels, woken>>
  BY DEF Sleep, Begin, Goto, AddsTimer, kernel, io
<1>2. calls' \in 0..MaxCalls /\ UNCHANGED <<rawCloses, strays, aborted>>  BY <1>1, CountedCalls
<1>3. timer' \in [Fibers -> BOOLEAN] /\ \A g \in Fibers \ {f} : timer'[g] = timer[g]
  <2>1. PICK kept \in BOOLEAN : timer' = [timer EXCEPT ![f] = kept]  BY <1>1
  <2>2. QED  BY <2>1, Types
<1>4. \A fd \in Fds : "WRITE" \in sock[fd].cond => sock[fd].conn \in {"yes", "failed"}
  BY DEF IndInv, WakersTold
<1>5. WaitersExact' /\ TimerOwned' /\ CallShape' /\ FiredOwned' /\ WakersTold' /\ ReportsTold'
  BY <1>1, <1>2, <1>3, <1>4, Types, NoCallType, BeginKeeps
<1>6. \A g \in Fibers : QuietFiber(g)
  <2>1. \A g \in Fibers \ {f} : pc'[g] = pc[g] /\ call'[g] = call[g]  BY <1>1, Types
  <2>2. pc'[f] = "sleep" /\ call'[f] = NoCall  BY <1>1, Types
  <2>3. QuietFiber(f)  BY <1>1, <2>2, QuietIfReturned DEF Hands
  <2>4. QED  BY <2>1, <2>3, QuietIfStill
<1>7. SameSockets /\ SameContexts  BY <1>1, <1>2 DEF SameSockets, SameContexts
<1>8. QED  BY <1>5, <1>6, <1>7, QuietContexts DEF IndInv

LEMMA DoIoInv ==
  ASSUME IndInv, NEW f \in Fibers, NEW kind \in IOKinds, NEW fd \in Fds, do_io(f, kind, fd)
  PROVE  IndInv'
<1> DEFINE ctx == m_datas[fd]
<1> DEFINE managed == ctx # NoCtx /\ ~ctx.userNonblock
<1> DEFINE c == [kind |-> kind, fd |-> fd, gen |-> sock[fd].gen, made |-> NoFd,
                 ctxGen |-> IF managed THEN ctx.gen ELSE 0,
                 timed |-> managed /\ ctx.timed[Dir(kind)]]
<1> DEFINE place == IF managed THEN "try" ELSE "raw"
<1>1. /\ Known(fd) /\ pc[f] = "idle" /\ Counted
      /\ call' = [call EXCEPT ![f] = c] /\ pc' = [pc EXCEPT ![f] = place]
      /\ UNCHANGED <<sock, opens, m_datas, waiter, watched, reports, tinfo, timer, fired, cancels, woken>>
  BY DEF do_io, Begin, Goto, kernel, io, timing
<1>2. calls' \in 0..MaxCalls /\ UNCHANGED <<rawCloses, strays, aborted>>  BY <1>1, CountedCalls
<1>3. place \in {"try", "raw"}  OBVIOUS
<1>4. /\ c \in CallType /\ c.made = NoFd /\ c.fd = fd /\ c.gen = sock[fd].gen /\ c.kind = kind
      /\ c.ctxGen = 0 \/ c.ctxGen = m_datas[fd].gen
  <2>1. sock[fd].gen \in 0..MaxOpens /\ m_datas[fd].gen \in 0..MaxOpens  BY Types DEF SockType, CtxType
  <2>2. (managed /\ ctx.timed[Dir(kind)]) \in BOOLEAN  BY Types, DirType DEF CtxType
  <2>3. (IF managed THEN ctx.gen ELSE 0) \in 0..MaxOpens  BY <2>1, HookAssumption
  <2>4. kind \in Kinds  BY DEF IOKinds, Kinds
  <2>5. QED  BY <2>1, <2>2, <2>3, <2>4 DEF CallType
<1> HIDE DEF c, place
<1>5. sock[fd].gen # 0  BY <1>1 DEF Known
<1>6. \A d \in Fds : "WRITE" \in sock[d].cond => sock[d].conn \in {"yes", "failed"}
  BY DEF IndInv, WakersTold
<1>7. ~timer[f]  BY <1>1 DEF IndInv, TimerOwned
<1>8. WaitersExact' /\ TimerOwned' /\ CallShape' /\ FiredOwned' /\ WakersTold' /\ ReportsTold'
  BY <1>1, <1>2, <1>3, <1>4, <1>5, <1>6, <1>7, Types, BeginKeeps
<1>9. \A g \in Fibers : QuietFiber(g)
  <2>1. \A g \in Fibers \ {f} : pc'[g] = pc[g] /\ call'[g] = call[g]  BY <1>1, Types
  <2>2. pc'[f] = place /\ call'[f] = c /\ call[f].made = NoFd  BY <1>1, Types DEF IndInv, CallShape
  <2>3. c.gen <= opens /\ c.ctxGen <= opens  BY <1>4, Types, HookAssumption DEF IndInv, GensPast
  <2>4. ~MayBlock(c)  BY <1>4 DEF MayBlock, IndInv, Nonblocking
  <2>5. QuietFiber(f)  BY <1>1, <1>3, <1>4, <2>2, <2>3, <2>4 DEF QuietFiber, Hands
  <2>6. QED  BY <2>1, <2>5, QuietIfStill
<1>10. SameSockets /\ SameContexts  BY <1>1, <1>2 DEF SameSockets, SameContexts
<1>11. QED  BY <1>8, <1>9, <1>10, QuietContexts DEF IndInv

\* Changing how the connection of a socket is leaves the rest alone.
LEMMA ConnSet ==
  ASSUME sock \in [Fds -> SockType], NEW d \in Fds, NEW v \in Conns, sock' = [sock EXCEPT ![d].conn = v]
  PROVE  /\ sock' \in [Fds -> SockType]
         /\ sock'[d].gen = sock[d].gen /\ sock'[d].nonblock = sock[d].nonblock
         /\ sock'[d].conn = v /\ sock'[d].cond = sock[d].cond
         /\ \A x \in Fds \ {d} : sock'[x] = sock[x]
<1> DEFINE r == [sock[d] EXCEPT !.conn = v]
<1>1. sock[d] \in SockType  OBVIOUS
<1>2. /\ r \in SockType /\ r.gen = sock[d].gen /\ r.nonblock = sock[d].nonblock /\ r.conn = v /\ r.cond = sock[d].cond
  BY <1>1 DEF SockType
<1> HIDE DEF r
<1>3. sock' = [sock EXCEPT ![d] = r]  BY DEF r
<1>4. QED  BY <1>2, <1>3

\* A call that is over at once, on sockets that stay what they are.
LEMMA IdleCall ==
  ASSUME IndInv, NEW f \in Fibers, Begin(f, NoCall, "idle"), SameSockets, SameContexts,
         m_datas' \in [Fds -> CtxType], sock' \in [Fds -> SockType],
         \A fd \in Fds : /\ "WRITE" \in sock'[fd].cond => sock'[fd].conn \in {"yes", "failed"}
                         /\ sock[fd].conn \in {"yes", "failed"} => sock'[fd].conn \in {"yes", "failed"},
         UNCHANGED <<waiter, watched, reports, tinfo, timer, fired, cancels, woken>>
  PROVE  IndInv'
<1>1. /\ pc[f] = "idle" /\ Counted /\ call' = [call EXCEPT ![f] = NoCall] /\ pc' = [pc EXCEPT ![f] = "idle"]
  BY DEF Begin, Goto
<1>2. calls' \in 0..MaxCalls /\ UNCHANGED <<rawCloses, strays, aborted>>  BY <1>1, CountedCalls
<1>3. ~timer[f]  BY <1>1 DEF IndInv, TimerOwned
<1>4. opens' = opens /\ \A fd \in Fds : sock'[fd].gen = sock[fd].gen  BY DEF SameSockets
<1>5. WaitersExact' /\ TimerOwned' /\ CallShape' /\ FiredOwned' /\ WakersTold' /\ ReportsTold'
  BY <1>1, <1>2, <1>3, <1>4, Types, NoCallType, BeginKeeps
<1>6. \A g \in Fibers : QuietFiber(g)
  <2>1. \A g \in Fibers \ {f} : pc'[g] = pc[g] /\ call'[g] = call[g]  BY <1>1, Types
  <2>2. pc'[f] = "idle" /\ call'[f] = NoCall  BY <1>1, Types
  <2>3. QuietFiber(f)  BY <1>1, <2>2, QuietIfReturned DEF Hands
  <2>4. QED  BY <2>1, <2>3, QuietIfStill
<1>7. QED  BY <1>5, <1>6, QuietContexts DEF IndInv

LEMMA ConnectInv ==
  ASSUME IndInv, NEW f \in Fibers, NEW fd \in Fds, NEW timed \in BOOLEAN, Connect(f, fd, timed)
  PROVE  IndInv'
<1> DEFINE ctx == m_datas[fd]
<1> DEFINE attempt == ctx # NoCtx /\ sock[fd].conn = "no"
<1> DEFINE c == [kind |-> "connect", fd |-> fd, gen |-> sock[fd].gen, made |-> NoFd,
                 ctxGen |-> IF attempt THEN ctx.gen ELSE 0, timed |-> timed]
<1> DEFINE place == IF sock[fd].nonblock THEN "arm" ELSE "blocked"
<1>1. /\ Known(fd) /\ UNCHANGED <<opens, m_datas, waiter, watched, reports, tinfo, timer, fired, cancels, woken>>
  BY DEF Connect, io, timing
<1>2. sock[fd].gen # 0 /\ sock \in [Fds -> SockType] /\ m_datas \in [Fds -> CtxType]  BY <1>1, Types DEF Known
<1>3. \A d \in Fds : "WRITE" \in sock[d].cond => sock[d].conn \in {"yes", "failed"}
  BY DEF IndInv, WakersTold
<1>4. SameContexts  BY <1>1 DEF SameContexts
<1>5. ASSUME NEW v \in Conns, sock' = [sock EXCEPT ![fd].conn = v], sock[fd].conn = "no",
             UNCHANGED <<rawCloses, strays>>
      PROVE  /\ sock' \in [Fds -> SockType] /\ SameSockets
             /\ \A d \in Fds : /\ sock'[d].gen = sock[d].gen
                               /\ "WRITE" \in sock'[d].cond => sock'[d].conn \in {"yes", "failed"}
                               /\ sock[d].conn \in {"yes", "failed"} => sock'[d].conn \in {"yes", "failed"}
  <2>1. /\ sock' \in [Fds -> SockType]
        /\ sock'[fd].gen = sock[fd].gen /\ sock'[fd].nonblock = sock[fd].nonblock
        /\ sock'[fd].conn = v /\ sock'[fd].cond = sock[fd].cond
        /\ \A x \in Fds \ {fd} : sock'[x] = sock[x]
    BY <1>2, <1>5, ConnSet
  <2>2. "WRITE" \notin sock[fd].cond  BY <1>3, <1>5
  <2>3. SameSockets  BY <1>1, <1>5, <2>1 DEF SameSockets
  <2>4. QED  BY <1>3, <1>5, <2>1, <2>2, <2>3
<1>6. CASE attempt /\ sock' = [sock EXCEPT ![fd].conn = "doing"] /\ Begin(f, c, place)
  <2>1. /\ pc[f] = "idle" /\ Counted /\ call' = [call EXCEPT ![f] = c] /\ pc' = [pc EXCEPT ![f] = place]
    BY <1>6 DEF Begin, Goto
  <2>2. calls' \in 0..MaxCalls /\ UNCHANGED <<rawCloses, strays, aborted>>  BY <2>1, CountedCalls
  <2>3. /\ c \in CallType /\ c.made = NoFd /\ c.fd = fd /\ c.gen = sock[fd].gen /\ c.kind = "connect"
        /\ c.ctxGen = m_datas[fd].gen
    <3>1. sock[fd].gen \in 0..MaxOpens /\ m_datas[fd].gen \in 0..MaxOpens  BY Types DEF SockType, CtxType
    <3>2. QED  BY <1>6, <3>1 DEF CallType, Kinds
  <2>4. place \in {"arm", "blocked"} /\ (place = "blocked" => ~sock[fd].nonblock)  OBVIOUS
  <2> HIDE DEF c, place
  <2>5. /\ sock' \in [Fds -> SockType] /\ SameSockets
        /\ \A d \in Fds : /\ sock'[d].gen = sock[d].gen
                          /\ "WRITE" \in sock'[d].cond => sock'[d].conn \in {"yes", "failed"}
                          /\ sock[d].conn \in {"yes", "failed"} => sock'[d].conn \in {"yes", "failed"}
    <3>1. "doing" \in Conns  BY DEF Conns
    <3>2. QED  BY <1>5, <1>6, <2>2, <3>1
  <2>6. ~timer[f]  BY <2>1 DEF IndInv, TimerOwned
  <2>7. WaitersExact' /\ TimerOwned' /\ CallShape' /\ FiredOwned' /\ WakersTold' /\ ReportsTold'
    BY <1>1, <1>2, <2>1, <2>2, <2>3, <2>4, <2>5, <2>6, Types, BeginKeeps
  <2>8. \A g \in Fibers : QuietFiber(g)
    <3>1. \A g \in Fibers \ {f} : pc'[g] = pc[g] /\ call'[g] = call[g]  BY <2>1, Types
    <3>2. pc'[f] = place /\ call'[f] = c /\ call[f].made = NoFd  BY <2>1, Types DEF IndInv, CallShape
    <3>3. c.gen <= opens /\ c.ctxGen <= opens  BY <2>3 DEF IndInv, GensPast
    <3>4. ~MayBlock(c)  BY <2>3 DEF MayBlock, IndInv, Nonblocking
    <3>5. place = "blocked" /\ c.ctxGen # 0 => Excused(c)
      BY <2>3, <2>4 DEF IndInv, Nonblocking, Excused
    <3>6. QuietFiber(f)  BY <2>1, <2>3, <2>4, <3>2, <3>3, <3>4, <3>5 DEF QuietFiber, Hands
    <3>7. QED  BY <3>1, <3>6, QuietIfStill
  <2>9. QED  BY <1>4, <2>5, <2>7, <2>8, QuietContexts DEF IndInv
<1>7. CASE /\ attempt /\ Begin(f, NoCall, "idle")
           /\ \E conn \in {"yes", "failed", "doing"} : sock' = [sock EXCEPT ![fd].conn = conn]
  <2>1. PICK conn \in {"yes", "failed", "doing"} : sock' = [sock EXCEPT ![fd].conn = conn]  BY <1>7
  <2>2. UNCHANGED <<rawCloses, strays>>  BY <1>7 DEF Begin, Counted
  <2>3. conn \in Conns  BY DEF Conns
  <2>4. QED  BY <1>1, <1>2, <1>4, <1>5, <1>7, <2>1, <2>2, <2>3, IdleCall
<1>8. CASE Begin(f, NoCall, "idle") /\ sock' = sock
  <2>1. UNCHANGED <<rawCloses, strays>>  BY <1>8 DEF Begin, Counted
  <2>2. SameSockets  BY <1>1, <1>8, <2>1 DEF SameSockets
  <2>3. QED  BY <1>1, <1>2, <1>3, <1>4, <1>8, <2>2, IdleCall
<1>9. QED
  <2>1. \/ attempt /\ sock' = [sock EXCEPT ![fd].conn = "doing"] /\ Begin(f, c, place)
        \/ /\ attempt /\ Begin(f, NoCall, "idle")
           /\ \E conn \in {"yes", "failed", "doing"} : sock' = [sock EXCEPT ![fd].conn = conn]
        \/ Begin(f, NoCall, "idle") /\ sock' = sock
    BY DEF Connect
  <2>2. QED  BY <1>6, <1>7, <1>8, <2>1

LEMMA SetTimeoutInv ==
  ASSUME IndInv, NEW f \in Fibers, NEW fd \in Fds, NEW e \in Dirs, SetTimeout(f, fd, e)
  PROVE  IndInv'
<1>1. /\ m_datas[fd] # NoCtx /\ Begin(f, NoCall, "idle") /\ UNCHANGED <<rawCloses, strays>>
      /\ m_datas' = [m_datas EXCEPT ![fd].timed[e] = TRUE]
      /\ UNCHANGED <<sock, opens, waiter, watched, reports, tinfo, timer, fired, cancels, woken>>
  BY DEF SetTimeout, Begin, Counted, kernel, io, timing
<1> DEFINE r == [m_datas[fd] EXCEPT !.timed[e] = TRUE]
<1>2. r \in CtxType /\ r.gen = m_datas[fd].gen  BY Types DEF CtxType
<1>3. m_datas' = [m_datas EXCEPT ![fd] = r]  BY <1>1
<1> HIDE DEF r
<1>4. m_datas' \in [Fds -> CtxType] /\ m_datas'[fd].gen = m_datas[fd].gen
      /\ \A d \in Fds \ {fd} : m_datas'[d] = m_datas[d]
  BY <1>2, <1>3, Types
<1>5. SameContexts
  <2>1. m_datas[fd].gen # 0  BY <1>1 DEF IndInv, ContextsRight
  <2>2. m_datas'[fd] # NoCtx  BY <1>4, <2>1 DEF NoCtx, NewCtx
  <2>3. QED  BY <1>1, <1>4, <2>2 DEF SameContexts
<1>6. SameSockets  BY <1>1 DEF SameSockets
<1>7. \A d \in Fds : "WRITE" \in sock[d].cond => sock[d].conn \in {"yes", "failed"}
  BY DEF IndInv, WakersTold
<1>8. QED  BY <1>1, <1>4, <1>5, <1>6, <1>7, Types, IdleCall

\* Changing whether a socket blocks leaves the rest alone.
LEMMA NonblockSet ==
  ASSUME sock \in [Fds -> SockType], NEW d \in Fds, NEW v \in BOOLEAN, sock' = [sock EXCEPT ![d].nonblock = v]
  PROVE  /\ sock' \in [Fds -> SockType]
         /\ sock'[d].gen = sock[d].gen /\ sock'[d].nonblock = v
         /\ sock'[d].conn = sock[d].conn /\ sock'[d].cond = sock[d].cond
         /\ \A x \in Fds \ {d} : sock'[x] = sock[x]
<1> DEFINE r == [sock[d] EXCEPT !.nonblock = v]
<1>1. sock[d] \in SockType  OBVIOUS
<1>2. /\ r \in SockType /\ r.gen = sock[d].gen /\ r.nonblock = v /\ r.conn = sock[d].conn /\ r.cond = sock[d].cond
  BY <1>1 DEF SockType
<1> HIDE DEF r
<1>3. sock' = [sock EXCEPT ![d] = r]  BY DEF r
<1>4. QED  BY <1>2, <1>3

\* The record of a call of fcntl().
FcntlCall(kind, fd, g, x) == [NoCall EXCEPT !.kind = kind, !.fd = fd, !.gen = g, !.ctxGen = x]

LEMMA FcntlRecord ==
  ASSUME NEW kind \in Kinds, NEW fd \in Fds, NEW g \in 0..MaxOpens, NEW x \in 0..MaxOpens
  PROVE  /\ FcntlCall(kind, fd, g, x) \in CallType /\ FcntlCall(kind, fd, g, x).made = NoFd
         /\ FcntlCall(kind, fd, g, x).kind = kind /\ FcntlCall(kind, fd, g, x).fd = fd
         /\ FcntlCall(kind, fd, g, x).gen = g /\ FcntlCall(kind, fd, g, x).ctxGen = x
<1> DEFINE k == [NoCall EXCEPT !.kind = kind]
<1> DEFINE b == [k EXCEPT !.fd = fd]
<1> DEFINE c == [b EXCEPT !.gen = g]
<1>1. FcntlCall(kind, fd, g, x) = [c EXCEPT !.ctxGen = x]  BY DEF FcntlCall
<1>2. k \in CallType /\ k.made = NoFd /\ k.kind = kind  BY NoCallType DEF CallType
<1> HIDE DEF k
<1>3. b \in CallType /\ b.made = NoFd /\ b.kind = kind /\ b.fd = fd  BY <1>2 DEF CallType
<1> HIDE DEF b
<1>4. c \in CallType /\ c.made = NoFd /\ c.kind = kind /\ c.fd = fd /\ c.gen = g  BY <1>3 DEF CallType
<1> HIDE DEF c
<1>5. QED  BY <1>1, <1>4 DEF CallType

LEMMA FcntlInv ==
  ASSUME IndInv, NEW f \in Fibers, NEW fd \in Fds, NEW nonblock \in BOOLEAN, Fcntl(f, fd, nonblock)
  PROVE  IndInv'
<1> DEFINE kind == IF m_datas[fd] # NoCtx \/ nonblock THEN "fcntl" ELSE "fcntlBlock"
<1> DEFINE c == FcntlCall(kind, fd, sock[fd].gen, m_datas[fd].gen)
<1>1. /\ Known(fd) /\ pc[f] = "idle" /\ Counted
      /\ call' = [call EXCEPT ![f] = c] /\ pc' = [pc EXCEPT ![f] = "fcntl"]
      /\ UNCHANGED <<sock, opens, waiter, watched, reports, tinfo, timer, fired, cancels, woken>>
  BY DEF Fcntl, Begin, Goto, FcntlCall, kernel, io, timing
<1>2. calls' \in 0..MaxCalls /\ UNCHANGED <<rawCloses, strays, aborted>>  BY <1>1, CountedCalls
<1>3. kind \in Kinds /\ kind \in {"fcntl", "fcntlBlock"} /\ (kind = "fcntlBlock" => m_datas[fd] = NoCtx)
  BY DEF Kinds
<1>4. /\ c \in CallType /\ c.made = NoFd /\ c.fd = fd /\ c.gen = sock[fd].gen
      /\ c.ctxGen = m_datas[fd].gen /\ c.kind = kind
  <2>1. sock[fd].gen \in 0..MaxOpens /\ m_datas[fd].gen \in 0..MaxOpens  BY Types DEF SockType, CtxType
  <2> HIDE DEF kind
  <2>2. QED  BY <1>3, <2>1, FcntlRecord
<1> HIDE DEF c, kind
<1>5. m_datas' \in [Fds -> CtxType] /\ SameContexts
  <2>1. CASE m_datas[fd] = NoCtx
    <3>1. m_datas' = m_datas  BY <2>1 DEF Fcntl
    <3>2. QED  BY <3>1, Types DEF SameContexts
  <2>2. CASE m_datas[fd] # NoCtx
    <3> DEFINE r == [m_datas[fd] EXCEPT !.userNonblock = nonblock]
    <3>1. r \in CtxType /\ r.gen = m_datas[fd].gen  BY Types DEF CtxType
    <3>2. m_datas' = [m_datas EXCEPT ![fd] = r]  BY <2>2 DEF Fcntl
    <3> HIDE DEF r
    <3>3. m_datas' \in [Fds -> CtxType] /\ m_datas'[fd].gen = m_datas[fd].gen
          /\ \A d \in Fds \ {fd} : m_datas'[d] = m_datas[d]
      BY <3>1, <3>2, Types
    <3>4. m_datas[fd].gen # 0  BY <2>2 DEF IndInv, ContextsRight
    <3>5. m_datas'[fd] # NoCtx  BY <3>3, <3>4 DEF NoCtx, NewCtx
    <3>6. QED  BY <2>2, <3>3, <3>5 DEF SameContexts
  <2>3. QED  BY <2>1, <2>2
<1>6. sock[fd].gen # 0  BY <1>1 DEF Known
<1>7. \A d \in Fds : "WRITE" \in sock[d].cond => sock[d].conn \in {"yes", "failed"}
  BY DEF IndInv, WakersTold
<1>8. ~timer[f]  BY <1>1 DEF IndInv, TimerOwned
<1>9. WaitersExact' /\ TimerOwned' /\ CallShape' /\ FiredOwned' /\ WakersTold' /\ ReportsTold'
  BY <1>1, <1>2, <1>3, <1>4, <1>5, <1>6, <1>7, <1>8, Types, BeginKeeps
<1>10. \A g \in Fibers : QuietFiber(g)
  <2>1. \A g \in Fibers \ {f} : pc'[g] = pc[g] /\ call'[g] = call[g]  BY <1>1, Types
  <2>2. pc'[f] = "fcntl" /\ call'[f] = c /\ call[f].made = NoFd  BY <1>1, Types DEF IndInv, CallShape
  <2>3. c.gen <= opens /\ c.ctxGen <= opens  BY <1>4 DEF IndInv, GensPast
  <2>4. ~MayBlock(c)  BY <1>4 DEF MayBlock, IndInv, Nonblocking
  <2>5. ~Reaches(c)
    <3>1. m_datas[fd] = NoCtx => BeingShut(fd)
      BY <1>1 DEF IndInv, ContextsRight, NoCtx, NewCtx
    <3>2. QED  BY <1>3, <1>4, <3>1 DEF Reaches
  <2>6. QuietFiber(f)  BY <1>1, <1>4, <2>2, <2>3, <2>4, <2>5 DEF QuietFiber, Hands
  <2>7. QED  BY <2>1, <2>6, QuietIfStill
<1>11. SameSockets  BY <1>1, <1>2 DEF SameSockets
<1>12. QED  BY <1>5, <1>9, <1>10, <1>11, QuietContexts DEF IndInv

\* The flags are set, of the socket the call is meant for or of another.
LEMMA FcntlSysInv ==
  ASSUME IndInv, NEW f \in Fibers, FcntlSys(f)
  PROVE  IndInv'
<1>1. /\ pc[f] = "fcntl" /\ pc' = [pc EXCEPT ![f] = "idle"] /\ call' = [call EXCEPT ![f] = NoCall]
      /\ UNCHANGED <<opens, m_datas, waiter, watched, reports, tinfo, timer, fired, cancels, woken,
                     calls, rawCloses, aborted>>
  BY DEF FcntlSys, Goto, io, timing
<1>2. PICK fd \in Fds : fd = call[f].fd /\ call[f].gen # 0  BY <1>1 DEF IndInv, CallShape
<1> DEFINE v == (call[f].kind = "fcntl")
<1>3. /\ sock' = sock \/ sock' = [sock EXCEPT ![fd].nonblock = v]
      /\ strays' = IF sock[fd].gen \in {0, call[f].gen} THEN strays ELSE strays \cup {sock[fd].gen}
      /\ sock[fd].gen = 0 => sock' = sock
  BY <1>2 DEF FcntlSys
<1>4. /\ sock' \in [Fds -> SockType]
      /\ sock'[fd].gen = sock[fd].gen /\ (sock' = sock \/ sock'[fd].nonblock = v)
      /\ sock'[fd].conn = sock[fd].conn /\ sock'[fd].cond = sock[fd].cond
      /\ \A x \in Fds \ {fd} : sock'[x] = sock[x]
  <2>1. CASE sock' = sock  BY <2>1, Types
  <2>2. CASE sock' = [sock EXCEPT ![fd].nonblock = v]
    <3>1. v \in BOOLEAN /\ sock \in [Fds -> SockType]  BY Types
    <3> HIDE DEF v
    <3>2. QED  BY <2>2, <3>1, NonblockSet
  <2>3. QED  BY <1>3, <2>1, <2>2
<1>5. strays' \in SUBSET (0..MaxOpens) /\ strays \subseteq strays'
  <2>1. sock[fd].gen \in 0..MaxOpens  BY Types DEF SockType
  <2>2. QED  BY <1>3, <2>1, Types
<1>6. /\ pc'[f] = "idle" /\ call'[f] = NoCall /\ call[f].made = NoFd
      /\ \A g \in Fibers \ {f} : pc'[g] = pc[g] /\ call'[g] = call[g]
  BY <1>1, Types DEF IndInv, CallShape
<1>7. WaitersExact'
  <2>1. Exact'  BY <1>1, <1>6, MoveExact
  <2>2. pc' \in [Fibers -> Places] /\ call' \in [Fibers -> CallType]  BY <1>1, Types, NoCallType DEF Places
  <2>3. QED  BY <1>1, <1>4, <1>5, <2>1, <2>2, Types, TypesBack
<1>8. CallShape'  BY <1>6, NoCallType DEF IndInv, CallShape
<1>9. fired[f] = 0 /\ woken[f] = "no" /\ ~timer[f]
  BY <1>1 DEF IndInv, FiredOwned, WakersTold, TimerOwned
<1>10. TimerOwned' /\ FiredOwned'
  BY <1>1, <1>6, <1>9 DEF IndInv, TimerOwned, FiredOwned
<1>11. \A d \in Fds : sock'[d].gen = sock[d].gen /\ sock'[d].conn = sock[d].conn /\ sock'[d].cond = sock[d].cond
  BY <1>4
<1>12. WakersTold'
  <2>1. \A g \in Fibers : pc[g] \in {"woken", "soerror"} => call[g].fd \in Fds  BY DEF IndInv, CallShape
  <2>2. QED  BY <1>1, <1>6, <1>9, <1>11, <2>1 DEF IndInv, WakersTold
<1>13. ReportsTold'  BY <1>1, <1>11, ReportsStay
<1>14. \A d \in Fds : Known(d)' <=> Known(d)  BY <1>6, <1>11, NoCallType DEF Known
<1>15. \A d : BeingShut(d)' <=> BeingShut(d)  BY <1>1, <1>6 DEF BeingShut
<1>16. InOneHand'
  <2>1. \A g \in Fibers : /\ pc[g] \in {"closeDel", "closeSys"} => call[g].fd \in Fds
                          /\ pc[g] = "register" => call[g].made \in Fds
    BY DEF IndInv, CallShape
  <2>2. QED  BY <1>1, <1>6, <1>11, <1>14, <2>1 DEF IndInv, InOneHand
<1>17. ContextsRight'  BY <1>1, <1>11, <1>14, <1>15 DEF IndInv, ContextsRight
<1>18. GensPast'
  <2>1. 0 <= opens  BY Types, HookAssumption
  <2>2. \A g \in Fibers : call'[g].gen <= opens /\ call'[g].ctxGen <= opens
    BY <1>6, <2>1, NoCallType DEF IndInv, GensPast
  <2>3. QED  BY <1>1, <1>11, <2>2 DEF IndInv, GensPast
<1>19. \A d \in Fds : sock[d].nonblock => sock'[d].nonblock \/ BeingShut(d) \/ sock'[d].gen \in strays'
  <2>1. ASSUME sock[fd].nonblock, ~sock'[fd].nonblock
        PROVE  BeingShut(fd) \/ sock'[fd].gen \in strays'
    <3>1. sock[fd].gen # 0 /\ call[f].kind # "fcntl"  BY <1>3, <1>4, <2>1
    <3>2. call[f].kind \in Kinds  BY Types DEF CallType
    <3>3. CASE sock[fd].gen = call[f].gen
      <4>1. call[f].kind = "fcntlBlock"  BY <1>1, <3>1 DEF IndInv, CallShape
      <4>2. QED  BY <1>1, <1>2, <3>3, <4>1 DEF IndInv, Nonblocking
    <3>4. CASE sock[fd].gen # call[f].gen  BY <1>3, <1>4, <3>1, <3>4
    <3>5. QED  BY <3>3, <3>4
  <2>2. QED  BY <1>4, <2>1
<1>20. Nonblocking'
  <2>1. \A d \in Fds : m_datas'[d].gen # 0 /\ sock'[d].gen = m_datas'[d].gen
                        => sock'[d].nonblock \/ sock'[d].gen \in strays'
    <3>1. \A d \in Fds : BeingShut(d) => m_datas[d].gen = 0
      BY DEF BeingShut, IndInv, InOneHand, NoCtx, NewCtx
    <3>2. QED  BY <1>1, <1>5, <1>11, <1>19, <3>1 DEF IndInv, Nonblocking
  <2>2. \A g \in Fibers :
          call'[g].fd \in Fds /\ call'[g].ctxGen # 0 /\ sock'[call'[g].fd].gen = call'[g].ctxGen
            => sock'[call'[g].fd].nonblock \/ BeingShut(call'[g].fd) \/ sock'[call'[g].fd].gen \in strays'
    <3> SUFFICES ASSUME NEW g \in Fibers, call'[g].fd \in Fds, call'[g].ctxGen # 0,
                        sock'[call'[g].fd].gen = call'[g].ctxGen
                 PROVE  \/ sock'[call'[g].fd].nonblock \/ BeingShut(call'[g].fd)
                        \/ sock'[call'[g].fd].gen \in strays'
      OBVIOUS
    <3>1. g # f /\ call'[g] = call[g]  BY <1>6, NoCallType
    <3>2. sock[call[g].fd].gen = call[g].ctxGen  BY <1>11, <3>1
    <3>3. \/ sock[call[g].fd].nonblock \/ BeingShut(call[g].fd)
          \/ sock[call[g].fd].gen \in strays
      BY <3>1, <3>2, Zenon DEF IndInv, Nonblocking
    <3>4. QED  BY <1>5, <1>11, <1>19, <3>1, <3>3
  <2>3. \A g \in Fibers :
          pc'[g] = "blocked" /\ call'[g].ctxGen # 0
            => sock'[call'[g].fd].gen # call'[g].ctxGen \/ BeingShut(call'[g].fd) \/ sock'[call'[g].fd].gen \in strays'
    <3> SUFFICES ASSUME NEW g \in Fibers, pc'[g] = "blocked", call'[g].ctxGen # 0
                 PROVE  \/ sock'[call'[g].fd].gen # call'[g].ctxGen \/ BeingShut(call'[g].fd)
                        \/ sock'[call'[g].fd].gen \in strays'
      OBVIOUS
    <3>1. g # f /\ pc[g] = "blocked" /\ call'[g] = call[g]  BY <1>6
    <3>2. call[g].fd \in Fds  BY <3>1 DEF IndInv, CallShape
    <3>3. sock[call[g].fd].gen # call[g].ctxGen \/ BeingShut(call[g].fd) \/ sock[call[g].fd].gen \in strays
      BY <3>1 DEF IndInv, Nonblocking
    <3>4. QED  BY <1>5, <1>11, <3>1, <3>2, <3>3
  <2>4. \A g \in Fibers :
          pc'[g] = "fcntl" /\ call'[g].kind = "fcntlBlock" /\ sock'[call'[g].fd].gen = call'[g].gen
            => BeingShut(call'[g].fd)
    <3>1. \A g \in Fibers : pc[g] = "fcntl" => call[g].fd \in Fds  BY DEF IndInv, CallShape
    <3>2. QED  BY <1>6, <1>11, <3>1 DEF IndInv, Nonblocking
  <2>5. \A g \in Fibers : BeingShut(call[g].fd)' <=> BeingShut(call'[g].fd)
    BY <1>1, <1>6 DEF BeingShut
  <2>6. QED  BY <2>1, <2>2, <2>3, <2>4, <2>5 DEF Nonblocking
<1>21. QED  BY <1>7, <1>8, <1>10, <1>12, <1>13, <1>16, <1>17, <1>18, <1>20 DEF IndInv

-----------------------------------------------------------------------------
(* Numbers are handed out, registered and given back.                       *)

\* A fiber gets a new socket, to be registered next.
LEMMA OpensInv ==
  ASSUME IndInv, NEW f \in Fibers, NEW fd \in Fds, NEW conn \in Conns, NEW cond \in SUBSET Dirs,
         Opens(fd, conn, cond), "WRITE" \in cond => conn \in {"yes", "failed"},
         pc[f] \in {"idle", "try", "raw"}, pc' = [pc EXCEPT ![f] = "register"],
         NEW c \in CallType, call' = [call EXCEPT ![f] = c],
         c.made = fd, c.fd = NoFd, c.gen = 0, c.ctxGen = 0,
         woken' \in [Fibers -> WokenNames], woken'[f] = "no", \A g \in Fibers \ {f} : woken'[g] = woken[g],
         tinfo' \in [Fibers -> BOOLEAN], \A g \in Fibers \ {f} : tinfo'[g] = tinfo[g],
         fired' \in [Fibers -> Nat], fired'[f] = 0, \A g \in Fibers \ {f} : fired'[g] = fired[g],
         calls' \in 0..MaxCalls,
         UNCHANGED <<m_datas, waiter, watched, reports, timer, cancels, rawCloses, strays, aborted>>
  PROVE  IndInv'
<1> DEFINE s == [gen |-> opens + 1, nonblock |-> FALSE, conn |-> conn, cond |-> cond]
<1>1. /\ opens < MaxOpens /\ sock[fd].gen = 0 /\ opens' = opens + 1 /\ sock' = [sock EXCEPT ![fd] = s]
  BY DEF Opens, Live
<1>2. opens \in Nat /\ opens' \in 0..MaxOpens  BY <1>1, Types, HookAssumption
<1>3. s \in SockType /\ s.gen = opens + 1 /\ s.conn = conn /\ s.cond = cond
  BY <1>1, <1>2 DEF SockType
<1> HIDE DEF s
<1>4. sock' \in [Fds -> SockType] /\ sock'[fd] = s /\ \A d \in Fds \ {fd} : sock'[d] = sock[d]
  BY <1>1, <1>3, Types
<1>5. /\ pc'[f] = "register" /\ call'[f] = c /\ call[f].made = NoFd
      /\ \A g \in Fibers \ {f} : pc'[g] = pc[g] /\ call'[g] = call[g]
  BY Types DEF IndInv, CallShape
<1>6. WaitersExact'
  <2>1. Exact'  BY <1>5, MoveExact
  <2>2. pc' \in [Fibers -> Places] /\ call' \in [Fibers -> CallType]  BY Types DEF Places
  <2>3. QED  BY <1>2, <1>4, <2>1, <2>2, Types, TypesBack
<1>7. CallShape'  BY <1>5 DEF IndInv, CallShape
<1>8. TimerOwned' /\ FiredOwned'
  <2>1. ~timer[f]  BY DEF IndInv, TimerOwned
  <2>2. QED  BY <1>5, <2>1 DEF IndInv, TimerOwned, FiredOwned
<1>9. \A d \in Fds : Known(d)' <=> Known(d)
  <2>1. ~Known(fd) /\ ~Known(fd)'  BY <1>1, <1>5 DEF Known
  <2>2. \A d \in Fds \ {fd} : Known(d)' <=> Known(d)  BY <1>4, <1>5, NotFd DEF Known
  <2>3. QED  BY <2>1, <2>2
<1>10. \A d : BeingShut(d)' <=> BeingShut(d)  BY <1>5 DEF BeingShut
<1>11. InOneHand'
  <2>1. \A g \in Fibers : /\ pc[g] \in {"closeDel", "closeSys"} => call[g].fd \in Fds
                          /\ pc[g] = "register" => call[g].made \in Fds
    BY DEF IndInv, CallShape
  <2>2. \A g \in Fibers : pc[g] = "register" => call[g].made # fd  BY <1>1 DEF IndInv, InOneHand
  <2>3. sock'[fd].gen # 0  BY <1>2, <1>3, <1>4
  <2>4. QED  BY <1>4, <1>5, <1>9, <2>1, <2>2, <2>3 DEF IndInv, InOneHand
<1>12. ContextsRight'
  <2>1. ~Known(fd)  BY <1>1 DEF Known
  <2>2. QED  BY <1>4, <1>9, <1>10, <2>1 DEF IndInv, ContextsRight
<1>13. GensPast'
  <2>1. \A d \in Fds : sock[d].gen \in Nat /\ m_datas[d].gen \in Nat  BY Types DEF SockType, CtxType
  <2>2. \A g \in Fibers : call[g].gen \in Nat /\ call[g].ctxGen \in Nat  BY Types DEF CallType
  <2>3. QED  BY <1>1, <1>2, <1>3, <1>4, <1>5, <2>1, <2>2 DEF IndInv, GensPast
<1>14. /\ m_datas[fd].gen # sock'[fd].gen
       /\ \A g \in Fibers : call[g].gen # sock'[fd].gen /\ call[g].ctxGen # sock'[fd].gen
  BY <1>2, <1>3, <1>4, Types DEF IndInv, GensPast
<1>15. Nonblocking'
  <2>1. \A d \in Fds : m_datas'[d].gen # 0 /\ sock'[d].gen = m_datas'[d].gen
                        => sock'[d].nonblock \/ sock'[d].gen \in strays
    BY <1>4, <1>14 DEF IndInv, Nonblocking
  <2>2. \A g \in Fibers :
          call'[g].fd \in Fds /\ call'[g].ctxGen # 0 /\ sock'[call'[g].fd].gen = call'[g].ctxGen
            => sock'[call'[g].fd].nonblock \/ BeingShut(call'[g].fd) \/ sock'[call'[g].fd].gen \in strays
    BY <1>4, <1>5, <1>14 DEF IndInv, Nonblocking
  <2>3. \A g \in Fibers :
          pc'[g] = "blocked" /\ call'[g].ctxGen # 0
            => sock'[call'[g].fd].gen # call'[g].ctxGen \/ BeingShut(call'[g].fd) \/ sock'[call'[g].fd].gen \in strays
    <3>1. \A g \in Fibers : pc[g] = "blocked" => call[g].fd \in Fds  BY DEF IndInv, CallShape
    <3>2. QED  BY <1>4, <1>5, <1>14, <3>1 DEF IndInv, Nonblocking
  <2>4. \A g \in Fibers :
          pc'[g] = "fcntl" /\ call'[g].kind = "fcntlBlock" /\ sock'[call'[g].fd].gen = call'[g].gen
            => BeingShut(call'[g].fd)
    <3>1. \A g \in Fibers : pc[g] = "fcntl" => call[g].fd \in Fds  BY DEF IndInv, CallShape
    <3>2. QED  BY <1>4, <1>5, <1>14, <3>1 DEF IndInv, Nonblocking
  <2>5. \A g \in Fibers : BeingShut(call[g].fd)' <=> BeingShut(call'[g].fd)
    BY <1>5 DEF BeingShut
  <2>6. QED  BY <2>1, <2>2, <2>3, <2>4, <2>5 DEF Nonblocking
<1>16. WakersTold'
  <2>1. \A g \in Fibers : pc[g] \in {"woken", "soerror"} => call[g].fd \in Fds  BY DEF IndInv, CallShape
  <2>2. \A d \in Fds : "WRITE" \in sock'[d].cond => sock'[d].conn \in {"yes", "failed"}
    BY <1>3, <1>4 DEF IndInv, WakersTold
  <2>3. QED  BY <1>4, <1>5, <1>14, <2>1, <2>2 DEF IndInv, WakersTold
<1>17. ReportsTold'
  <2>1. \A d \in Fds : sock'[d] = sock[d] \/ sock'[d].gen = opens + 1  BY <1>3, <1>4
  <2>2. opens' \in {opens, opens + 1}  BY <1>1
  <2>3. QED  BY <2>1, <2>2, ReportsStay
<1>18. QED  BY <1>6, <1>7, <1>8, <1>11, <1>12, <1>13, <1>15, <1>16, <1>17 DEF IndInv

\* The record of a call that has been given a number.
Made(kind, d) == [NoCall EXCEPT !.kind = kind, !.made = d]

LEMMA MadeCall ==
  ASSUME NEW kind \in Kinds, NEW d \in Fds
  PROVE  /\ Made(kind, d) \in CallType /\ Made(kind, d).made = d /\ Made(kind, d).fd = NoFd
         /\ Made(kind, d).gen = 0 /\ Made(kind, d).ctxGen = 0
<1> DEFINE r == [NoCall EXCEPT !.kind = kind]
<1>1. r \in CallType /\ r.fd = NoFd /\ r.gen = 0 /\ r.ctxGen = 0  BY NoCallType DEF CallType
<1>2. Made(kind, d) = [r EXCEPT !.made = d]  BY DEF Made
<1> HIDE DEF r
<1>3. QED  BY <1>1, <1>2 DEF CallType

LEMMA SocketInv ==
  ASSUME IndInv, NEW f \in Fibers, NEW fd \in Fds, NEW conn \in {"no", "listen"}, Socket(f, fd, conn)
  PROVE  IndInv'
<1> DEFINE c == Made("socket", fd)
<1>1. /\ Opens(fd, conn, {}) /\ pc[f] = "idle" /\ Counted
      /\ call' = [call EXCEPT ![f] = c] /\ pc' = [pc EXCEPT ![f] = "register"]
      /\ UNCHANGED <<m_datas, waiter, watched, reports, tinfo, timer, fired, cancels, woken>>
  BY DEF Socket, Begin, Goto, io, timing, Made
<1>2. calls' \in 0..MaxCalls /\ UNCHANGED <<rawCloses, strays, aborted>>  BY <1>1, CountedCalls
<1>3. c \in CallType /\ c.made = fd /\ c.fd = NoFd /\ c.gen = 0 /\ c.ctxGen = 0
  BY MadeCall DEF Kinds
<1> HIDE DEF c
<1>4. woken[f] = "no" /\ fired[f] = 0  BY <1>1 DEF IndInv, WakersTold, FiredOwned
<1>5. conn \in Conns /\ {} \in SUBSET Dirs  BY DEF Conns
<1>6. QED  BY <1>1, <1>2, <1>3, <1>4, <1>5, Types, OpensInv

LEMMA CallAcceptsInv ==
  ASSUME IndInv, NEW f \in Fibers, CallAccepts(f)
  PROVE  IndInv'
<1>1. /\ pc[f] \in {"try", "raw"}
      /\ UNCHANGED <<m_datas, waiter, watched, reports, timer, cancels, calls, rawCloses, strays, aborted>>
  BY DEF CallAccepts, Calling, io, world
<1>2. ~timer[f]  BY <1>1 DEF IndInv, TimerOwned
<1>3. CASE Returns(f) /\ UNCHANGED <<sock, opens>>
  BY <1>1, <1>2, <1>3, Types, SameIfUnchanged, ReturnsInv DEF Hands
<1>4. ASSUME NEW fd \in Fds, Opens(fd, "yes", {"WRITE"}),
             call' = [call EXCEPT ![f] = [NoCall EXCEPT !.kind = "accept", !.made = fd]],
             Goto(f, "register"), woken' = [woken EXCEPT ![f] = "no"],
             tinfo' = [tinfo EXCEPT ![f] = FALSE], fired' = [fired EXCEPT ![f] = 0]
      PROVE  IndInv'
  <2> DEFINE c == Made("accept", fd)
  <2>1. c \in CallType /\ c.made = fd /\ c.fd = NoFd /\ c.gen = 0 /\ c.ctxGen = 0
    BY MadeCall DEF Kinds
  <2>2. call' = [call EXCEPT ![f] = c] /\ pc' = [pc EXCEPT ![f] = "register"]
    BY <1>4 DEF Goto, Made
  <2> HIDE DEF c
  <2>3. tinfo' \in [Fibers -> BOOLEAN] /\ \A g \in Fibers \ {f} : tinfo'[g] = tinfo[g]  BY <1>4, Types
  <2>4. woken' \in [Fibers -> WokenNames] /\ woken'[f] = "no" /\ \A g \in Fibers \ {f} : woken'[g] = woken[g]
    BY <1>4, Types DEF WokenNames
  <2>5. fired' \in [Fibers -> Nat] /\ fired'[f] = 0 /\ \A g \in Fibers \ {f} : fired'[g] = fired[g]
    BY <1>4, Types
  <2>6. PICK conn \in Conns, cond \in SUBSET Dirs : conn = "yes" /\ cond = {"WRITE"}  BY DEF Conns, Dirs
  <2>7. Opens(fd, conn, cond) /\ ("WRITE" \in cond => conn \in {"yes", "failed"})  BY <1>4, <2>6
  <2>8. pc[f] \in {"idle", "try", "raw"} /\ calls' \in 0..MaxCalls  BY <1>1, Types
  <2>9. QED  BY <1>1, <2>1, <2>2, <2>3, <2>4, <2>5, <2>7, <2>8, OpensInv
<1>5. QED  BY <1>3, <1>4 DEF CallAccepts, kernel

\* While no socket becomes blocking, the calls that go on see none do so, and a call
\* that has returned sees nothing; a socket that is about to be closed stays so.
LEMMA CallsStayClear ==
  ASSUME IndInv, strays' = strays,
         \A d \in Fds : m_datas'[d].gen # 0 /\ sock'[d].gen = m_datas'[d].gen
                        => sock'[d].nonblock \/ sock'[d].gen \in strays,
         \A g \in Fibers : \/ pc'[g] = pc[g] /\ call'[g] = call[g]
                           \/ pc'[g] \in {"idle", "closeDel", "closeSys", "register"} /\ call'[g].ctxGen = 0
                           \/ pc'[g] \notin {"blocked", "fcntl"} /\ call'[g] = call[g],
         \A d \in Fds : (sock'[d].gen = sock[d].gen /\ (sock[d].nonblock => sock'[d].nonblock)) \/ sock'[d].gen = 0,
         \A d \in Fds : BeingShut(d) => BeingShut(d)' \/ sock'[d].gen = 0
  PROVE  Nonblocking'
<1>1. ASSUME NEW g \in Fibers, call'[g].fd \in Fds, call'[g].ctxGen # 0, sock'[call'[g].fd].gen = call'[g].ctxGen
      PROVE  sock'[call'[g].fd].nonblock \/ BeingShut(call[g].fd)' \/ sock'[call'[g].fd].gen \in strays'
  <2>1. PICK d \in Fds : d = call'[g].fd  BY <1>1
  <2>2. call'[g] = call[g]  BY <1>1
  <2>3. sock'[d].gen = sock[d].gen /\ (sock[d].nonblock => sock'[d].nonblock) /\ (BeingShut(d) => BeingShut(d)')
    BY <1>1, <2>1
  <2>4. sock[d].nonblock \/ BeingShut(d) \/ sock[d].gen \in strays
    BY <1>1, <2>1, <2>2, <2>3 DEF IndInv, Nonblocking
  <2>5. BeingShut(d)' => BeingShut(call[g].fd)'  BY <2>1 DEF BeingShut
  <2>6. QED  BY <2>1, <2>3, <2>4, <2>5
<1>2. ASSUME NEW g \in Fibers, pc'[g] = "blocked", call'[g].ctxGen # 0
      PROVE  sock'[call'[g].fd].gen # call'[g].ctxGen \/ BeingShut(call[g].fd)' \/ sock'[call'[g].fd].gen \in strays'
  <2>1. pc[g] = "blocked" /\ call'[g] = call[g]  BY <1>2
  <2>2. PICK d \in Fds : d = call'[g].fd  BY <2>1 DEF IndInv, CallShape
  <2>3. sock[d].gen # call[g].ctxGen \/ BeingShut(d) \/ sock[d].gen \in strays
    BY <1>2, <2>1, <2>2 DEF IndInv, Nonblocking
  <2>4. BeingShut(d)' => BeingShut(call[g].fd)'  BY <2>2 DEF BeingShut
  <2>5. QED  BY <1>2, <2>1, <2>2, <2>3, <2>4
<1>3. ASSUME NEW g \in Fibers, pc'[g] = "fcntl", call'[g].kind = "fcntlBlock", sock'[call'[g].fd].gen = call'[g].gen
      PROVE  BeingShut(call[g].fd)'
  <2>1. pc[g] = "fcntl" /\ call'[g] = call[g]  BY <1>3
  <2>2. PICK d \in Fds : d = call'[g].fd /\ call[g].gen # 0  BY <2>1 DEF IndInv, CallShape
  <2>3. sock'[d].gen = sock[d].gen  BY <1>3, <2>1, <2>2
  <2>4. BeingShut(d)  BY <1>3, <2>1, <2>2, <2>3 DEF IndInv, Nonblocking
  <2>5. BeingShut(d)' => BeingShut(call[g].fd)'  BY <2>2 DEF BeingShut
  <2>6. QED  BY <1>3, <2>1, <2>2, <2>4, <2>5
<1>4. QED  BY <1>1, <1>2, <1>3 DEF Nonblocking

LEMMA RegisterInv ==
  ASSUME IndInv, NEW f \in Fibers, Register(f)
  PROVE  IndInv'
<1>1. /\ pc[f] = "register" /\ pc' = [pc EXCEPT ![f] = "idle"] /\ call' = [call EXCEPT ![f] = NoCall]
      /\ UNCHANGED <<opens, waiter, watched, reports, tinfo, timer, fired, cancels, woken, calls, rawCloses, strays, aborted>>
  BY DEF Register, io, timing, world
<1>0. PICK fd \in Fds : fd = call[f].made  BY <1>1 DEF IndInv, CallShape
<1>2. sock[fd].gen # 0 /\ ~Known(fd)  BY <1>0, <1>1 DEF IndInv, InOneHand, Known
<1>3. /\ pc'[f] = "idle" /\ call'[f] = NoCall
      /\ \A g \in Fibers \ {f} : pc'[g] = pc[g] /\ call'[g] = call[g]
  BY <1>1, Types
<1>4. \/ /\ m_datas[fd] = NoCtx /\ m_datas' = [m_datas EXCEPT ![fd] = NewCtx(sock[fd].gen)]
         /\ sock' = [sock EXCEPT ![fd].nonblock = TRUE]
      \/ m_datas[fd] # NoCtx /\ m_datas' = m_datas /\ sock' = sock
  BY <1>0 DEF Register
<1>5. /\ sock' \in [Fds -> SockType]
      /\ sock'[fd].gen = sock[fd].gen /\ (sock[fd].nonblock => sock'[fd].nonblock)
      /\ sock'[fd].conn = sock[fd].conn /\ sock'[fd].cond = sock[fd].cond
      /\ \A x \in Fds \ {fd} : sock'[x] = sock[x]
      /\ m_datas[fd] = NoCtx => sock'[fd].nonblock
  <2>1. CASE sock' = sock /\ m_datas[fd] # NoCtx  BY <2>1, Types
  <2>2. CASE sock' = [sock EXCEPT ![fd].nonblock = TRUE]
    <3>1. /\ sock' \in [Fds -> SockType]
          /\ sock'[fd].gen = sock[fd].gen /\ sock'[fd].nonblock = TRUE
          /\ sock'[fd].conn = sock[fd].conn /\ sock'[fd].cond = sock[fd].cond
          /\ \A x \in Fds \ {fd} : sock'[x] = sock[x]
      BY <1>2, <2>2, Types, NonblockSet
    <3>2. QED  BY <3>1
  <2>3. QED  BY <1>4, <2>1, <2>2
<1>6. /\ m_datas' \in [Fds -> CtxType] /\ \A x \in Fds \ {fd} : m_datas'[x] = m_datas[x]
      /\ m_datas[fd] = NoCtx => m_datas'[fd].gen = sock[fd].gen
      /\ m_datas[fd] # NoCtx => m_datas'[fd] = m_datas[fd]
  <2>1. NewCtx(sock[fd].gen) \in CtxType /\ NewCtx(sock[fd].gen).gen = sock[fd].gen
    <3>1. sock[fd].gen \in 0..MaxOpens  BY <1>2, Types DEF SockType
    <3>2. QED  BY <3>1 DEF NewCtx, CtxType
  <2>2. CASE m_datas[fd] # NoCtx  BY <1>4, <2>2, Types
  <2>3. CASE m_datas[fd] = NoCtx
    <3>1. m_datas' = [m_datas EXCEPT ![fd] = NewCtx(sock[fd].gen)]  BY <1>4, <2>3
    <3>2. QED  BY <1>2, <2>1, <2>3, <3>1, Types
  <2>4. QED  BY <2>2, <2>3
<1>7. m_datas'[fd].gen # 0 /\ (fd \notin rawCloses => m_datas[fd] = NoCtx)
  BY <1>2, <1>6 DEF IndInv, ContextsRight
<1>8. WaitersExact'
  <2>1. Exact'  BY <1>1, <1>3, MoveExact
  <2>2. pc' \in [Fibers -> Places] /\ call' \in [Fibers -> CallType]
    BY <1>1, Types, NoCallType DEF Places
  <2>3. QED  BY <1>1, <1>5, <1>6, <2>1, <2>2, Types, TypesBack
<1>9. CallShape'  BY <1>3, NoCallType DEF IndInv, CallShape
<1>10. fired[f] = 0 /\ woken[f] = "no" /\ ~timer[f]
  BY <1>1 DEF IndInv, FiredOwned, WakersTold, TimerOwned
<1>11. TimerOwned' /\ FiredOwned'
  BY <1>1, <1>3, <1>10 DEF IndInv, TimerOwned, FiredOwned
<1>12. \A d \in Fds \ {fd} : Known(d)' <=> Known(d)
  BY <1>0, <1>3, <1>5, NoCallType, NotFd DEF Known
<1>13. \A d : BeingShut(d)' <=> BeingShut(d)  BY <1>1, <1>3 DEF BeingShut
<1>14. \A g \in Fibers : /\ pc[g] \in {"closeDel", "closeSys"} => call[g].fd \in Fds \ {fd}
                         /\ pc[g] = "register" /\ g # f => call[g].made \in Fds \ {fd}
  BY <1>0, <1>1, <1>2 DEF IndInv, CallShape, InOneHand
<1>15. InOneHand'  BY <1>3, <1>5, <1>6, <1>12, <1>14 DEF IndInv, InOneHand
<1>16. ContextsRight'
  <2>1. \A d \in Fds : m_datas'[d].gen = 0 => m_datas'[d] = NoCtx
    BY <1>6, <1>7 DEF IndInv, ContextsRight
  <2>2. \A d \in Fds : Known(d)' /\ ~BeingShut(d)' => m_datas'[d].gen # 0
    BY <1>6, <1>7, <1>12, <1>13 DEF IndInv, ContextsRight
  <2>3. \A d \in Fds \ rawCloses : Known(d)' /\ ~BeingShut(d)' => m_datas'[d].gen = sock'[d].gen
    BY <1>5, <1>6, <1>7, <1>12, <1>13 DEF IndInv, ContextsRight
  <2>4. \A d \in Fds \ rawCloses : ~Known(d)' => m_datas'[d] = NoCtx
    <3>1. Known(fd)'
      <4>1. \A g \in Fibers \ {f} : call[g].made # fd
        BY <1>14, NotFd DEF IndInv, CallShape
      <4>2. QED  BY <1>2, <1>3, <1>5, <4>1, NoCallType, NotFd DEF Known
    <3>2. QED  BY <1>6, <1>12, <3>1 DEF IndInv, ContextsRight
  <2>5. QED  BY <1>1, <2>1, <2>2, <2>3, <2>4 DEF ContextsRight
<1>17. GensPast'
  <2>1. 0 <= opens  BY Types, HookAssumption
  <2>2. \A g \in Fibers : call'[g].gen <= opens /\ call'[g].ctxGen <= opens
    BY <1>3, <2>1, NoCallType DEF IndInv, GensPast
  <2>3. \A d \in Fds : sock'[d].gen <= opens /\ m_datas'[d].gen <= opens
    BY <1>5, <1>6 DEF IndInv, GensPast
  <2>4. QED  BY <1>1, <2>2, <2>3 DEF GensPast
<1>18. \A d \in Fds : sock'[d].gen = sock[d].gen /\ (sock[d].nonblock => sock'[d].nonblock)  BY <1>5
<1>19. Nonblocking'
  <2>1. \A d \in Fds : m_datas'[d].gen # 0 /\ sock'[d].gen = m_datas'[d].gen
                        => sock'[d].nonblock \/ sock'[d].gen \in strays
    BY <1>5, <1>6 DEF IndInv, Nonblocking
  <2>2. call'[f].ctxGen = 0  BY <1>3, NoCallType
  <2>3. QED  BY <1>1, <1>3, <1>13, <1>18, <2>1, <2>2, CallsStayClear
<1>20. WakersTold'
  <2>1. \A d \in Fds : sock'[d].conn = sock[d].conn /\ sock'[d].cond = sock[d].cond  BY <1>5
  <2>2. \A g \in Fibers : pc[g] \in {"woken", "soerror"} => call[g].fd \in Fds  BY DEF IndInv, CallShape
  <2>3. QED  BY <1>1, <1>3, <1>10, <1>18, <2>1, <2>2 DEF IndInv, WakersTold
<1>21. ReportsTold'  BY <1>1, <1>5, ReportsStay
<1>22. QED  BY <1>8, <1>9, <1>11, <1>15, <1>16, <1>17, <1>19, <1>20, <1>21 DEF IndInv

LEMMA NoCtxType == NoCtx \in CtxType /\ NoCtx.gen = 0
  BY HookAssumption DEF NoCtx, NewCtx, CtxType

\* The context is dropped.
LEMMA CloseDelInv ==
  ASSUME IndInv, NEW f \in Fibers, CloseDel(f)
  PROVE  IndInv'
<1>1. /\ pc[f] = "closeDel" /\ pc' = [pc EXCEPT ![f] = "closeSys"]
      /\ UNCHANGED <<sock, opens, waiter, watched, reports, call, tinfo, timer, fired, cancels, woken, calls, rawCloses, strays, aborted>>
  BY DEF CloseDel, Goto, kernel, io, timing, world
<1>2. PICK fd \in Fds : fd = call[f].fd  BY <1>1 DEF IndInv, CallShape
<1>3. m_datas' = [m_datas EXCEPT ![fd] = NoCtx]  BY <1>2 DEF CloseDel
<1>4. m_datas' \in [Fds -> CtxType] /\ m_datas'[fd] = NoCtx /\ \A d \in Fds \ {fd} : m_datas'[d] = m_datas[d]
  BY <1>3, NoCtxType, Types
<1>5. pc'[f] = "closeSys" /\ \A g \in Fibers \ {f} : pc'[g] = pc[g]  BY <1>1, Types
<1>6. WaitersExact'
  <2>1. Exact'  BY <1>1, <1>5, MoveExact
  <2>2. pc' \in [Fibers -> Places]  BY <1>1, Types DEF Places
  <2>3. QED  BY <1>1, <1>4, <2>1, <2>2, Types, TypesBack
<1>7. CallShape'  BY <1>1, <1>2, <1>5 DEF IndInv, CallShape
<1>8. TimerOwned' /\ FiredOwned'  BY <1>1, <1>5 DEF IndInv, TimerOwned, FiredOwned
<1>9. \A d \in Fds : Known(d)' <=> Known(d)  BY <1>1 DEF Known
<1>10. BeingShut(fd)' /\ \A d \in Fds \ {fd} : BeingShut(d)' <=> BeingShut(d)
  BY <1>1, <1>2, <1>5 DEF BeingShut
<1>11. InOneHand'
  <2>1. \A g \in Fibers : /\ pc'[g] \in {"closeDel", "closeSys"} => call'[g].fd \in Fds
                          /\ pc'[g] = "register" => call'[g].made \in Fds
    BY <1>7 DEF CallShape
  <2>2. QED  BY <1>1, <1>2, <1>4, <1>5, <1>9, <2>1 DEF IndInv, InOneHand
<1>12. ContextsRight'
  <2>1. \A d \in Fds : m_datas'[d].gen = 0 => m_datas'[d] = NoCtx  BY <1>4 DEF IndInv, ContextsRight
  <2>2. \A d \in Fds : Known(d)' /\ ~BeingShut(d)' => m_datas'[d].gen # 0
    BY <1>4, <1>9, <1>10 DEF IndInv, ContextsRight
  <2>3. \A d \in Fds \ rawCloses : Known(d)' /\ ~BeingShut(d)' => m_datas'[d].gen = sock'[d].gen
    BY <1>1, <1>4, <1>9, <1>10 DEF IndInv, ContextsRight
  <2>4. \A d \in Fds \ rawCloses : ~Known(d)' => m_datas'[d] = NoCtx
    BY <1>4, <1>9 DEF IndInv, ContextsRight
  <2>5. QED  BY <1>1, <2>1, <2>2, <2>3, <2>4 DEF ContextsRight
<1>13. GensPast'
  <2>1. 0 <= opens  BY Types, HookAssumption
  <2>2. QED  BY <1>1, <1>4, <2>1, NoCtxType DEF IndInv, GensPast
<1>14. Nonblocking'
  <2>1. \A d \in Fds : m_datas'[d].gen # 0 /\ sock'[d].gen = m_datas'[d].gen
                        => sock'[d].nonblock \/ sock'[d].gen \in strays
    BY <1>1, <1>4, NoCtxType DEF IndInv, Nonblocking
  <2>2. \A g \in Fibers : \/ pc'[g] = pc[g] /\ call'[g] = call[g]
                          \/ pc'[g] \notin {"blocked", "fcntl"} /\ call'[g] = call[g]
    BY <1>1, <1>5
  <2>3. \A d \in Fds : BeingShut(d) => BeingShut(d)'  BY <1>10
  <2>4. QED  BY <1>1, <2>1, <2>2, <2>3, CallsStayClear
<1>15. WakersTold'  BY <1>1, <1>5 DEF IndInv, WakersTold
<1>16. ReportsTold'  BY <1>1, ReportsStay
<1>17. QED  BY <1>6, <1>7, <1>8, <1>11, <1>12, <1>13, <1>14, <1>15, <1>16 DEF IndInv

\* A number is given back, by the fiber that was closing it or behind its back.
LEMMA ShutInv ==
  ASSUME IndInv, NEW fd \in Fds, Known(fd), Shut(fd),
         rawCloses' \in {rawCloses, rawCloses \cup {fd}}, m_datas[fd] = NoCtx \/ fd \in rawCloses',
         \A g \in Fibers :
           \/ /\ pc'[g] = pc[g] /\ call'[g] = call[g] /\ woken'[g] = woken[g]
              /\ tinfo'[g] = tinfo[g] /\ fired'[g] = fired[g]
           \/ /\ pc[g] = "closeSys" /\ call[g].fd = fd /\ pc'[g] = "idle" /\ call'[g] = NoCall
              /\ woken'[g] = "no" /\ fired'[g] = 0,
         \A g \in Fibers : pc'[g] \in {"closeDel", "closeSys"} => call'[g].fd # fd,
         pc' \in [Fibers -> Places], call' \in [Fibers -> CallType], woken' \in [Fibers -> WokenNames],
         tinfo' \in [Fibers -> BOOLEAN], fired' \in [Fibers -> Nat],
         UNCHANGED <<opens, m_datas, waiter, reports, timer, cancels, calls, strays, aborted>>
  PROVE  IndInv'
<1>1. sock' = [sock EXCEPT ![fd] = Closed] /\ watched' = [watched EXCEPT ![fd] = {}]  BY DEF Shut
<1>2. Closed \in SockType /\ Closed.gen = 0 /\ Closed.cond = {}
  BY HookAssumption DEF Closed, SockType, Conns
<1>3. sock' \in [Fds -> SockType] /\ sock'[fd] = Closed /\ \A d \in Fds \ {fd} : sock'[d] = sock[d]
  BY <1>1, <1>2, Types
<1>4. WaitersExact'
  <2>1. Exact'
    <3>1. Exact  BY Types
    <3>2. \A g \in Fibers : pc'[g] = "wait" \/ pc[g] = "wait" => pc'[g] = pc[g] /\ call'[g] = call[g]  OBVIOUS
    <3>3. ASSUME NEW g \in Fibers, NEW d \in Fds, NEW e \in Dirs
          PROVE  waiter'[d][e] = g <=> pc'[g] = "wait" /\ call'[g].fd = d /\ Dir(call'[g].kind) = e
      BY <3>1, <3>2 DEF Exact
    <3>4. QED  BY <3>3 DEF Exact
  <2>2. watched' \in [Fds -> SUBSET Dirs]  BY <1>1, Types
  <2>3. rawCloses' \in SUBSET Fds  BY Types
  <2>4. QED  BY <1>3, <2>1, <2>2, <2>3, Types, TypesBack
<1>5. CallShape'  BY NoCallType DEF IndInv, CallShape
<1>6. TimerOwned' /\ FiredOwned'  BY DEF IndInv, TimerOwned, FiredOwned
<1>7. \A g \in Fibers : call'[g].made = call[g].made  BY NoCallType DEF IndInv, CallShape
<1>8. ~Known(fd)' /\ \A d \in Fds \ {fd} : Known(d)' <=> Known(d)  BY <1>2, <1>3, <1>7 DEF Known
<1>9. \A d \in Fds \ {fd} : BeingShut(d)' <=> BeingShut(d)  BY DEF BeingShut
<1>10. \A g \in Fibers : pc'[g] \in {"closeDel", "closeSys", "register"} => pc'[g] = pc[g] /\ call'[g] = call[g]
  OBVIOUS
<1>11. \A g \in Fibers : pc'[g] = "register" => call'[g].made # fd  BY <1>10 DEF Known
<1>12. InOneHand'
  <2>1. \A g \in Fibers : /\ pc'[g] \in {"closeDel", "closeSys"} => call'[g].fd \in Fds \ {fd}
                          /\ pc'[g] = "register" => call'[g].made \in Fds \ {fd}
    BY <1>5, <1>11 DEF CallShape
  <2>2. QED  BY <1>3, <1>8, <1>10, <2>1 DEF IndInv, InOneHand
<1>13. ContextsRight'
  <2>1. \A d \in Fds : m_datas'[d].gen = 0 => m_datas'[d] = NoCtx  BY DEF IndInv, ContextsRight
  <2>2. \A d \in Fds : Known(d)' /\ ~BeingShut(d)' => m_datas'[d].gen # 0
    BY <1>8, <1>9 DEF IndInv, ContextsRight
  <2>3. \A d \in Fds \ rawCloses' : Known(d)' /\ ~BeingShut(d)' => m_datas'[d].gen = sock'[d].gen
    BY <1>3, <1>8, <1>9 DEF IndInv, ContextsRight
  <2>4. \A d \in Fds \ rawCloses' : ~Known(d)' => m_datas'[d] = NoCtx
    BY <1>8 DEF IndInv, ContextsRight
  <2>5. QED  BY <2>1, <2>2, <2>3, <2>4 DEF ContextsRight
<1>14. 0 <= opens  BY Types, HookAssumption
<1>15. GensPast'  BY <1>2, <1>3, <1>14, NoCallType DEF IndInv, GensPast
<1>16. Nonblocking'
  <2>1. \A d \in Fds : m_datas'[d].gen # 0 /\ sock'[d].gen = m_datas'[d].gen
                        => sock'[d].nonblock \/ sock'[d].gen \in strays
    BY <1>2, <1>3 DEF IndInv, Nonblocking
  <2>2. \A g \in Fibers : (pc'[g] = pc[g] /\ call'[g] = call[g]) \/ (pc'[g] = "idle" /\ call'[g].ctxGen = 0)
    BY NoCallType
  <2>3. \A d \in Fds : BeingShut(d) => BeingShut(d)' \/ sock'[d].gen = 0  BY <1>2, <1>3, <1>9
  <2>4. \A d \in Fds : sock'[d].gen = 0 \/ sock'[d] = sock[d]  BY <1>2, <1>3
  <2>5. QED  BY <2>1, <2>2, <2>3, <2>4, CallsStayClear
<1>17. WakersTold'
  <2>1. \A d \in Fds : "WRITE" \in sock'[d].cond => sock'[d].conn \in {"yes", "failed"}
    BY <1>2, <1>3 DEF IndInv, WakersTold
  <2>2. \A g \in Fibers : pc[g] \in {"woken", "soerror"} => call[g].fd \in Fds /\ call[g].gen # 0
    BY DEF IndInv, CallShape
  <2>3. QED  BY <1>2, <1>3, <2>1, <2>2 DEF IndInv, WakersTold
<1>18. ReportsTold'
  <2>1. \A d \in Fds : sock'[d] = sock[d] \/ sock'[d].gen = 0  BY <1>2, <1>3
  <2>2. QED  BY <2>1, ReportsStay
<1>19. QED  BY <1>4, <1>5, <1>6, <1>12, <1>13, <1>15, <1>16, <1>17, <1>18 DEF IndInv

LEMMA CloseSysInv ==
  ASSUME IndInv, NEW f \in Fibers, CloseSys(f)
  PROVE  IndInv'
<1>1. /\ pc[f] = "closeSys" /\ Returns(f)
      /\ UNCHANGED <<opens, m_datas, waiter, reports, timer, cancels, calls, rawCloses, strays, aborted>>
  BY DEF CloseSys, world
<1>2. PICK fd \in Fds : fd = call[f].fd  BY <1>1 DEF IndInv, CallShape
<1>3. Shut(fd)
  <2>1. \A d : d = call[f].fd => (Shut(d) <=> Shut(call[f].fd))  BY DEF Shut
  <2>2. QED  BY <1>2, <2>1 DEF CloseSys
<1>4. Known(fd) /\ m_datas[fd] = NoCtx  BY <1>1, <1>2 DEF IndInv, InOneHand
<1>5. /\ pc' = [pc EXCEPT ![f] = "idle"] /\ call' = [call EXCEPT ![f] = NoCall]
      /\ woken' = [woken EXCEPT ![f] = "no"] /\ tinfo' = [tinfo EXCEPT ![f] = FALSE]
      /\ fired' = [fired EXCEPT ![f] = 0]
  BY <1>1 DEF Returns, Goto
<1>6. /\ pc' \in [Fibers -> Places] /\ call' \in [Fibers -> CallType] /\ woken' \in [Fibers -> WokenNames]
      /\ fired' \in [Fibers -> Nat]
  BY <1>5, Types, NoCallType DEF Places, WokenNames
<1>7. tinfo' \in [Fibers -> BOOLEAN] /\ \A g \in Fibers \ {f} : tinfo'[g] = tinfo[g]  BY <1>5, Types
<1>8. pc'[f] = "idle" /\ call'[f] = NoCall /\ woken'[f] = "no" /\ fired'[f] = 0
      /\ \A g \in Fibers \ {f} : /\ pc'[g] = pc[g] /\ call'[g] = call[g] /\ woken'[g] = woken[g]
                                 /\ fired'[g] = fired[g]
  BY <1>5, Types
<1>9. \A g \in Fibers : pc'[g] \in {"closeDel", "closeSys"} => call'[g].fd # fd
  BY <1>1, <1>2, <1>8 DEF IndInv, InOneHand
<1>10. QED  BY <1>1, <1>2, <1>3, <1>4, <1>6, <1>7, <1>8, <1>9, ShutInv

LEMMA RawCloseInv ==
  ASSUME IndInv, NEW fd \in Fds, RawClose(fd)
  PROVE  IndInv'
<1>1. /\ Known(fd) /\ ~Closing(fd) /\ Shut(fd) /\ rawCloses' = rawCloses \cup {fd}
      /\ UNCHANGED <<opens, m_datas, waiter, reports, pc, call, tinfo, timer, fired, cancels, woken, calls, strays, aborted>>
  BY DEF RawClose, timing
<1>2. \A g \in Fibers : pc[g] \in {"closeDel", "closeSys"} => call[g].fd # fd  BY <1>1 DEF Closing
<1>3. QED  BY <1>1, <1>2, Types, ShutInv

-----------------------------------------------------------------------------
(* The kernel, the timers and their callbacks.                              *)

\* No fiber moves, and no socket is replaced: types, readiness and the flags of the
\* calls are what is left to look at.
LEMMA StillInv ==
  ASSUME IndInv, SameSockets, sock' \in [Fds -> SockType],
         \A d \in Fds : /\ "WRITE" \in sock'[d].cond => sock'[d].conn \in {"yes", "failed"}
                        /\ sock[d].conn \in {"yes", "failed"} => sock'[d].conn \in {"yes", "failed"},
         tinfo' \in [Fibers -> BOOLEAN], timer' \in [Fibers -> BOOLEAN], fired' \in [Fibers -> Nat],
         cancels' \in [Fds -> [Dirs -> Nat]],
         \A g \in Fibers : tinfo[g] => tinfo'[g],
         TimerOwned', FiredOwned', ReportsTold', calls' \in 0..MaxCalls, reports' \in ReportsType,
         UNCHANGED <<m_datas, waiter, watched, pc, call, woken, aborted>>
  PROVE  IndInv'
<1>1. WaitersExact'
  <2>1. Exact'  BY Types DEF Exact
  <2>2. opens' \in 0..MaxOpens /\ rawCloses' \in SUBSET Fds /\ strays' \in SUBSET (0..MaxOpens)
    BY Types DEF SameSockets
  <2>3. QED  BY <2>1, <2>2, Types, TypesBack
<1>2. CallShape'  BY DEF IndInv, CallShape
<1>3. \A g \in Fibers : QuietFiber(g)  BY QuietIfStill
<1>4. SameContexts  BY DEF SameContexts
<1>5. WakersTold'
  <2>1. \A g \in Fibers : pc[g] \in {"woken", "soerror"} => call[g].fd \in Fds  BY DEF IndInv, CallShape
  <2>2. QED  BY <2>1 DEF IndInv, WakersTold, SameSockets
<1>6. QED  BY <1>1, <1>2, <1>3, <1>4, <1>5, QuietContexts DEF IndInv

LEMMA ArrivesInv ==
  ASSUME IndInv, NEW fd \in Fds, NEW e \in Dirs, Arrives(fd, e)
  PROVE  IndInv'
<1> DEFINE c == sock[fd].cond \cup {e}
<1>1. /\ sock[fd].conn = "yes" \/ (sock[fd].conn = "listen" /\ e = "READ")
      /\ sock' = [sock EXCEPT ![fd].cond = c]
      /\ UNCHANGED <<opens, m_datas, waiter, watched, reports, pc, call, tinfo, timer, fired, cancels, woken,
                     calls, rawCloses, strays, aborted>>
  BY DEF Arrives, io, timing, world
<1>2. c \in SUBSET Dirs  BY Types DEF SockType
<1>3. /\ "WRITE" \in c => sock[fd].conn \in {"yes", "failed"}
      /\ \A d \in Fds : "WRITE" \in sock[d].cond => sock[d].conn \in {"yes", "failed"}
  BY <1>1 DEF IndInv, WakersTold
<1> HIDE DEF c
<1>4. /\ sock' \in [Fds -> SockType]
      /\ sock'[fd].gen = sock[fd].gen /\ sock'[fd].nonblock = sock[fd].nonblock
      /\ sock'[fd].conn = sock[fd].conn /\ sock'[fd].cond = c
      /\ \A x \in Fds \ {fd} : sock'[x] = sock[x]
  BY <1>1, <1>2, Types, CondSet
<1>5. SameSockets  BY <1>1, <1>4 DEF SameSockets
<1>6. TimerOwned' /\ FiredOwned'  BY <1>1 DEF IndInv, TimerOwned, FiredOwned
<1>7. \A d \in Fds : /\ "WRITE" \in sock'[d].cond => sock'[d].conn \in {"yes", "failed"}
                     /\ sock[d].conn \in {"yes", "failed"} => sock'[d].conn \in {"yes", "failed"}
  BY <1>3, <1>4
<1>8. ReportsTold'  BY <1>1, <1>4, ReportsStay
<1>9. QED  BY <1>1, <1>4, <1>5, <1>6, <1>7, <1>8, Types, StillInv

LEMMA CompletesInv ==
  ASSUME IndInv, NEW fd \in Fds, NEW conn \in {"yes", "failed"}, Completes(fd, conn)
  PROVE  IndInv'
<1> DEFINE p == [sock[fd] EXCEPT !.conn = conn]
<1> DEFINE r == [p EXCEPT !.cond = {"WRITE"}]
<1>1. /\ sock' = [sock EXCEPT ![fd].conn = conn, ![fd].cond = {"WRITE"}]
      /\ UNCHANGED <<opens, m_datas, waiter, watched, reports, pc, call, tinfo, timer, fired, cancels, woken,
                     calls, rawCloses, strays, aborted>>
  BY DEF Completes, io, timing, world
<1>2. sock \in [Fds -> SockType] /\ sock[fd] \in SockType  BY Types
<1>3. p \in SockType /\ p.gen = sock[fd].gen /\ p.nonblock = sock[fd].nonblock /\ p.conn = conn
  BY <1>2 DEF SockType, Conns
<1>4. sock' = [sock EXCEPT ![fd] = r]
  <2>1. [sock EXCEPT ![fd].conn = conn, ![fd].cond = {"WRITE"}]
          = [[sock EXCEPT ![fd] = p] EXCEPT ![fd].cond = {"WRITE"}]
    OBVIOUS
  <2>2. [sock EXCEPT ![fd] = p][fd] = p  BY <1>2
  <2> HIDE DEF p
  <2>3. [[sock EXCEPT ![fd] = p] EXCEPT ![fd].cond = {"WRITE"}]
          = [[sock EXCEPT ![fd] = p] EXCEPT ![fd] = r]
    BY <2>2
  <2> HIDE DEF r
  <2>4. [[sock EXCEPT ![fd] = p] EXCEPT ![fd] = r] = [sock EXCEPT ![fd] = r]  BY <1>2
  <2>5. QED  BY <1>1, <2>1, <2>3, <2>4
<1> HIDE DEF p
<1>5. r \in SockType /\ r.gen = p.gen /\ r.nonblock = p.nonblock /\ r.conn = p.conn
  BY <1>3 DEF SockType, Dirs
<1> HIDE DEF r
<1>6. /\ sock' \in [Fds -> SockType]
      /\ sock'[fd].gen = sock[fd].gen /\ sock'[fd].nonblock = sock[fd].nonblock /\ sock'[fd].conn = conn
      /\ \A x \in Fds \ {fd} : sock'[x] = sock[x]
  BY <1>2, <1>3, <1>4, <1>5
<1>7. SameSockets  BY <1>1, <1>6 DEF SameSockets
<1>8. TimerOwned' /\ FiredOwned'  BY <1>1 DEF IndInv, TimerOwned, FiredOwned
<1>9. \A d \in Fds : /\ "WRITE" \in sock'[d].cond => sock'[d].conn \in {"yes", "failed"}
                     /\ sock[d].conn \in {"yes", "failed"} => sock'[d].conn \in {"yes", "failed"}
  BY <1>6 DEF IndInv, WakersTold
<1>10. ReportsTold'  BY <1>1, <1>6, ReportsStay
<1>11. QED  BY <1>1, <1>6, <1>7, <1>8, <1>9, <1>10, Types, StillInv

LEMMA ExpiresInv ==
  ASSUME IndInv, NEW f \in Fibers, Expires(f)
  PROVE  IndInv'
<1>1. /\ timer[f] /\ timer' = [timer EXCEPT ![f] = FALSE] /\ fired' = [fired EXCEPT ![f] = @ + 1]
      /\ UNCHANGED <<sock, opens, m_datas, waiter, watched, reports, pc, call, tinfo, cancels, woken, calls, rawCloses, strays, aborted>>
  BY DEF Expires, kernel, io, world
<1>2. timer' \in [Fibers -> BOOLEAN] /\ ~timer'[f] /\ \A g \in Fibers \ {f} : timer'[g] = timer[g]
  BY <1>1, Types
<1>3. fired' \in [Fibers -> Nat] /\ \A g \in Fibers \ {f} : fired'[g] = fired[g]  BY <1>1, Types
<1>4. pc[f] \in {"add", "wait", "woken", "sleep"}  BY <1>1 DEF IndInv, TimerOwned
<1>5. TimerOwned' /\ FiredOwned'
  <2>1. TimerOwned'  BY <1>1, <1>2 DEF IndInv, TimerOwned
  <2>2. FiredOwned'  BY <1>1, <1>2, <1>3, <1>4 DEF IndInv, FiredOwned
  <2>3. QED  BY <2>1, <2>2
<1>6. SameSockets  BY <1>1 DEF SameSockets
<1>7. \A d \in Fds : "WRITE" \in sock[d].cond => sock[d].conn \in {"yes", "failed"}  BY DEF IndInv, WakersTold
<1>8. ReportsTold'  BY <1>1, ReportsStay
<1>9. QED  BY <1>1, <1>2, <1>3, <1>5, <1>6, <1>7, <1>8, Types, StillInv

LEMMA TimerCallbackInv ==
  ASSUME IndInv, NEW f \in Fibers, TimerCallback(f)
  PROVE  IndInv'
<1> DEFINE fd == call[f].fd
<1> DEFINE e == Dir(call[f].kind)
<1>1. /\ fired[f] > 0 /\ fired' = [fired EXCEPT ![f] = @ - 1] /\ tinfo' = [tinfo EXCEPT ![f] = TRUE]
      /\ cancels' = cancels \/ cancels' = [cancels EXCEPT ![fd][e] = @ + 1]
      /\ UNCHANGED <<sock, opens, m_datas, waiter, watched, reports, pc, call, timer, woken, calls, rawCloses, strays, aborted>>
  BY DEF TimerCallback, kernel, io, world
<1>2. fired' \in [Fibers -> Nat] /\ fired'[f] < fired[f] /\ \A g \in Fibers \ {f} : fired'[g] = fired[g]
  BY <1>1, Types
<1>3. tinfo' \in [Fibers -> BOOLEAN] /\ tinfo'[f] /\ \A g \in Fibers \ {f} : tinfo'[g] = tinfo[g]
  BY <1>1, Types
<1>4. cancels' \in [Fds -> [Dirs -> Nat]]
  <2>1. cancels \in [Fds -> [Dirs -> Nat]] /\ e \in Dirs  BY Types, DirType
  <2> HIDE DEF fd, e
  <2>2. CASE cancels' = cancels  BY <2>1, <2>2
  <2>3. CASE cancels' = [cancels EXCEPT ![fd][e] = @ + 1]
    <3>1. CASE fd \in Fds  BY <2>1, <2>3, <3>1
    <3>2. CASE fd \notin Fds  BY <2>1, <2>3, <3>2
    <3>3. QED  BY <3>1, <3>2
  <2>4. QED  BY <1>1, <2>2, <2>3
<1>5. TimerOwned' /\ FiredOwned'
  <2>1. TimerOwned'  BY <1>1 DEF IndInv, TimerOwned
  <2>2. \A g \in Fibers : fired[g] \in Nat /\ fired'[g] \in Nat /\ fired'[g] <= fired[g]  BY <1>2, Types
  <2>3. FiredOwned'  BY <1>1, <2>2 DEF IndInv, FiredOwned
  <2>4. QED  BY <2>1, <2>3
<1>6. SameSockets  BY <1>1 DEF SameSockets
<1>7. \A d \in Fds : "WRITE" \in sock[d].cond => sock[d].conn \in {"yes", "failed"}  BY DEF IndInv, WakersTold
<1>8. ReportsTold'  BY <1>1, ReportsStay
<1>9. QED  BY <1>1, <1>2, <1>3, <1>4, <1>5, <1>6, <1>7, <1>8, Types, StillInv

-----------------------------------------------------------------------------
(* Waiters are handed to the scheduler.                                     *)

\* The fibers that wait for one of the events S of fd.
Waits(g, fd, S) == pc[g] = "wait" /\ call[g].fd = fd /\ Dir(call[g].kind) \in S

\* What Trigger does to each fiber and each slot.
TriggerDoes(fd, S, mover, place, why) ==
  /\ waiter' \in [Fds -> [Dirs -> Fibers \cup {NoFiber}]] /\ watched' \in [Fds -> SUBSET Dirs]
  /\ pc' \in [Fibers -> Places] /\ woken' \in [Fibers -> WokenNames] /\ Exact'
  /\ mover \in Fibers => pc'[mover] = place /\ woken'[mover] = woken[mover]
  /\ \A g \in Fibers : g # mover /\ Waits(g, fd, S) => pc'[g] = "woken" /\ woken'[g] = why
  /\ \A g \in Fibers : g # mover /\ ~Waits(g, fd, S) => pc'[g] = pc[g] /\ woken'[g] = woken[g]

LEMMA TriggerFacts ==
  ASSUME IndInv, NEW fd \in Fds, NEW S \in SUBSET Dirs, NEW mover, NEW place, NEW why,
         place \in Places \ {"wait"}, why \in WokenNames, Trigger(fd, S, mover, place, why),
         mover \in Fibers => pc[mover] = "idle",
         \A g \in Fibers : g # mover => call'[g] = call[g]
  PROVE  TriggerDoes(fd, S, mover, place, why)
<1> DEFINE W == {waiter[fd][e] : e \in S}
<1>1. /\ waiter' = [waiter EXCEPT ![fd] = [e \in Dirs |-> IF e \in S THEN NoFiber ELSE waiter[fd][e]]]
      /\ watched' = [watched EXCEPT ![fd] = @ \ S]
      /\ pc' = [f \in Fibers |-> IF f = mover THEN place ELSE IF f \in W THEN "woken" ELSE pc[f]]
      /\ woken' = [f \in Fibers |-> IF f \in W THEN why ELSE woken[f]]
  BY DEF Trigger
<1>2. Exact /\ waiter \in [Fds -> [Dirs -> Fibers \cup {NoFiber}]]  BY Types
<1>3. \A g \in Fibers : g \in W <=> Waits(g, fd, S)
  <2>1. \A g \in Fibers : g \in W <=> \E e \in S : waiter[fd][e] = g  OBVIOUS
  <2>2. QED  BY <1>2, <2>1, DirType DEF Exact, Waits
<1> HIDE DEF W
<1>4. \A g \in Fibers : /\ pc'[g] = IF g = mover THEN place ELSE IF g \in W THEN "woken" ELSE pc[g]
                        /\ woken'[g] = IF g \in W THEN why ELSE woken[g]
  BY <1>1
<1>5. pc' \in [Fibers -> Places] /\ woken' \in [Fibers -> WokenNames] /\ watched' \in [Fds -> SUBSET Dirs]
  <2>1. "woken" \in Places  BY DEF Places
  <2>2. QED  BY <1>1, <2>1, Types
<1>6. /\ waiter' \in [Fds -> [Dirs -> Fibers \cup {NoFiber}]]
      /\ \A d \in Fds, e \in Dirs : waiter'[d][e] = IF d = fd /\ e \in S THEN NoFiber ELSE waiter[d][e]
  BY <1>1, <1>2
<1>7. Exact'
  <2>1. \A g \in Fibers : g # NoFiber  BY HookAssumption
  <2>2. ASSUME NEW g \in Fibers, NEW d \in Fds, NEW e \in Dirs
        PROVE  waiter'[d][e] = g <=> pc'[g] = "wait" /\ call'[g].fd = d /\ Dir(call'[g].kind) = e
    <3>1. CASE g = mover
      <4>1. pc'[g] # "wait" /\ pc[g] # "wait"  BY <1>4, <3>1
      <4>2. waiter[d][e] # g  BY <1>2, <4>1 DEF Exact
      <4>3. QED  BY <1>6, <2>1, <4>1, <4>2
    <3>2. CASE g # mover /\ Waits(g, fd, S)
      <4>1. pc'[g] # "wait"  BY <1>3, <1>4, <3>2
      <4>2. waiter'[d][e] # g  BY <1>2, <1>6, <2>1, <3>2 DEF Exact, Waits
      <4>3. QED  BY <4>1, <4>2
    <3>3. CASE g # mover /\ ~Waits(g, fd, S)
      <4>1. pc'[g] = pc[g] /\ call'[g] = call[g]  BY <1>3, <1>4, <3>3
      <4>2. waiter[d][e] = g <=> pc[g] = "wait" /\ call[g].fd = d /\ Dir(call[g].kind) = e  BY <1>2 DEF Exact
      <4>3. d = fd /\ e \in S => waiter[d][e] # g  BY <3>3, <4>2 DEF Waits
      <4>4. QED  BY <1>6, <2>1, <4>1, <4>2, <4>3
    <3>4. QED  BY <3>1, <3>2, <3>3
  <2>3. QED  BY <2>2 DEF Exact
<1>8. mover \in Fibers => mover \notin W  BY <1>3 DEF Waits
<1>9. QED  BY <1>3, <1>4, <1>5, <1>6, <1>7, <1>8 DEF TriggerDoes

\* Nobody but the waiters moves.
LEMMA TriggerInv ==
  ASSUME IndInv, NEW fd \in Fds, NEW S \in SUBSET Dirs, NEW why \in {"event", "stale", "cancel", "timeout"},
         Trigger(fd, S, NoFiber, "idle", why),
         why = "timeout" => \A g \in Fibers : Waits(g, fd, S) => tinfo[g],
         why = "event" => \A g \in Fibers :
           Waits(g, fd, S) /\ call[g].kind = "connect" => sock[fd].conn \in {"yes", "failed"},
         cancels' \in [Fds -> [Dirs -> Nat]], calls' \in 0..MaxCalls, reports' \in ReportsType, ReportsTold',
         UNCHANGED <<sock, opens, m_datas, call, tinfo, timer, fired, rawCloses, strays, aborted>>
  PROVE  IndInv'
<1>1. "idle" \in Places \ {"wait"} /\ why \in WokenNames  BY DEF Places, WokenNames
<1>2. NoFiber \notin Fibers  BY HookAssumption
<1>3. /\ waiter' \in [Fds -> [Dirs -> Fibers \cup {NoFiber}]] /\ watched' \in [Fds -> SUBSET Dirs]
      /\ pc' \in [Fibers -> Places] /\ woken' \in [Fibers -> WokenNames] /\ Exact'
      /\ \A g \in Fibers : g # NoFiber /\ Waits(g, fd, S) => pc'[g] = "woken" /\ woken'[g] = why
      /\ \A g \in Fibers : g # NoFiber /\ ~Waits(g, fd, S) => pc'[g] = pc[g] /\ woken'[g] = woken[g]
  <2>1. TriggerDoes(fd, S, NoFiber, "idle", why)  BY <1>1, <1>2, TriggerFacts
  <2>2. QED  BY <2>1 DEF TriggerDoes
<1>4. \A g \in Fibers : \/ pc'[g] = pc[g] /\ woken'[g] = woken[g]
                        \/ Waits(g, fd, S) /\ pc'[g] = "woken" /\ woken'[g] = why
  BY <1>2, <1>3
<1>5. WaitersExact'  BY <1>3, Types, TypesBack
<1>6. CallShape'  BY <1>4 DEF IndInv, CallShape, Waits
<1>7. TimerOwned' /\ FiredOwned'  BY <1>4 DEF IndInv, TimerOwned, FiredOwned, Waits
<1>8. \A g \in Fibers : QuietFiber(g)  BY <1>4, QuietIfStill DEF Hands, Waits
<1>9. SameSockets /\ SameContexts  BY DEF SameSockets, SameContexts
<1>10. WakersTold'
  <2>1. \A g \in Fibers : pc'[g] = pc[g] /\ woken'[g] = woken[g] =>
          /\ pc'[g] \in {"idle", "register", "closeDel", "closeSys", "sleep", "fcntl"} => woken'[g] = "no"
          /\ pc'[g] \in {"arm", "add", "wait", "blocked"} /\ call'[g].kind = "connect" => woken'[g] = "no"
          /\ pc'[g] = "woken" /\ woken'[g] = "timeout" => tinfo'[g]
          /\ pc'[g] = "soerror" => woken'[g] # "timeout"
          /\ /\ pc'[g] \in {"woken", "soerror"} /\ call'[g].kind = "connect" /\ woken'[g] = "event"
             /\ sock'[call'[g].fd].gen = call'[g].gen
             => sock'[call'[g].fd].conn \in {"yes", "failed"}
    BY DEF IndInv, WakersTold
  <2>2. \A g \in Fibers : Waits(g, fd, S) /\ pc'[g] = "woken" /\ woken'[g] = why =>
          /\ woken'[g] = "timeout" => tinfo'[g]
          /\ call'[g].kind = "connect" /\ woken'[g] = "event" => sock'[call'[g].fd].conn \in {"yes", "failed"}
    BY DEF Waits
  <2>3. \A d \in Fds : "WRITE" \in sock'[d].cond => sock'[d].conn \in {"yes", "failed"}  BY DEF IndInv, WakersTold
  <2>4. QED  BY <1>4, <2>1, <2>2, <2>3 DEF WakersTold
<1>11. QED  BY <1>5, <1>6, <1>7, <1>8, <1>9, <1>10, QuietContexts DEF IndInv

\* The array of a thread gets one more report.
LEMMA ReportInv ==
  ASSUME IndInv, NEW fd \in Fds, NEW e \in Dirs, Report(fd, e)
  PROVE  IndInv'
<1>1. /\ sock[fd].gen # 0 /\ e \in sock[fd].cond
      /\ reports' = [reports EXCEPT ![fd][e] = @ \cup {sock[fd].gen}]
      /\ UNCHANGED <<sock, opens, m_datas, waiter, watched, pc, call, tinfo, timer, fired, cancels, woken,
                     calls, rawCloses, strays, aborted>>
  BY DEF Report, Registered, kernel, timing, world
<1>2. sock[fd].gen \in 0..MaxOpens /\ sock[fd].gen <= opens  BY Types DEF SockType, IndInv, GensPast
<1>3. reports \in ReportsType /\ "WRITE" \in Dirs  BY Types DEF Dirs
<1>4. reports' \in ReportsType  BY <1>1, <1>2, <1>3 DEF ReportsType
<1>5. ReportsTold'
  <2> SUFFICES ASSUME NEW d \in Fds, NEW g \in reports'[d]["WRITE"]
               PROVE  g # 0 /\ g <= opens /\ (sock[d].gen = g => sock[d].conn \in {"yes", "failed"})
    BY <1>1 DEF ReportsTold
  <2>1. CASE g \in reports[d]["WRITE"]  BY <2>1 DEF IndInv, ReportsTold
  <2>2. CASE g \notin reports[d]["WRITE"]
    <3>1. d = fd /\ e = "WRITE" /\ g = sock[fd].gen  BY <1>1, <1>3, <2>2 DEF ReportsType
    <3>2. sock[fd].conn \in {"yes", "failed"}  BY <1>1, <3>1 DEF IndInv, WakersTold
    <3>3. QED  BY <1>1, <1>2, <3>1, <3>2
  <2>3. QED  BY <2>1, <2>2
<1>6. TimerOwned' /\ FiredOwned'  BY <1>1 DEF IndInv, TimerOwned, FiredOwned
<1>7. SameSockets  BY <1>1 DEF SameSockets
<1>8. \A d \in Fds : "WRITE" \in sock[d].cond => sock[d].conn \in {"yes", "failed"}  BY DEF IndInv, WakersTold
<1>9. QED  BY <1>1, <1>4, <1>5, <1>6, <1>7, <1>8, Types, StillInv

\* The waiter of an event is handed over, if there is one, with what the callers do besides.
LEMMA TriggerOneInv ==
  ASSUME IndInv, NEW fd \in Fds, NEW e \in Dirs, NEW why \in {"event", "stale", "cancel", "timeout"},
         TriggerOne(fd, e, why),
         why = "timeout" => \A g \in Fibers : Waits(g, fd, {e}) => tinfo[g],
         why = "event" => \A g \in Fibers :
           Waits(g, fd, {e}) /\ call[g].kind = "connect" => sock[fd].conn \in {"yes", "failed"},
         cancels' \in [Fds -> [Dirs -> Nat]], calls' \in 0..MaxCalls, reports' \in ReportsType, ReportsTold',
         UNCHANGED <<sock, opens, m_datas, call, tinfo, timer, fired, rawCloses, strays, aborted>>
  PROVE  IndInv'
<1>1. CASE Trigger(fd, {e}, NoFiber, "idle", why)
  BY <1>1, TriggerInv
<1>2. CASE UNCHANGED <<waiter, watched, pc, woken>>
  <2>1. TimerOwned' /\ FiredOwned'  BY <1>2 DEF IndInv, TimerOwned, FiredOwned
  <2>2. SameSockets  BY DEF SameSockets
  <2>3. \A d \in Fds : "WRITE" \in sock[d].cond => sock[d].conn \in {"yes", "failed"}  BY DEF IndInv, WakersTold
  <2>4. QED  BY <1>2, <2>1, <2>2, <2>3, Types, StillInv
<1>3. QED  BY <1>1, <1>2 DEF TriggerOne

LEMMA DeliverInv ==
  ASSUME IndInv, NEW fd \in Fds, NEW e \in Dirs, Deliver(fd, e)
  PROVE  IndInv'
<1> DEFINE Why(g) == IF g = sock[fd].gen THEN "event" ELSE "stale"
<1>1. PICK g \in reports[fd][e] : /\ reports' = [reports EXCEPT ![fd][e] = @ \ {g}]
                                  /\ TriggerOne(fd, e, Why(g))
  BY DEF Deliver
<1>2. UNCHANGED <<sock, opens, m_datas, call, tinfo, timer, fired, cancels, calls, rawCloses, strays, aborted>>
  BY DEF Deliver, kernel, timing, world
<1>3. reports \in ReportsType /\ "WRITE" \in Dirs  BY Types DEF Dirs
<1>4. reports' \in ReportsType /\ \A d \in Fds : reports'[d]["WRITE"] \subseteq reports[d]["WRITE"]
  BY <1>1, <1>3 DEF ReportsType
<1>5. ReportsTold'  BY <1>2, <1>4, ReportsStay
<1>6. PICK w \in {"event", "stale"} : w = Why(g)  OBVIOUS
<1>7. w = "event" => g = sock[fd].gen  BY <1>6
<1>8. TriggerOne(fd, e, w)  BY <1>1, <1>6
<1> HIDE DEF Why
<1>9. w = "event" => \A f \in Fibers :
        Waits(f, fd, {e}) /\ call[f].kind = "connect" => sock[fd].conn \in {"yes", "failed"}
  <2>1. \A f \in Fibers : Waits(f, fd, {e}) /\ call[f].kind = "connect" => e = "WRITE"  BY DEF Waits, Dir
  <2>2. QED  BY <1>1, <1>7, <2>1 DEF IndInv, ReportsTold
<1>10. w \in {"event", "stale", "cancel", "timeout"} /\ w # "timeout"  OBVIOUS
<1>11. QED  BY <1>2, <1>4, <1>5, <1>8, <1>9, <1>10, Types, TriggerOneInv

\* cancelEvent, with what its callers do besides.
LEMMA CancelInv ==
  ASSUME IndInv, NEW fd \in Fds, NEW e \in Dirs, NEW why \in {"cancel", "timeout"}, cancelEvent(fd, e, why),
         why = "timeout" => \A g \in Fibers : Waits(g, fd, {e}) => tinfo[g],
         cancels' \in [Fds -> [Dirs -> Nat]], calls' \in 0..MaxCalls,
         UNCHANGED <<sock, opens, m_datas, call, tinfo, timer, fired, rawCloses, strays, aborted>>
  PROVE  IndInv'
<1>1. TriggerOne(fd, e, why) /\ reports' = reports  BY DEF cancelEvent
<1>2. ReportsTold'  BY <1>1, ReportsStay
<1>3. reports' \in ReportsType  BY <1>1, Types
<1>4. why \in {"event", "stale", "cancel", "timeout"} /\ why # "event"  OBVIOUS
<1>5. QED  BY <1>1, <1>2, <1>3, <1>4, TriggerOneInv

LEMMA TimerCancelsInv ==
  ASSUME IndInv, NEW fd \in Fds, NEW e \in Dirs, TimerCancels(fd, e)
  PROVE  IndInv'
<1> DEFINE why == IF \E f \in Fibers : waiter[fd][e] = f /\ tinfo[f] THEN "timeout" ELSE "cancel"
<1>1. /\ cancels[fd][e] > 0 /\ cancels' = [cancels EXCEPT ![fd][e] = @ - 1] /\ cancelEvent(fd, e, why)
      /\ UNCHANGED <<sock, opens, m_datas, call, tinfo, timer, fired, calls, rawCloses, strays, aborted>>
  BY DEF TimerCancels, kernel, world
<1>2. cancels' \in [Fds -> [Dirs -> Nat]]  BY <1>1, Types
<1>3. why = "timeout" => \A g \in Fibers : Waits(g, fd, {e}) => tinfo[g]
  <2>1. \A g \in Fibers : Waits(g, fd, {e}) => waiter[fd][e] = g  BY Types DEF Exact, Waits
  <2>2. why = "timeout" => \E f \in Fibers : waiter[fd][e] = f /\ tinfo[f]  OBVIOUS
  <2>3. QED  BY <2>1, <2>2
<1>4. why \in {"cancel", "timeout"}  OBVIOUS
<1>5. PICK w \in {"cancel", "timeout"} : w = why  BY <1>4
<1> HIDE DEF why
<1>6. cancelEvent(fd, e, w)  BY <1>1, <1>5
<1>7. w = "timeout" => \A g \in Fibers : Waits(g, fd, {e}) => tinfo[g]  BY <1>3, <1>5
<1>8. /\ calls' \in 0..MaxCalls
      /\ UNCHANGED <<sock, opens, m_datas, call, tinfo, timer, fired, rawCloses, strays, aborted>>
  BY <1>1, Types
<1>9. QED  BY <1>2, <1>6, <1>7, <1>8, CancelInv

LEMMA ClientCancelsInv ==
  ASSUME IndInv, NEW f \in Fibers, NEW fd \in Fds, NEW e \in Dirs, ClientCancels(f, fd, e)
  PROVE  IndInv'
<1>1. /\ Counted /\ cancelEvent(fd, e, "cancel")
      /\ UNCHANGED <<sock, opens, m_datas, call, tinfo, timer, fired, cancels>>
  BY DEF ClientCancels, kernel, timing
<1>2. calls' \in 0..MaxCalls /\ UNCHANGED <<rawCloses, strays, aborted>>  BY <1>1, CountedCalls
<1>3. QED  BY <1>1, <1>2, Types, CancelInv

\* A fiber begins to close a number.
LEMMA CloseInv ==
  ASSUME IndInv, NEW f \in Fibers, NEW fd \in Fds, Close(f, fd)
  PROVE  IndInv'
<1> DEFINE k == [NoCall EXCEPT !.kind = "close"]
<1> DEFINE b == [k EXCEPT !.fd = fd]
<1> DEFINE c == [b EXCEPT !.gen = sock[fd].gen]
<1> DEFINE S == IF Registered(fd) THEN Events(fd) ELSE {}
<1>1. /\ pc[f] = "idle" /\ Counted /\ Known(fd) /\ ~Closing(fd)
      /\ UNCHANGED <<sock, opens, m_datas, tinfo, timer, fired, cancels>>
  BY DEF Close, kernel, timing
<1>2. calls' \in 0..MaxCalls /\ UNCHANGED <<rawCloses, strays, aborted>>  BY <1>1, CountedCalls
<1>3. call' = [call EXCEPT ![f] = c]
  <2>1. call' = [call EXCEPT ![f] = [NoCall EXCEPT !.kind = "close", !.fd = fd, !.gen = sock[fd].gen]]
    BY DEF Close
  <2>2. [NoCall EXCEPT !.kind = "close", !.fd = fd, !.gen = sock[fd].gen] = c  OBVIOUS
  <2>3. QED  BY <2>1, <2>2
<1>4. ~BeingShut(fd) /\ m_datas[fd] # NoCtx
  <2>1. ~BeingShut(fd)  BY <1>1 DEF Closing, BeingShut
  <2>2. QED  BY <1>1, <2>1, NoCtxType DEF IndInv, ContextsRight
<1>5. Trigger(fd, S, f, "closeDel", "cancel") /\ reports' = reports  BY <1>4 DEF Close
<1>6. S \in SUBSET Dirs  BY DEF Events
<1>7. sock[fd].gen \in 0..MaxOpens  BY Types DEF SockType
<1>8. k \in CallType /\ k.made = NoFd /\ k.ctxGen = 0 /\ k.kind = "close"  BY NoCallType DEF CallType, Kinds
<1> HIDE DEF k
<1>9. b \in CallType /\ b.made = NoFd /\ b.ctxGen = 0 /\ b.kind = "close" /\ b.fd = fd  BY <1>8 DEF CallType
<1> HIDE DEF b
<1>10. c \in CallType /\ c.made = NoFd /\ c.ctxGen = 0 /\ c.kind = "close" /\ c.fd = fd /\ c.gen = sock[fd].gen
  BY <1>7, <1>9 DEF CallType
<1> HIDE DEF c, S
<1>11. call' \in [Fibers -> CallType] /\ call'[f] = c /\ \A g \in Fibers \ {f} : call'[g] = call[g]
  BY <1>3, <1>10, Types
<1>12. /\ waiter' \in [Fds -> [Dirs -> Fibers \cup {NoFiber}]] /\ watched' \in [Fds -> SUBSET Dirs]
       /\ pc' \in [Fibers -> Places] /\ woken' \in [Fibers -> WokenNames] /\ Exact'
       /\ pc'[f] = "closeDel" /\ woken'[f] = woken[f]
       /\ \A g \in Fibers : g # f /\ Waits(g, fd, S) => pc'[g] = "woken" /\ woken'[g] = "cancel"
       /\ \A g \in Fibers : g # f /\ ~Waits(g, fd, S) => pc'[g] = pc[g] /\ woken'[g] = woken[g]
  <2>1. "closeDel" \in Places \ {"wait"} /\ "cancel" \in WokenNames  BY DEF Places, WokenNames
  <2>2. TriggerDoes(fd, S, f, "closeDel", "cancel")  BY <1>1, <1>5, <1>6, <1>11, <2>1, TriggerFacts
  <2>3. QED  BY <2>2 DEF TriggerDoes
<1>13. \A g \in Fibers \ {f} : \/ pc'[g] = pc[g] /\ woken'[g] = woken[g]
                               \/ pc[g] = "wait" /\ pc'[g] = "woken" /\ woken'[g] = "cancel"
  BY <1>12 DEF Waits
<1>14. fired[f] = 0 /\ woken[f] = "no" /\ ~timer[f] /\ call[f].made = NoFd
  BY <1>1 DEF IndInv, FiredOwned, WakersTold, TimerOwned, CallShape
<1>15. WaitersExact'  BY <1>1, <1>2, <1>5, <1>11, <1>12, Types, TypesBack
<1>16. CallShape'  BY <1>10, <1>11, <1>12, <1>13 DEF IndInv, CallShape
<1>17. TimerOwned' /\ FiredOwned'
  BY <1>1, <1>12, <1>13, <1>14 DEF IndInv, TimerOwned, FiredOwned
<1>18. \A d \in Fds : Known(d)' <=> Known(d)  BY <1>1, <1>10, <1>11, <1>14 DEF Known
<1>19. \A d : BeingShut(d)' <=> BeingShut(d)  BY <1>1, <1>11, <1>12, <1>13 DEF BeingShut
<1>20. InOneHand'
  <2>1. \A g \in Fibers : /\ pc'[g] \in {"closeDel", "closeSys"} => call'[g].fd \in Fds
                          /\ pc'[g] = "register" => call'[g].made \in Fds
    BY <1>16 DEF CallShape
  <2>2. \A g \in Fibers \ {f} : pc'[g] \in {"register", "closeDel", "closeSys"} => pc'[g] = pc[g] /\ call'[g] = call[g]
    BY <1>11, <1>13
  <2>3. \A g \in Fibers \ {f} : pc'[g] \in {"closeDel", "closeSys"} => call'[g].fd # fd
    BY <1>1, <2>2 DEF Closing
  <2>4. ASSUME NEW g \in Fibers, pc'[g] \in {"closeDel", "closeSys"}
        PROVE  Known(call[g].fd)'
    <3>1. PICK d \in Fds : d = call'[g].fd  BY <2>1, <2>4
    <3>2. CASE g = f  BY <1>1, <1>10, <1>11, <1>18, <3>1, <3>2 DEF Known
    <3>3. CASE g # f
      <4>1. Known(d)  BY <2>2, <2>4, <3>1, <3>3 DEF IndInv, InOneHand
      <4>2. QED  BY <1>18, <3>1, <4>1 DEF Known
    <3>4. QED  BY <3>2, <3>3
  <2>5. \A g \in Fibers : pc'[g] = "closeSys" => m_datas'[call'[g].fd] = NoCtx
    BY <1>1, <1>12, <2>2 DEF IndInv, InOneHand
  <2>6. \A g \in Fibers : pc'[g] = "register" => sock'[call'[g].made].gen # 0
    BY <1>1, <1>12, <2>2 DEF IndInv, InOneHand
  <2>7. \A g, h \in Fibers : /\ pc'[g] \in {"closeDel", "closeSys"} /\ pc'[h] \in {"closeDel", "closeSys"}
                              /\ call'[g].fd = call'[h].fd => g = h
    BY <1>10, <1>11, <2>2, <2>3 DEF IndInv, InOneHand
  <2>8. \A g, h \in Fibers : pc'[g] = "register" /\ pc'[h] = "register" /\ call'[g].made = call'[h].made => g = h
    BY <1>12, <2>2 DEF IndInv, InOneHand
  <2>9. QED  BY <2>4, <2>5, <2>6, <2>7, <2>8 DEF InOneHand
<1>21. ContextsRight'  BY <1>1, <1>2, <1>18, <1>19 DEF IndInv, ContextsRight
<1>22. GensPast'
  <2>1. c.gen <= opens /\ c.ctxGen <= opens  BY <1>10, Types, HookAssumption DEF IndInv, GensPast
  <2>2. QED  BY <1>1, <1>11, <2>1 DEF IndInv, GensPast
<1>23. Nonblocking'
  <2>1. \A d \in Fds : m_datas'[d].gen # 0 /\ sock'[d].gen = m_datas'[d].gen
                        => sock'[d].nonblock \/ sock'[d].gen \in strays
    BY <1>1 DEF IndInv, Nonblocking
  <2>2. pc'[f] = "closeDel" /\ call'[f].ctxGen = 0  BY <1>10, <1>11, <1>12
  <2>3. \A g \in Fibers \ {f} : pc'[g] = pc[g] \/ pc'[g] \notin {"blocked", "fcntl"}  BY <1>13
  <2>4. QED  BY <1>1, <1>2, <1>11, <1>19, <2>1, <2>2, <2>3, CallsStayClear
<1>24. WakersTold'
  <2>1. \A g \in Fibers \ {f} : pc'[g] = pc[g] /\ woken'[g] = woken[g] =>
          /\ pc'[g] \in {"idle", "register", "closeDel", "closeSys", "sleep", "fcntl"} => woken'[g] = "no"
          /\ pc'[g] \in {"arm", "add", "wait", "blocked"} /\ call'[g].kind = "connect" => woken'[g] = "no"
          /\ pc'[g] = "woken" /\ woken'[g] = "timeout" => tinfo'[g]
          /\ pc'[g] = "soerror" => woken'[g] # "timeout"
          /\ /\ pc'[g] \in {"woken", "soerror"} /\ call'[g].kind = "connect" /\ woken'[g] = "event"
             /\ sock'[call'[g].fd].gen = call'[g].gen
             => sock'[call'[g].fd].conn \in {"yes", "failed"}
    BY <1>1, <1>11 DEF IndInv, WakersTold
  <2>2. \A d \in Fds : "WRITE" \in sock'[d].cond => sock'[d].conn \in {"yes", "failed"}
    BY <1>1 DEF IndInv, WakersTold
  <2>3. QED  BY <1>12, <1>13, <1>14, <2>1, <2>2 DEF WakersTold
<1>25. ReportsTold'  BY <1>1, <1>5, ReportsStay
<1>26. QED  BY <1>15, <1>16, <1>17, <1>20, <1>21, <1>22, <1>23, <1>24, <1>25 DEF IndInv

-----------------------------------------------------------------------------
LEMMA StutterInv ==
  ASSUME IndInv, UNCHANGED vars
  PROVE  IndInv'
<1>1. UNCHANGED <<sock, opens, m_datas, waiter, watched, reports, pc, call, tinfo, timer, fired, cancels, woken,
                  calls, rawCloses, strays, aborted>>
  BY DEF vars, kernel, io, timing, world
<1>2. TimerOwned' /\ FiredOwned'  BY <1>1 DEF IndInv, TimerOwned, FiredOwned
<1>3. SameSockets  BY <1>1 DEF SameSockets
<1>4. \A d \in Fds : "WRITE" \in sock[d].cond => sock[d].conn \in {"yes", "failed"}  BY DEF IndInv, WakersTold
<1>5. ReportsTold'  BY <1>1, ReportsStay
<1>6. QED  BY <1>1, <1>2, <1>3, <1>4, <1>5, Types, StillInv

LEMMA StartsInv ==
  ASSUME IndInv, NEW f \in Fibers, Starts(f)
  PROVE  IndInv'
<1>1. CASE Sleep(f)  BY <1>1, SleepInv
<1>2. ASSUME NEW fd \in Fds, NEW kind \in IOKinds, do_io(f, kind, fd) PROVE IndInv'  BY <1>2, DoIoInv
<1>3. ASSUME NEW fd \in Fds, NEW timed \in BOOLEAN, Connect(f, fd, timed) PROVE IndInv'  BY <1>3, ConnectInv
<1>4. ASSUME NEW fd \in Fds, NEW conn \in {"no", "listen"}, Socket(f, fd, conn) PROVE IndInv'  BY <1>4, SocketInv
<1>5. ASSUME NEW fd \in Fds, NEW nonblock \in BOOLEAN, Fcntl(f, fd, nonblock) PROVE IndInv'  BY <1>5, FcntlInv
<1>6. ASSUME NEW fd \in Fds, NEW e \in Dirs, SetTimeout(f, fd, e) PROVE IndInv'  BY <1>6, SetTimeoutInv
<1>7. ASSUME NEW fd \in Fds, NEW e \in Dirs, ClientCancels(f, fd, e) PROVE IndInv'  BY <1>7, ClientCancelsInv
<1>8. ASSUME NEW fd \in Fds, Close(f, fd) PROVE IndInv'  BY <1>8, CloseInv
<1>9. QED  BY <1>1, <1>2, <1>3, <1>4, <1>5, <1>6, <1>7, <1>8 DEF Starts

LEMMA StepInv ==
  ASSUME IndInv, NEW f \in Fibers, Step(f)
  PROVE  IndInv'
<1>1. CASE CallEnds(f)  BY <1>1, CallEndsInv
<1>2. CASE CallAccepts(f)  BY <1>2, CallAcceptsInv
<1>3. CASE CallWouldBlock(f)  BY <1>3, CallWouldBlockInv
<1>4. CASE CallBlocks(f)  BY <1>4, CallBlocksInv
<1>5. CASE Unblocks(f)  BY <1>5, UnblocksInv
<1>6. CASE Arm(f)  BY <1>6, ArmInv
<1>7. CASE addEvent(f)  BY <1>7, AddEventInv
<1>8. CASE Resumes(f)  BY <1>8, ResumesInv
<1>9. CASE SoError(f)  BY <1>9, SoErrorInv
<1>10. CASE Register(f)  BY <1>10, RegisterInv
<1>11. CASE CloseDel(f)  BY <1>11, CloseDelInv
<1>12. CASE CloseSys(f)  BY <1>12, CloseSysInv
<1>13. CASE SleepEnds(f)  BY <1>13, SleepEndsInv
<1>14. CASE FcntlSys(f)  BY <1>14, FcntlSysInv
<1>15. QED
  BY <1>1, <1>2, <1>3, <1>4, <1>5, <1>6, <1>7, <1>8, <1>9, <1>10, <1>11, <1>12, <1>13, <1>14 DEF Step

LEMMA NextInv == IndInv /\ [Next]_vars => IndInv'
<1> SUFFICES ASSUME IndInv, [Next]_vars PROVE IndInv'
  OBVIOUS
<1>1. CASE UNCHANGED vars  BY <1>1, StutterInv
<1>2. CASE Next
  <2>1. ASSUME NEW f \in Fibers, Step(f) \/ Starts(f) \/ Expires(f) \/ TimerCallback(f)
        PROVE  IndInv'
    BY <2>1, StepInv, StartsInv, ExpiresInv, TimerCallbackInv
  <2>2. ASSUME NEW fd \in Fds, RawClose(fd)
        PROVE  IndInv'
    BY <2>2, RawCloseInv
  <2>3. ASSUME NEW fd \in Fds, NEW conn \in {"yes", "failed"}, Completes(fd, conn)
        PROVE  IndInv'
    BY <2>3, CompletesInv
  <2>4. ASSUME NEW fd \in Fds, NEW e \in Dirs, Arrives(fd, e) \/ Report(fd, e) \/ Deliver(fd, e) \/ TimerCancels(fd, e)
        PROVE  IndInv'
    BY <2>4, ArrivesInv, ReportInv, DeliverInv, TimerCancelsInv
  <2>5. QED  BY <1>2, <2>1, <2>2, <2>3, <2>4 DEF Next
<1>3. QED  BY <1>1, <1>2

\* The inductive invariant: besides the properties, where a fiber is tells what its call
\* is about and what its timer may still do (CallShape, FiredOwned), numbers being made
\* or closed are in one fiber's hands (InOneHand), contexts agree with the sockets the
\* program holds (ContextsRight, GensPast, Nonblocking), and what woke a connecting fiber,
\* or will, is known (WakersTold, ReportsTold).
THEOREM SpecIndInv == Spec => []IndInv
<1>1. Init => IndInv  BY InitInv
<1>2. IndInv /\ [Next]_vars => IndInv'  BY NextInv
<1>3. QED  BY <1>1, <1>2, PTL DEF Spec

\* The slots of IOManager hold exactly the fibers whose do_io or connect_with_timeout
\* has added an event and not been resumed, whatever closes, cancels and timeouts do.
THEOREM SpecWaitersExact == Spec => []WaitersExact
<1>1. IndInv => WaitersExact  BY DEF IndInv
<1>2. QED  BY <1>1, SpecIndInv, PTL

\* No call of do_io, connect_with_timeout or sleep leaves its timer behind.
THEOREM SpecTimerOwned == Spec => []TimerOwned
<1>1. IndInv => TimerOwned  BY DEF IndInv
<1>2. QED  BY <1>1, SpecIndInv, PTL

\* FdManager's context of a number is the one of the socket behind it, for numbers never
\* closed without hooking, and a managed call blocks only on a number handed out anew
\* or about to be closed, or on a socket whose flags an fcntl() meant for a former socket
\* of the number has set.
THEOREM SpecCtxFresh == Spec => []CtxFresh
<1>1. IndInv => CtxFresh
  <2> SUFFICES ASSUME IndInv PROVE CtxFresh
    OBVIOUS
  <2>1. \A fd \in Fds \ rawCloses :
          Known(fd) /\ ~BeingShut(fd) => m_datas[fd] # NoCtx /\ m_datas[fd].gen = sock[fd].gen
    BY NoCtxType DEF IndInv, ContextsRight
  <2>2. \A f \in Fibers :
          pc[f] = "blocked" /\ call[f].ctxGen # 0
            => sock[call[f].fd].gen # call[f].ctxGen \/ BeingShut(call[f].fd) \/ sock[call[f].fd].gen \in strays
    BY DEF IndInv, Nonblocking
  <2>3. QED  BY <2>1, <2>2 DEF CtxFresh
<1>2. QED  BY <1>1, SpecIndInv, PTL

\* connect_with_timeout returns 0 after an event of its own socket or a timeout only on a
\* socket that is connected, or on a number that is another socket's by then: what can
\* mislead it is a cancellation, a failing addEvent, or a report about a former socket.
THEOREM SpecConnectHonest == Spec => ConnectHonest
<1> DEFINE Honest == \A f \in Fibers :
                       SoError(f) /\ SoErrorZero(f) /\ woken[f] \in {"event", "timeout"} =>
                         sock[call[f].fd].conn = "yes" \/ sock[call[f].fd].gen # call[f].gen
<1>1. IndInv /\ [Next]_vars => [Honest]_vars
  <2> SUFFICES ASSUME IndInv, NEW f \in Fibers, SoError(f), SoErrorZero(f), woken[f] \in {"event", "timeout"},
                      sock[call[f].fd].gen = call[f].gen
               PROVE  sock[call[f].fd].conn = "yes"
    OBVIOUS
  <2>1. pc[f] = "soerror" /\ sock[call[f].fd].conn # "failed"  BY DEF SoError, SoErrorZero
  <2>2. call[f].kind = "connect"  BY <2>1 DEF IndInv, CallShape
  <2>3. woken[f] = "event"  BY <2>1 DEF IndInv, WakersTold
  <2>4. QED  BY <2>1, <2>2, <2>3 DEF IndInv, WakersTold
<1>2. QED  BY <1>1, SpecIndInv, PTL DEF Spec, ConnectHonest
=============================================================================
