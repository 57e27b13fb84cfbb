----------------------------- MODULE Coroutines -----------------------------
(***************************************************************************)
(* What Fiber promises (the comments of resume() and yield() in fiber.cpp  *)
(* and fiber.h): resume() runs a suspended fiber and returns when it       *)
(* yields or ends, to the flow of control that called resume(), on the     *)
(* same thread, and to no other.  A flow of control is a fiber or the main *)
(* flow of a thread.                                                       *)
(*                                                                         *)
(* The promise holds until a caller breaks the rules of the library, which *)
(* `void' records.                                                         *)
(***************************************************************************)
CONSTANTS Threads, Fibers, Nil

VARIABLES
  running,   \* running[t]: the flow that thread t executes
  inside,    \* inside[g]: the fiber that flow g has resumed and waits for, or Nil
  status,    \* status[f]: "none", "suspended", "running", "done" or "gone"
  void

cvars == <<running, inside, status, void>>

CInit ==
  /\ running = [t \in Threads |-> t]
  /\ inside = [g \in Threads \cup Fibers |-> Nil]
  /\ status = [f \in Fibers |-> "none"]
  /\ void = FALSE

Become(f, from, to) == status[f] \in from /\ status' = [status EXCEPT ![f] = to]

CCreate(f) == Become(f, {"none"}, "suspended") /\ UNCHANGED <<running, inside, void>>

CResume(t, f) ==
  /\ Become(f, {"suspended"}, "running")
  /\ running' = [running EXCEPT ![t] = f]
  /\ inside' = [inside EXCEPT ![running[t]] = f]
  /\ UNCHANGED void

\* The running fiber yields or ends, and its resumer goes on.
CReturns(t) ==
  \E g \in Threads \cup Fibers :
    LET f == running[t] IN
    /\ inside[g] = f
    /\ \E to \in {"suspended", "done"} : Become(f, {"running"}, to)
    /\ running' = [running EXCEPT ![t] = g]
    /\ inside' = [inside EXCEPT ![g] = Nil]
    /\ UNCHANGED void

CReset(f) == Become(f, {"done"}, "suspended") /\ UNCHANGED <<running, inside, void>>

CDestroy(f) == Become(f, {"suspended", "done"}, "gone") /\ UNCHANGED <<running, inside, void>>

\* A caller breaks the rules; nothing is promised from then on.
CVoid == void' = TRUE

CNext ==
  \/ CVoid
  \/ \E f \in Fibers : CCreate(f) \/ CReset(f) \/ CDestroy(f)
  \/ \E t \in Threads : CReturns(t) \/ \E f \in Fibers : CResume(t, f)

CSpec == CInit /\ [][CNext]_cvars
=============================================================================
