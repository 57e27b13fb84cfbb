------------------------------- MODULE MCFiber -------------------------------
(* Fiber.tla with two threads, three user fibers and a Scheduler's own.        *)
EXTENDS Fiber, TLC
CONSTANTS r, w, a, b, c, s
MCThreads == {r, w}
MCUser == {a, b, c}
UserSymmetry == Permutations(MCUser)
=============================================================================
