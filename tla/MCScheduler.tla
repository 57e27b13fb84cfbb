----------------------------- MODULE MCScheduler -----------------------------
(* Scheduler.tla on small pools.                                             *)
EXTENDS Scheduler

\* The threads of the pool are interchangeable, and so are the fibers.
Symmetry == Permutations(Pool) \cup Permutations(Fibers)
=============================================================================
