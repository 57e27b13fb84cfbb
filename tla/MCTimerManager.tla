---------------------------- MODULE MCTimerManager ----------------------------
(* TimerManager.tla with a few timers, two threads and a short stretch of     *)
(* time.                                                                      *)
EXTENDS TimerManager, TLC

\* The timers are interchangeable, and so are the threads.
Symmetry == Permutations(Timers) \cup Permutations(Servers)
=============================================================================
