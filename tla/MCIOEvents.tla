----------------------------- MODULE MCIOEvents -----------------------------
(* IOEvents.tla with a few descriptors and threads.                         *)
EXTENDS IOEvents, TLC

\* The threads are interchangeable, and so are the descriptors.
Symmetry == Permutations(Dispatchers) \cup Permutations(Fds)
=============================================================================
