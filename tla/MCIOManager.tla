----------------------------- MODULE MCIOManager -----------------------------
(* IOManager.tla with a pool of two threads, or of one and the owner's.      *)
EXTENDS IOManager
CONSTANTS t1, t2
MCConfigs == {[pool |-> {t1}, useCaller |-> TRUE], [pool |-> {t1, t2}, useCaller |-> FALSE]}
=============================================================================
