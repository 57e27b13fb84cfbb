------------------------------- MODULE MCHook -------------------------------
(* Hook.tla with few fibers and descriptors.  No symmetry is used: the run    *)
(* checks a liveness property.                                                *)
EXTENDS Hook
=============================================================================
