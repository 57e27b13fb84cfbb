------------------------------ MODULE MCThread ------------------------------
(* Thread.tla with a few threads.                                           *)
EXTENDS Thread
=============================================================================
