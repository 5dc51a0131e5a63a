----------------------------- MODULE MCRealtimeWs -----------------------------
(* Small instances of RealtimeWs; the threads are interchangeable.           *)
EXTENDS RealtimeWs, TLC

Symmetry == Permutations(Threads)
=============================================================================
