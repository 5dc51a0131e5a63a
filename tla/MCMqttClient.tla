----------------------------- MODULE MCMqttClient -----------------------------
(* Small instances of MqttClient: the topics are interchangeable, and so are *)
(* the threads, in the runs that check no liveness.                          *)
EXTENDS MqttClient, TLC

Symmetry == Permutations(Topics) \cup Permutations(Threads)
=============================================================================
