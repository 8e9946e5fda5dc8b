---------------------------- MODULE MCMessageQueue ----------------------------
(* Model checking of MessageQueue: pids and messages are interchangeable. *)
EXTENDS MessageQueue

Symmetry == Permutations(Procs) \cup Permutations(Messages)
===============================================================================
