-------------------------- MODULE MCInstanceLifecycle --------------------------
(* Instances of InstanceLifecycle for TLC. *)
EXTENDS InstanceLifecycle, TLC

\* Ids are random names, and handlers are goroutines like one another.
Symmetry == Permutations(Ids) \cup Permutations(Handlers)
================================================================================
