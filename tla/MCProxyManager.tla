---------------------------- MODULE MCProxyManager ----------------------------
(* Instances of ProxyManager for TLC. *)
EXTENDS ProxyManager, TLC

Symmetry == Permutations(BrightData) \cup Permutations(IPRoyal)
              \cup Permutations(Ids) \cup Permutations(Handlers)

\* What the pool, the tables and the requests hold. No action reads the other
\* variables to change these.
HoldingsView == <<pool, table, rows, op, targets, known, overlapped>>
================================================================================
