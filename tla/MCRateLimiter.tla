----------------------------- MODULE MCRateLimiter -----------------------------
(* Instances of RateLimiter for TLC. *)
EXTENDS RateLimiter, TLC

\* Keys are only compared with one another.
Symmetry == Permutations(Keys)
================================================================================
