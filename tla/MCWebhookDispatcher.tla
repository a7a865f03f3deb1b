-------------------------- MODULE MCWebhookDispatcher --------------------------
(* Instances of WebhookDispatcher for TLC. *)
EXTENDS WebhookDispatcher, TLC

\* Events are only names, and so are the workers of a pool.
Symmetry == Permutations(Events) \cup Permutations(Workers)
================================================================================
