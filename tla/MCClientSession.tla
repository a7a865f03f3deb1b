---------------------------- MODULE MCClientSession ----------------------------
(* Instances of ClientSession for TLC. *)
EXTENDS ClientSession, TLC

Symmetry == Permutations(Handlers) \cup Permutations(Channels)

\* The status column is written and never read by the session: states that differ
\* in it alone have the same future but for it.
WithoutStatus ==
    <<manager, mu, pc, fresh, whatsapp, connected, qrVars, callback, history>>
================================================================================
