----------------------------- MODULE SlidingWindow -----------------------------
(***************************************************************************)
(* What a rate limiter of requestsPerMinute promises: the log of everything *)
(* it ever granted, and one rule. A request is granted if and only if fewer *)
(* than Limit requests of its key were granted less than Window ago. No     *)
(* map, no pruning, no cleanup.                                             *)
(***************************************************************************)
EXTENDS Integers, FiniteSets

CONSTANTS Keys,     \* what requests are told apart by
          Limit,    \* requestsPerMinute
          Window,   \* one minute, in ticks of the clock
          Horizon   \* the clock stops here, to bound the model

VARIABLES now,      \* the clock
          granted,  \* granted[k]: the requests of k granted so far
          reply     \* the latest request and whether it was granted

vars == <<now, granted, reply>>

\* A granted request: when, and how many of its key were granted before it.
Grant == [at : Nat, n : Nat]

NewGrant(k) == [at |-> now, n |-> Cardinality(granted[k])]

Recent(k) == {g \in granted[k] : g.at > now - Window}

Init ==
    /\ now = 0
    /\ granted = [k \in Keys |-> {}]
    /\ reply = <<>>

Allow(k) ==
    /\ Cardinality(Recent(k)) < Limit
    /\ granted' = [granted EXCEPT ![k] = @ \cup {NewGrant(k)}]
    /\ reply' = <<k, TRUE>>
    /\ UNCHANGED now

Refuse(k) ==
    /\ Cardinality(Recent(k)) >= Limit
    /\ reply' = <<k, FALSE>>
    /\ UNCHANGED <<now, granted>>

Tick ==
    /\ now < Horizon
    /\ now' = now + 1
    /\ UNCHANGED <<granted, reply>>

Next == Tick \/ \E k \in Keys : Allow(k) \/ Refuse(k)

Spec == Init /\ [][Next]_vars
================================================================================
