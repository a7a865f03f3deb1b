---------------------------- MODULE WebhookDelivery ----------------------------
(***************************************************************************)
(* What the webhook dispatcher promises for a job it accepted, with no     *)
(* queue and no workers: the job stays pending until the endpoint answers  *)
(* 2xx or Attempts POSTs have been made, and it may be forgotten only      *)
(* while the service is going down or is down.                             *)
(***************************************************************************)
EXTENDS Integers

CONSTANTS Job,      \* the webhook jobs
          Attempts  \* how many POSTs a job is entitled to, a natural number

VARIABLES up,       \* the service runs and has not been told to stop
          pending,  \* the jobs accepted and not yet finished
          posts,    \* posts[j]: POSTs made for j since it was accepted
          answer    \* answer[j]: how the last of them ended

vars == <<up, pending, posts, answer>>

Failures == {"bad", "err"}  \* a status outside 200..299; no status at all

Init ==
    /\ up = TRUE
    /\ pending = {}
    /\ posts = [j \in Job |-> 0]
    /\ answer = [j \in Job |-> "none"]

Accept(j) ==
    /\ j \notin pending
    /\ pending' = pending \cup {j}
    /\ posts' = [posts EXCEPT ![j] = 0]
    /\ answer' = [answer EXCEPT ![j] = "none"]
    /\ UNCHANGED up

\* One POST. The job is finished by a 2xx answer or by the last POST it had.
Post(j, a) ==
    /\ j \in pending
    /\ posts[j] < Attempts
    /\ posts' = [posts EXCEPT ![j] = @ + 1]
    /\ answer' = [answer EXCEPT ![j] = a]
    /\ pending' = IF a = "ok" \/ posts[j] + 1 = Attempts
                  THEN pending \ {j}
                  ELSE pending
    /\ UNCHANGED up

\* A job entitled to no POST at all is finished without one.
Skip(j) ==
    /\ j \in pending
    /\ Attempts = 0
    /\ pending' = pending \ {j}
    /\ UNCHANGED <<up, posts, answer>>

Abandon(j) ==
    /\ ~up
    /\ pending' = pending \ {j}
    /\ UNCHANGED <<up, posts, answer>>

GoDown ==
    /\ up' = FALSE
    /\ UNCHANGED <<pending, posts, answer>>

\* A new process starts with nothing of what the old one had accepted.
ComeBack ==
    /\ ~up
    /\ up' = TRUE
    /\ pending' = {}
    /\ UNCHANGED <<posts, answer>>

Next ==
    \/ \E j \in Job : \/ Accept(j)
                      \/ \E a \in Failures \cup {"ok"} : Post(j, a)
                      \/ Skip(j)
                      \/ Abandon(j)
    \/ GoDown
    \/ ComeBack

Spec == Init /\ [][Next]_vars
================================================================================
