------------------------------ MODULE RateLimiter ------------------------------
(***************************************************************************)
(* internal/middleware/ratelimit.go: a map from the key of a request to    *)
(* the times of the requests granted to it, pruned by every call of allow  *)
(* and, now and then, by a cleanup goroutine. Both hold the mutex for      *)
(* their whole body, so each is one action. time.Now() is monotonic and is *)
(* read under the mutex, so the times a key collects do not decrease.      *)
(***************************************************************************)
EXTENDS Integers, FiniteSets

CONSTANTS Keys,     \* the Authorization header, the apikey or the IP address
          Limit,    \* rl.limit; SetupRouter passes 60
          Window,   \* rl.window in ticks of the clock
          Horizon   \* the clock stops here, to bound the model

ASSUME LimiterAssumption ==
    /\ Limit \in Nat
    /\ Window \in Nat \ {0}
    /\ Horizon \in Nat

VARIABLES now,       \* time.Now()
          requests,  \* rl.requests, a function on the keys it has entries for
          granted,   \* granted[k]: every request of k granted so far
          reply      \* the latest request and whether it was granted

vars == <<now, requests, granted, reply>>

\* A time.Time in the slice of a key. n tells apart those granted in one tick.
Grant == [at : Nat, n : Nat]

NewGrant(k) == [at |-> now, n |-> Cardinality(granted[k])]

\* rl.requests[key]: the nil slice for a key without an entry.
Entry(k) == IF k \in DOMAIN requests THEN requests[k] ELSE {}

\* The loop over reqs: t.After(cutoff) is a strict comparison.
ValidAtCutoff(times) == {t \in times : t.at >= now - Window}
Valid(times) == {t \in times : t.at > now - Window}

SetEntry(k, times) ==
    requests' = [q \in DOMAIN requests \cup {k} |->
                    IF q = k THEN times ELSE requests[q]]

Init ==
    /\ now = 0
    /\ requests = [k \in {} |-> {}]
    /\ granted = [k \in Keys |-> {}]
    /\ reply = <<>>

FullOffByOne(times) == Cardinality(times) > Limit
Full(times) == Cardinality(times) >= Limit

\* A refused request that counts against the limit as well.
RefuseAndCount(k) ==
    /\ Full(Valid(Entry(k)))
    /\ SetEntry(k, Valid(Entry(k)) \cup {NewGrant(k)})
    /\ reply' = <<k, FALSE>>
    /\ UNCHANGED <<now, granted>>
Refuse(k) ==
    /\ Full(Valid(Entry(k)))
    /\ SetEntry(k, Valid(Entry(k)))
    /\ reply' = <<k, FALSE>>
    /\ UNCHANGED <<now, granted>>

\* append(reqs, now): the slice as it was found, not the pruned one.
AllowUnpruned(k) ==
    /\ ~Full(Valid(Entry(k)))
    /\ SetEntry(k, Entry(k) \cup {NewGrant(k)})
    /\ granted' = [granted EXCEPT ![k] = @ \cup {NewGrant(k)}]
    /\ reply' = <<k, TRUE>>
    /\ UNCHANGED now
Allow(k) ==
    /\ ~Full(Valid(Entry(k)))
    /\ SetEntry(k, Valid(Entry(k)) \cup {NewGrant(k)})
    /\ granted' = [granted EXCEPT ![k] = @ \cup {NewGrant(k)}]
    /\ reply' = <<k, TRUE>>
    /\ UNCHANGED now

\* The keys cleanup deletes. It runs every five minutes; here, at any time.
StaleAny(k) == Valid(requests[k]) # requests[k]
Stale(k) == Valid(requests[k]) = {}

Cleanup ==
    /\ requests' = [k \in {q \in DOMAIN requests : ~Stale(q)} |-> Valid(requests[k])]
    /\ UNCHANGED <<now, granted, reply>>

Tick ==
    /\ now < Horizon
    /\ now' = now + 1
    /\ UNCHANGED <<requests, granted, reply>>

Next ==
    \/ \E k \in Keys : Allow(k) \/ Refuse(k)
    \/ Cleanup
    \/ Tick

Spec == Init /\ [][Next]_vars

--------------------------------------------------------------------------------
(* Properties *)

\* Each variable has its type; the entries are sets of grants already made.
TypeOK ==
    /\ now \in 0..Horizon
    /\ granted \in [Keys -> SUBSET Grant]
    /\ DOMAIN requests \subseteq Keys
    /\ \A k \in DOMAIN requests : requests[k] \subseteq granted[k]
    /\ reply \in (Keys \X BOOLEAN) \cup {<<>>}

\* The promise of a rate limit: whatever minute one looks at, no more than Limit
\* requests of a key were granted in it (allow:54-71).
AtMostLimit ==
    \A k \in Keys : \A t \in 0..now :
        Cardinality({g \in granted[k] : t - Window < g.at /\ g.at <= t}) <= Limit

\* The slice of a key never holds more than Limit times, so that the work done
\* under the mutex for one request is bounded.
EntriesBounded == \A k \in DOMAIN requests : Cardinality(requests[k]) <= Limit

\* What allow forgets and what cleanup deletes is never missed: the entry of a
\* key holds every grant younger than Window.
NothingForgotten == \A k \in Keys : Valid(granted[k]) \subseteq Entry(k)

\* The map, its pruning and its cleanup cannot be noticed: every request is
\* answered as by the log of all grants, neither refused too early nor let in.
Log == INSTANCE SlidingWindow

AnswersAsTheLog == Log!Spec
================================================================================
