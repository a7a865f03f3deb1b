--------------------------- MODULE RateLimiterProofs ---------------------------
(***************************************************************************)
(* What RateLimiter guarantees for every set of keys, limit, window and    *)
(* length of the run.                                                      *)
(***************************************************************************)
EXTENDS RateLimiter, FiniteSetTheorems, TLAPS

\* The sets of grants are finite, and n numbers them: the next is a new one.
Numbered ==
    \A k \in Keys :
        /\ IsFiniteSet(granted[k])
        /\ \A g \in granted[k] : g.at <= now /\ g.n < Cardinality(granted[k])

IInv == TypeOK /\ Numbered /\ NothingForgotten /\ AtMostLimit

--------------------------------------------------------------------------------
(* Lemmas. *)

\* What is left of an entry after pruning is what is left of the log.
LEMMA PrunedIsRecent ==
    ASSUME TypeOK, NothingForgotten, NEW k \in Keys
    PROVE  Valid(Entry(k)) = Valid(granted[k])
BY DEF TypeOK, NothingForgotten, Entry, Valid

\* Pruning a finite set leaves a finite set.
LEMMA ValidIsFinite ==
    ASSUME NEW S, IsFiniteSet(S)
    PROVE  /\ Valid(S) \subseteq S
           /\ IsFiniteSet(Valid(S))
           /\ Cardinality(Valid(S)) \in Nat
<1>1. Valid(S) \subseteq S
  BY DEF Valid
<1>2. IsFiniteSet(Valid(S))
  BY <1>1, FS_Subset
<1> QED BY <1>1, <1>2, FS_CardinalityType

\* The grant a request gets is none of the earlier ones, and it is one more.
LEMMA GrantIsNew ==
    ASSUME TypeOK, Numbered, NEW k \in Keys
    PROVE  /\ NewGrant(k) \in Grant
           /\ NewGrant(k) \notin granted[k]
           /\ IsFiniteSet(granted[k] \cup {NewGrant(k)})
           /\ Cardinality(granted[k]) \in Nat
           /\ Cardinality(granted[k] \cup {NewGrant(k)}) = Cardinality(granted[k]) + 1
<1>1. IsFiniteSet(granted[k])
  BY DEF Numbered
<1>2. Cardinality(granted[k]) \in Nat
  BY <1>1, FS_CardinalityType
<1>3. NewGrant(k) \in Grant
  BY <1>2, LimiterAssumption DEF NewGrant, Grant, TypeOK
<1>4. NewGrant(k) \notin granted[k]
  BY <1>2 DEF Numbered, NewGrant
<1> QED BY <1>1, <1>2, <1>3, <1>4, FS_AddElement

\* The entries are those of the map, with one of them set.
LEMMA EntryOfSetEntry ==
    ASSUME NEW k \in Keys, NEW times, SetEntry(k, times)
    PROVE  /\ DOMAIN requests' = DOMAIN requests \cup {k}
           /\ requests'[k] = times
           /\ \A q \in DOMAIN requests : q # k => requests'[q] = requests[q]
           /\ \A q \in Keys : Entry(q)' = IF q = k THEN times ELSE Entry(q)
BY DEF SetEntry, Entry

--------------------------------------------------------------------------------
(* Each action keeps the invariant. *)

\* A grant: the window that ends now gets one more, and had fewer than Limit.
LEMMA AllowKeeps ==
    ASSUME IInv, NEW k \in Keys, Allow(k)
    PROVE  IInv'
<1> DEFINE g == NewGrant(k)
<1> USE DEF IInv
<1>1. /\ now' = now
      /\ granted' = [granted EXCEPT ![k] = @ \cup {g}]
      /\ reply' = <<k, TRUE>>
      /\ SetEntry(k, Valid(Entry(k)) \cup {g})
  BY DEF Allow
<1>2. /\ g \in Grant
      /\ g \notin granted[k]
      /\ IsFiniteSet(granted[k] \cup {g})
      /\ Cardinality(granted[k]) \in Nat
      /\ Cardinality(granted[k] \cup {g}) = Cardinality(granted[k]) + 1
  BY GrantIsNew
<1>3. g.at = now /\ g.n = Cardinality(granted[k])
  BY DEF NewGrant
<1>4. /\ DOMAIN requests' = DOMAIN requests \cup {k}
      /\ requests'[k] = Valid(Entry(k)) \cup {g}
      /\ \A q \in DOMAIN requests : q # k => requests'[q] = requests[q]
      /\ \A q \in Keys : Entry(q)' = IF q = k THEN Valid(Entry(k)) \cup {g} ELSE Entry(q)
  BY <1>1, EntryOfSetEntry
<1>5. Valid(Entry(k)) = Valid(granted[k])
  BY PrunedIsRecent
<1> HIDE DEF g
<1>6. /\ granted'[k] = granted[k] \cup {g}
      /\ \A q \in Keys : q # k => granted'[q] = granted[q]
  BY <1>1 DEF TypeOK
<1>7. TypeOK'
  <2>1. granted' \in [Keys -> SUBSET Grant]
    BY <1>1, <1>2 DEF TypeOK
  <2>2. \A q \in DOMAIN requests' : requests'[q] \subseteq granted'[q]
    BY <1>4, <1>5, <1>6 DEF TypeOK, Valid
  <2> QED BY <1>1, <1>4, <2>1, <2>2 DEF TypeOK
<1>8. Numbered'
  <2>1. ASSUME NEW q \in Keys
        PROVE  /\ IsFiniteSet(granted'[q])
               /\ \A h \in granted'[q] : h.at <= now' /\ h.n < Cardinality(granted'[q])
    <3>1. CASE q # k
      BY <1>1, <1>6, <3>1 DEF Numbered
    <3>2. CASE q = k
      <4>1. \A h \in granted[k] : h.at <= now /\ h.n < Cardinality(granted[k]) + 1
        BY <1>2 DEF Numbered, TypeOK, Grant
      <4>2. Cardinality(granted'[q]) = Cardinality(granted[k]) + 1
        BY <1>2, <1>6, <3>2
      <4>3. g.at <= now /\ g.n < Cardinality(granted[k]) + 1
        BY <1>2, <1>3 DEF TypeOK
      <4>4. granted'[q] = granted[k] \cup {g} /\ now' = now
        BY <1>1, <1>6, <3>2
      <4> QED BY <1>2, <4>1, <4>2, <4>3, <4>4
    <3> QED BY <3>1, <3>2
  <2> QED BY <2>1 DEF Numbered
<1>9. NothingForgotten'
  <2>1. ASSUME NEW q \in Keys PROVE (Valid(granted[q]) \subseteq Entry(q))'
    BY <1>1, <1>4, <1>5, <1>6 DEF NothingForgotten, Valid
  <2> QED BY <2>1 DEF NothingForgotten
<1>10. AtMostLimit'
  <2>1. ASSUME NEW q \in Keys, NEW t \in 0..now
        PROVE  Cardinality({h \in granted'[q] : t - Window < h.at /\ h.at <= t}) <= Limit
    <3> DEFINE In(S) == {h \in S : t - Window < h.at /\ h.at <= t}
    <3>1. Cardinality(In(granted[q])) <= Limit
      BY DEF AtMostLimit
    <3>2. CASE q # k \/ t # now
      <4>1. In(granted'[q]) = In(granted[q])
        BY <1>3, <1>6, <3>2 DEF TypeOK
      <4> QED BY <3>1, <4>1
    <3>3. CASE q = k /\ t = now
      <4>1. In(granted[k]) = Valid(granted[k])
        BY <3>3 DEF Numbered, Valid
      <4>2. In(granted'[k]) = Valid(granted[k]) \cup {g}
        BY <1>3, <1>6, <3>3, <4>1, LimiterAssumption DEF TypeOK
      <4>3. IsFiniteSet(Valid(granted[k])) /\ Cardinality(Valid(granted[k])) \in Nat
        BY ValidIsFinite DEF Numbered
      <4>4. Cardinality(Valid(granted[k])) < Limit
        BY <1>5, <4>3, LimiterAssumption DEF Allow, Full
      <4>5. Cardinality(In(granted'[k])) = Cardinality(Valid(granted[k])) + 1
        BY <1>2, <4>2, <4>3, FS_AddElement DEF Valid
      <4> QED BY <3>3, <4>3, <4>4, <4>5, LimiterAssumption
    <3> QED BY <3>2, <3>3
  <2> QED BY <1>1, <2>1 DEF AtMostLimit
<1> QED BY <1>7, <1>8, <1>9, <1>10

\* A refusal prunes the entry of its key and nothing else.
LEMMA RefuseKeeps ==
    ASSUME IInv, NEW k \in Keys, Refuse(k)
    PROVE  IInv'
<1> USE DEF IInv
<1>1. /\ UNCHANGED <<now, granted>>
      /\ reply' = <<k, FALSE>>
      /\ SetEntry(k, Valid(Entry(k)))
  BY DEF Refuse
<1>2. /\ DOMAIN requests' = DOMAIN requests \cup {k}
      /\ requests'[k] = Valid(Entry(k))
      /\ \A q \in DOMAIN requests : q # k => requests'[q] = requests[q]
      /\ \A q \in Keys : Entry(q)' = IF q = k THEN Valid(Entry(k)) ELSE Entry(q)
  BY <1>1, EntryOfSetEntry
<1>3. Valid(Entry(k)) = Valid(granted[k])
  BY PrunedIsRecent
<1>4. TypeOK'
  BY <1>1, <1>2, <1>3 DEF TypeOK, Valid
<1>5. NothingForgotten'
  BY <1>1, <1>2, <1>3 DEF NothingForgotten, Valid
<1>6. Numbered' /\ AtMostLimit'
  BY <1>1 DEF Numbered, AtMostLimit
<1> QED BY <1>4, <1>5, <1>6

\* cleanup drops the entries that hold nothing recent and prunes the others.
LEMMA CleanupKeeps ==
    ASSUME IInv, Cleanup
    PROVE  IInv'
<1> USE DEF IInv
<1>1. /\ UNCHANGED <<now, granted, reply>>
      /\ DOMAIN requests' = {q \in DOMAIN requests : ~Stale(q)}
      /\ \A q \in DOMAIN requests' : requests'[q] = Valid(requests[q])
  BY DEF Cleanup
<1>2. TypeOK'
  BY <1>1 DEF TypeOK, Valid
<1>3. NothingForgotten'
  <2>1. ASSUME NEW q \in Keys PROVE Valid(granted[q]) \subseteq Entry(q)'
    <3>1. Valid(Entry(q)) = Valid(granted[q])
      BY PrunedIsRecent
    <3>2. CASE q \in DOMAIN requests'
      BY <1>1, <3>1, <3>2 DEF Entry
    <3>3. CASE q \in DOMAIN requests /\ Stale(q)
      BY <3>1, <3>3 DEF Entry, Stale
    <3>4. CASE q \notin DOMAIN requests
      BY <3>1, <3>4 DEF Entry, Valid
    <3> QED BY <1>1, <3>2, <3>3, <3>4
  <2> QED BY <1>1, <2>1 DEF NothingForgotten, Valid
<1>4. Numbered' /\ AtMostLimit'
  BY <1>1 DEF Numbered, AtMostLimit
<1> QED BY <1>2, <1>3, <1>4

\* Time passes: what is recent shrinks, and the window that ends at the new tick
\* holds less than the one that ended at the last.
LEMMA TickKeeps ==
    ASSUME IInv, Tick
    PROVE  IInv'
<1> USE DEF IInv
<1>1. /\ now \in Nat
      /\ now' = now + 1
      /\ now' \in 0..Horizon
      /\ UNCHANGED <<requests, granted, reply>>
  BY LimiterAssumption DEF Tick, TypeOK
<1>2. TypeOK'
  BY <1>1 DEF TypeOK
<1>3. \A q \in Keys : Valid(granted[q])' \subseteq Valid(granted[q])
  BY <1>1, LimiterAssumption DEF Valid, TypeOK, Grant
<1>4. NothingForgotten'
  <2>1. \A q \in Keys : Entry(q)' = Entry(q)
    BY <1>1 DEF Entry
  <2> QED BY <1>3, <2>1 DEF NothingForgotten
<1>5. Numbered'
  BY <1>1 DEF Numbered, TypeOK, Grant
<1>6. AtMostLimit'
  <2>1. ASSUME NEW q \in Keys, NEW t \in 0..now'
        PROVE  Cardinality({h \in granted[q] : t - Window < h.at /\ h.at <= t}) <= Limit
    <3> DEFINE In(u) == {h \in granted[q] : u - Window < h.at /\ h.at <= u}
    <3>1. \A u \in 0..now : Cardinality(In(u)) <= Limit
      BY DEF AtMostLimit
    <3>2. CASE t = now + 1
      <4>1. In(t) \subseteq In(now)
        BY <1>1, <3>2, LimiterAssumption DEF Numbered, TypeOK, Grant
      <4>2. IsFiniteSet(In(now))
        <5>1. In(now) \subseteq granted[q]
          OBVIOUS
        <5> QED BY <5>1, FS_Subset DEF Numbered
      <4>3. IsFiniteSet(In(t)) /\ Cardinality(In(t)) <= Cardinality(In(now))
        BY <4>1, <4>2, FS_Subset
      <4>4. Cardinality(In(t)) \in Nat /\ Cardinality(In(now)) \in Nat
        BY <4>2, <4>3, FS_CardinalityType
      <4>5. Cardinality(In(now)) <= Limit
        BY <1>1, <3>1
      <4> QED BY <4>3, <4>4, <4>5, LimiterAssumption
    <3>3. t = now + 1 \/ t \in 0..now
      BY <1>1
    <3> QED BY <3>1, <3>2, <3>3
  <2> QED BY <1>1, <2>1 DEF AtMostLimit
<1> QED BY <1>2, <1>4, <1>5, <1>6

--------------------------------------------------------------------------------
(* Theorems. *)

\* The invariant holds in every reachable state.
THEOREM Invariance == Spec => []IInv
<1>1. Init => IInv
  <2> SUFFICES ASSUME Init PROVE IInv
    OBVIOUS
  <2>1. TypeOK
    BY LimiterAssumption DEF Init, TypeOK
  <2>2. Numbered
    BY FS_EmptySet DEF Init, Numbered
  <2>3. NothingForgotten
    BY DEF Init, NothingForgotten, Valid
  <2>4. AtMostLimit
    <3>1. ASSUME NEW k \in Keys, NEW t \in 0..now
          PROVE  Cardinality({g \in granted[k] : t - Window < g.at /\ g.at <= t}) <= Limit
      <4>1. {g \in granted[k] : t - Window < g.at /\ g.at <= t} = {}
        BY DEF Init
      <4>2. Cardinality({}) = 0
        BY FS_EmptySet
      <4> QED BY <4>1, <4>2, LimiterAssumption
    <3> QED BY <3>1 DEF AtMostLimit
  <2> QED BY <2>1, <2>2, <2>3, <2>4 DEF IInv
<1>2. IInv /\ [Next]_vars => IInv'
  <2> SUFFICES ASSUME IInv, [Next]_vars PROVE IInv'
    OBVIOUS
  <2>1. CASE \E k \in Keys : Allow(k) \/ Refuse(k)
    BY <2>1, AllowKeeps, RefuseKeeps
  <2>2. CASE Cleanup
    BY <2>2, CleanupKeeps
  <2>3. CASE Tick
    BY <2>3, TickKeeps
  <2>4. CASE UNCHANGED vars
    BY <2>4 DEF vars, IInv, TypeOK, Numbered, NothingForgotten, Valid, Entry, AtMostLimit
  <2> QED BY <2>1, <2>2, <2>3, <2>4 DEF Next
<1> QED BY <1>1, <1>2, PTL DEF Spec

\* The types of the variables; an entry holds nothing that was not granted.
COROLLARY TypeCorrect == Spec => []TypeOK
<1>1. IInv => TypeOK
  BY DEF IInv
<1> QED BY <1>1, Invariance, PTL

\* In no minute are more than Limit requests of a key granted.
COROLLARY RateIsLimited == Spec => []AtMostLimit
<1>1. IInv => AtMostLimit
  BY DEF IInv
<1> QED BY <1>1, Invariance, PTL

\* Nothing that still counts is pruned or cleaned up.
COROLLARY MemoryIsEnough == Spec => []NothingForgotten
<1>1. IInv => NothingForgotten
  BY DEF IInv
<1> QED BY <1>1, Invariance, PTL

\* A pruned entry is a finite set of at most Limit times.
LEMMA PrunedIsBounded ==
    ASSUME IInv, EntriesBounded, NEW k \in Keys
    PROVE  /\ IsFiniteSet(Valid(Entry(k)))
           /\ Cardinality(Valid(Entry(k))) \in Nat
           /\ Cardinality(Valid(Entry(k))) <= Limit
<1>1. Entry(k) \subseteq granted[k]
  BY DEF IInv, TypeOK, Entry
<1>2. IsFiniteSet(Entry(k)) /\ Cardinality(Entry(k)) \in Nat
  BY <1>1, FS_Subset, FS_CardinalityType DEF IInv, Numbered
<1>3. Cardinality(Entry(k)) <= Limit
  <2>1. CASE k \in DOMAIN requests
    BY <2>1 DEF Entry, EntriesBounded
  <2>2. CASE k \notin DOMAIN requests
    <3>1. Cardinality({}) = 0
      BY FS_EmptySet
    <3> QED BY <2>2, <3>1, LimiterAssumption DEF Entry
  <2> QED BY <2>1, <2>2
<1>4. /\ Valid(Entry(k)) \subseteq Entry(k)
      /\ IsFiniteSet(Valid(Entry(k)))
      /\ Cardinality(Valid(Entry(k))) \in Nat
  BY <1>2, ValidIsFinite
<1>5. Cardinality(Valid(Entry(k))) <= Cardinality(Entry(k))
  BY <1>2, <1>4, FS_Subset
<1> QED BY <1>2, <1>3, <1>4, <1>5, LimiterAssumption

\* The slice of a key never grows beyond Limit times.
THEOREM BoundedEntries == Spec => []EntriesBounded
<1>1. Init => EntriesBounded
  BY DEF Init, EntriesBounded
<1>2. IInv /\ EntriesBounded /\ [Next]_vars => EntriesBounded'
  <2> SUFFICES ASSUME IInv, EntriesBounded, [Next]_vars PROVE EntriesBounded'
    OBVIOUS
  <2>1. ASSUME NEW k \in Keys, NEW times, SetEntry(k, times), Cardinality(times) <= Limit
        PROVE  EntriesBounded'
    BY <2>1, EntryOfSetEntry DEF EntriesBounded
  <2>2. ASSUME NEW k \in Keys, Allow(k) PROVE EntriesBounded'
    <3> DEFINE S == Valid(Entry(k))
    <3>1. IsFiniteSet(S) /\ Cardinality(S) \in Nat /\ Cardinality(S) <= Limit
      BY PrunedIsBounded
    <3>2. Cardinality(S) < Limit
      BY <2>2, <3>1, LimiterAssumption DEF Allow, Full
    <3>3. NewGrant(k) \notin S
      <4>1. S = Valid(granted[k])
        BY PrunedIsRecent DEF IInv
      <4> QED BY <4>1, GrantIsNew DEF IInv, Valid
    <3>4. Cardinality(S \cup {NewGrant(k)}) = Cardinality(S) + 1
      BY <3>1, <3>3, FS_AddElement
    <3>5. Cardinality(S \cup {NewGrant(k)}) <= Limit
      BY <3>1, <3>2, <3>4, LimiterAssumption
    <3> QED BY <2>1, <2>2, <3>5 DEF Allow
  <2>3. ASSUME NEW k \in Keys, Refuse(k) PROVE EntriesBounded'
    BY <2>1, <2>3, PrunedIsBounded DEF Refuse
  <2>4. CASE Cleanup
    <3>1. ASSUME NEW k \in DOMAIN requests' PROVE Cardinality(requests'[k]) <= Limit
      <4>1. k \in Keys /\ requests'[k] = Valid(Entry(k))
        BY <2>4, <3>1 DEF Cleanup, Entry, IInv, TypeOK
      <4> QED BY <4>1, PrunedIsBounded
    <3> QED BY <3>1 DEF EntriesBounded
  <2>5. CASE Tick \/ UNCHANGED vars
    BY <2>5 DEF Tick, vars, EntriesBounded
  <2> QED BY <2>2, <2>3, <2>4, <2>5 DEF Next
<1> QED BY <1>1, <1>2, Invariance, PTL DEF Spec

\* The instance of FiniteSets in the log counts as the one here does.
LEMMA SameCardinality == \A S : Log!Cardinality(S) = Cardinality(S)
BY DEF Log!Cardinality, Cardinality

\* The map with its pruning and its cleanup answers as the log of all grants.
THEOREM Refinement == Spec => AnswersAsTheLog
<1>1. Init => Log!Init
  BY DEF Init, Log!Init
<1>2. IInv /\ [Next]_vars => [Log!Next]_(Log!vars)
  <2> SUFFICES ASSUME IInv, [Next]_vars PROVE Log!Next \/ UNCHANGED Log!vars
    OBVIOUS
  <2>1. ASSUME NEW k \in Keys PROVE Valid(Entry(k)) = Log!Recent(k)
    <3>1. Valid(Entry(k)) = Valid(granted[k])
      BY PrunedIsRecent DEF IInv
    <3> QED BY <3>1 DEF Valid, Log!Recent
  <2>2. ASSUME NEW k \in Keys, Allow(k) PROVE Log!Next
    <3>1. IsFiniteSet(granted[k])
      BY DEF IInv, Numbered
    <3>2. Cardinality(Valid(granted[k])) \in Nat
      BY <3>1, ValidIsFinite
    <3>3. Valid(Entry(k)) = Valid(granted[k])
      BY PrunedIsRecent DEF IInv
    <3>4. Cardinality(Log!Recent(k)) < Limit
      BY <2>1, <2>2, <3>2, <3>3, LimiterAssumption DEF Allow, Full
    <3>5. Log!Allow(k)
      BY <2>2, <3>4, SameCardinality DEF Allow, NewGrant, Log!Allow, Log!NewGrant
    <3> QED BY <3>5 DEF Log!Next
  <2>3. ASSUME NEW k \in Keys, Refuse(k) PROVE Log!Next
    <3>1. Log!Refuse(k)
      BY <2>1, <2>3, SameCardinality DEF Refuse, Full, Log!Refuse
    <3> QED BY <3>1 DEF Log!Next
  <2>4. CASE Cleanup
    BY <2>4 DEF Cleanup, Log!vars
  <2>5. CASE Tick
    BY <2>5 DEF Tick, Log!Tick, Log!Next
  <2>6. CASE UNCHANGED vars
    BY <2>6 DEF vars, Log!vars
  <2> QED BY <2>2, <2>3, <2>4, <2>5, <2>6 DEF Next
<1> QED BY <1>1, <1>2, Invariance, PTL DEF Spec, AnswersAsTheLog, Log!Spec
================================================================================
