-------------------------- MODULE ProxyManagerProofs --------------------------
(***************************************************************************)
(* Proofs about ProxyManager, for any proxies, instances, handlers, faults *)
(* and scores: its type invariant, that three failed checks retire a       *)
(* proxy, that two clients share a proxy of brightdata only after a restart *)
(* or a deletion that cut into a creation, that an instance whose requests *)
(* do not overlap never holds two, and that its deletion leaves it none.   *)
(***************************************************************************)
EXTENDS ProxyManager, TLAPS

USE DEF IPs

--------------------------------------------------------------------------------
(* Type correctness *)

\* The scores stay between 0 and MaxScore (runHealthChecks:282-300).
LEMMA ScoreRange ==
    ASSUME NEW s \in 0..MaxScore
    PROVE  /\ Penalized(s) \in 0..MaxScore
           /\ Rewarded(s) \in 0..MaxScore
BY ProxyAssumption DEF Penalized, Rewarded

LEMMA UpdateTyped ==
    ASSUME TableOK, NEW i, NEW p \in IPs \cup {NoProxy},
           UpdateInstanceProxy(i, p)
    PROVE  rows' \in [Ids -> IPs \cup {NoProxy, NoRow}]
BY DEF UpdateInstanceProxy, HasRow, TableOK

LEMMA FreeTyped ==
    ASSUME TableOK, NEW i \in Ids, FreeInTable(i)
    PROVE  table' \in [IPs -> [status : {"none", "available", "assigned", "dead"},
                               owner : Ids \cup {NoOwner}]]
BY DEF FreeInTable, NewInTable, TableOK

LEMMA MarkTyped ==
    ASSUME TableOK, NEW p \in IPs, MarkProxyDead(p)
    PROVE  table' \in [IPs -> [status : {"none", "available", "assigned", "dead"},
                               owner : Ids \cup {NoOwner}]]
BY DEF MarkProxyDead, TableOK

LEMMA CandidatesAvailable ==
    \A p \in Candidates : p \in IPs /\ pool[p].status = "available"
BY DEF Candidates, findAvailable, Available, Primary, Failover

LEMMA AssignTyped ==
    ASSUME PoolOK, TableOK, NEW i \in Ids \cup {NoOwner}, NEW got \in IPs \cup {NoProxy},
           AssignProxy(i, got)
    PROVE  PoolOK' /\ TableOK'
<1>1. CASE Candidates = {} /\ UNCHANGED <<pool, table, rows>>
  BY <1>1 DEF PoolOK, TableOK
<1>2. CASE \E p \in Candidates :
              /\ pool' = [pool EXCEPT ![p] = AssignedTo(i, p)]
              /\ \/ UNCHANGED <<table, rows>>
                 \/ got = p /\ UpdateInstanceProxy(i, p) /\ UNCHANGED table
                 \/ /\ \E q \in AvailableInTable(ProviderOf(p)) :
                          table' = [table EXCEPT ![q] = [status |-> "assigned", owner |-> i]]
                    /\ got = p
                    /\ UpdateInstanceProxy(i, p)
  <2> PICK p \in Candidates :
              /\ pool' = [pool EXCEPT ![p] = AssignedTo(i, p)]
              /\ \/ UNCHANGED <<table, rows>>
                 \/ got = p /\ UpdateInstanceProxy(i, p) /\ UNCHANGED table
                 \/ /\ \E q \in AvailableInTable(ProviderOf(p)) :
                          table' = [table EXCEPT ![q] = [status |-> "assigned", owner |-> i]]
                    /\ got = p
                    /\ UpdateInstanceProxy(i, p)
    BY <1>2
  <2>1. p \in IPs
    BY CandidatesAvailable
  <2>2. PoolOK'
    BY <2>1 DEF PoolOK, AssignedTo
  <2>3. \A q \in AvailableInTable(ProviderOf(p)) : q \in IPs
    BY DEF AvailableInTable, ProviderOf
  <2>4. table' \in [IPs -> [status : {"none", "available", "assigned", "dead"},
                            owner : Ids \cup {NoOwner}]]
    BY <2>3 DEF TableOK
  <2>5. rows' \in [Ids -> IPs \cup {NoProxy, NoRow}]
    BY UpdateTyped DEF TableOK
  <2> QED
    BY <2>2, <2>4, <2>5 DEF TableOK
<1> QED
  BY <1>1, <1>2 DEF AssignProxy

LEMMA ReleaseTyped ==
    ASSUME PoolOK, TableOK, strikes \in [IPs -> 0..3], NEW i \in Ids, ReleaseProxy(i)
    PROVE  PoolOK' /\ TableOK' /\ strikes' \in [IPs -> 0..3]
<1>1. CASE UNCHANGED <<pool, table, rows, strikes>>
  BY <1>1 DEF PoolOK, TableOK
<1>2. ASSUME NEW p \in Owned(i),
             pool' = [pool EXCEPT ![p] = Released(p)],
             strikes' = [strikes EXCEPT ![p] = 0],
             \/ FreeInTable(i) /\ UpdateInstanceProxy(i, NoProxy)
             \/ UNCHANGED <<table, rows>>
      PROVE  PoolOK' /\ TableOK' /\ strikes' \in [IPs -> 0..3]
  <2>1. p \in IPs
    BY DEF Owned
  <2>2. PoolOK'
    BY <1>2, <2>1 DEF PoolOK, Released
  <2>3. TableOK'
    BY <1>2, FreeTyped, UpdateTyped DEF TableOK
  <2> QED
    BY <1>2, <2>1, <2>2, <2>3
<1> QED
  BY <1>1, <1>2 DEF ReleaseProxy

LEMMA RetireTyped ==
    ASSUME PoolOK, TableOK, NEW i, RetireProxy(i), UNCHANGED rows
    PROVE  PoolOK' /\ TableOK'
<1>1. CASE UNCHANGED <<pool, table>>
  BY <1>1 DEF PoolOK, TableOK
<1>2. ASSUME NEW p \in Owned(i), pool' = [pool EXCEPT ![p] = Dead(p)], MarkProxyDead(p)
      PROVE  PoolOK' /\ TableOK'
  <2>1. p \in IPs
    BY DEF Owned
  <2>2. PoolOK'
    BY <1>2, <2>1, ProxyAssumption DEF PoolOK, Dead
  <2>3. TableOK'
    BY <1>2, <2>1, MarkTyped DEF TableOK
  <2> QED
    BY <2>2, <2>3
<1> QED
  BY <1>1, <1>2 DEF RetireProxy

\* What a handler is doing is a request.
LEMMA OpTyped ==
    ASSUME TypeOK, NEW h \in Handlers
    PROVE  /\ op[h] \in Requests
           /\ op[h].kind \in {"client", "row"} =>
                 op[h].id \in Ids /\ op[h].proxy \in IPs \cup {NoProxy}
           /\ op[h].kind \in {"release", "releaseInTable", "deleteRow"} => op[h].id \in Ids
           /\ op[h].kind = "assign" => op[h].id \in Ids \cup {NoOwner}
BY DEF TypeOK, Requests, NoOp

LEMMA URLTyped ==
    \A p \in IPs \cup {NoProxy} : GetProxyURL(p) \in URLs \cup {NoProxy}
BY DEF GetProxyURL, URLs

LEMMA TypeInit == Init => TypeOK
BY ProxyAssumption
   DEF Init, TypeOK, PoolOK, TableOK, Requests, Unseeded, NotInTable

LEMMA TypeNext == TypeOK /\ [Next]_vars => TypeOK'
<1> SUFFICES ASSUME TypeOK, [Next]_vars PROVE TypeOK'
  OBVIOUS
<1> USE DEF TypeOK
<1>1. ASSUME NEW new \in SUBSET IPs, Seed(new) PROVE TypeOK'
  <2>1. PICK failed : SeedProxies(new, failed)
    BY <1>1 DEF Seed
  <2>2. PoolOK'
    BY <2>1, ProxyAssumption DEF SeedProxies, NewProxy, PoolOK
  <2>3. TableOK'
    BY <1>1, <2>1 DEF Seed, SeedProxies, NewInTable, TableOK
  <2> QED
    BY <1>1, <2>2, <2>3 DEF Seed
<1>2. CASE ListTargets
  BY <1>2 DEF ListTargets, PoolOK, TableOK
<1>3. ASSUME NEW p \in IPs, CheckFails(p) PROVE TypeOK'
  <2>1. Penalized(pool[p].score) \in 0..MaxScore /\ 0 \in 0..MaxScore
    BY ScoreRange, ProxyAssumption DEF PoolOK
  <2>2. PoolOK'
    BY <1>3, <2>1 DEF CheckFails, Checked, PoolOK
  <2>3. TableOK'
    BY <1>3, MarkTyped DEF CheckFails, TableOK
  <2>4. strikes' \in [IPs -> 0..3]
    BY <1>3 DEF CheckFails
  <2> QED
    BY <1>3, <2>2, <2>3, <2>4 DEF CheckFails
<1>4. ASSUME NEW p \in IPs, NEW slow \in BOOLEAN, CheckSucceeds(p, slow) PROVE TypeOK'
  <2>1. Rewarded(pool[p].score) \in 0..MaxScore
    BY ScoreRange DEF PoolOK
  <2>2. /\ StatusAfter(p, slow) \in {"none", "available", "assigned", "degraded", "dead"}
        /\ StatusAfter(p, slow) \in {"none", "available"} => pool[p].owner = NoOwner
    BY DEF StatusAfter, PoolOK
  <2>3. PoolOK'
    BY <1>4, <2>1, <2>2 DEF CheckSucceeds, Checked, PoolOK
  <2> QED
    BY <1>4, <2>3 DEF CheckSucceeds, TableOK
<1>5. ASSUME NEW h \in Handlers, NEW i \in Ids, Create(h, i) PROVE TypeOK'
  <2>1. PICK got \in IPs \cup {NoProxy} :
            /\ AssignProxy(i, got)
            /\ op' = [op EXCEPT ![h] = [kind |-> "client", id |-> i, proxy |-> got]]
    BY <1>5 DEF Create
  <2>2. op' \in [Handlers -> Requests]
    BY <2>1 DEF Requests
  <2> QED
    BY <1>5, <2>1, <2>2, AssignTyped DEF Create
<1>6. ASSUME NEW h \in Handlers, CreateClient(h) PROVE TypeOK'
  <2>1. op[h].id \in Ids /\ op[h].proxy \in IPs \cup {NoProxy}
    BY <1>6, OpTyped DEF CreateClient
  <2>2. op' \in [Handlers -> Requests]
    BY <1>6, <2>1 DEF CreateClient, Requests
  <2>3. client' \in [Ids -> URLs \cup {NoProxy, NoClient}]
    BY <1>6, <2>1, URLTyped DEF CreateClient
  <2> QED
    BY <1>6, <2>2, <2>3 DEF CreateClient, PoolOK, TableOK
<1>7. ASSUME NEW h \in Handlers, CreateClientFails(h) PROVE TypeOK'
  <2>1. op' \in [Handlers -> Requests]
    BY <1>7 DEF CreateClientFails, Done, Requests
  <2>2. PoolOK' /\ TableOK' /\ strikes' \in [IPs -> 0..3]
    BY <1>7, OpTyped, ReleaseTyped DEF CreateClientFails, PoolOK, TableOK
  <2> QED
    BY <1>7, <2>1, <2>2 DEF CreateClientFails
<1>8. ASSUME NEW h \in Handlers, CreateRow(h) PROVE TypeOK'
  <2>1. op' \in [Handlers -> Requests]
    BY <1>8 DEF CreateRow, Done, Requests
  <2>2. rows' \in [Ids -> IPs \cup {NoProxy, NoRow}]
    BY <1>8, OpTyped DEF CreateRow, TableOK
  <2> QED
    BY <1>8, <2>1, <2>2 DEF CreateRow, PoolOK, TableOK
<1>9. ASSUME NEW h \in Handlers, NEW i \in Ids, Delete(h, i) PROVE TypeOK'
  BY <1>9 DEF Delete, Names, RecordOverlap, Goto, Requests, PoolOK, TableOK
<1>10. ASSUME NEW h \in Handlers, Release(h) PROVE TypeOK'
  <2>1. op' \in [Handlers -> Requests]
    BY <1>10, OpTyped DEF Release, Goto, Requests
  <2> QED
    BY <1>10, <2>1, OpTyped, ReleaseTyped DEF Release
<1>11. ASSUME NEW h \in Handlers, ReleaseInTable(h) PROVE TypeOK'
  <2>1. op' \in [Handlers -> Requests]
    BY <1>11, OpTyped DEF ReleaseInTable, Goto, Requests
  <2>2. TableOK'
    BY <1>11, OpTyped, FreeTyped DEF ReleaseInTable, TableOK
  <2> QED
    BY <1>11, <2>1, <2>2 DEF ReleaseInTable, PoolOK
<1>12. ASSUME NEW h \in Handlers, DeleteRow(h) PROVE TypeOK'
  <2>1. op' \in [Handlers -> Requests]
    BY <1>12 DEF DeleteRow, Done, Requests
  <2>2. TableOK'
    <3>1. CASE UNCHANGED <<rows, table>>
      BY <3>1 DEF TableOK
    <3>2. CASE /\ rows' = [rows EXCEPT ![op[h].id] = NoRow]
               /\ table' = [p \in IPs |-> IF table[p].owner = op[h].id
                                          THEN [table[p] EXCEPT !.owner = NoOwner]
                                          ELSE table[p]]
      <4>1. \A p \in IPs :
                /\ table[p] \in [status : {"none", "available", "assigned", "dead"},
                                 owner : Ids \cup {NoOwner}]
                /\ [table[p] EXCEPT !.owner = NoOwner]
                       \in [status : {"none", "available", "assigned", "dead"},
                           owner : Ids \cup {NoOwner}]
        BY DEF TableOK
      <4>2. rows' \in [Ids -> IPs \cup {NoProxy, NoRow}]
        BY <3>2 DEF TableOK
      <4> QED
        BY <3>2, <4>1, <4>2 DEF TableOK
    <3> QED
      BY <1>12, <3>1, <3>2 DEF DeleteRow
  <2> QED
    BY <1>12, <2>1, <2>2 DEF DeleteRow, PoolOK
<1>13. ASSUME NEW h \in Handlers, NEW i \in Ids \cup {NoOwner}, Replace(h, i) PROVE TypeOK'
  <2>1. op' \in [Handlers -> Requests]
    BY <1>13 DEF Replace, Goto, Requests
  <2>2. PoolOK' /\ TableOK'
    BY <1>13, RetireTyped DEF Replace
  <2> QED
    BY <1>13, <2>1, <2>2 DEF Replace, Names, RecordOverlap
<1>14. ASSUME NEW h \in Handlers, Reassign(h) PROVE TypeOK'
  <2>1. op' \in [Handlers -> Requests]
    BY <1>14 DEF Reassign, Done, Requests
  <2> QED
    BY <1>14, <2>1, OpTyped, AssignTyped DEF Reassign
<1>15. CASE Restart
  <2>1. PoolOK'
    BY <1>15, ProxyAssumption DEF Restart, Unseeded, PoolOK
  <2>2. op' \in [Handlers -> Requests]
    BY <1>15 DEF Restart, Requests
  <2>3. client' \in [Ids -> URLs \cup {NoProxy, NoClient}]
    BY <1>15, URLTyped DEF Restart, TableOK
  <2> QED
    BY <1>15, <2>1, <2>2, <2>3 DEF Restart, TableOK
<1>16. CASE UNCHANGED vars
  BY <1>16 DEF vars, PoolOK, TableOK
<1> QED
  BY <1>1, <1>2, <1>3, <1>4, <1>5, <1>6, <1>7, <1>8, <1>9, <1>10, <1>11, <1>12,
     <1>13, <1>14, <1>15, <1>16 DEF Next, Unnamed

\* The type invariant of the pool, the tables, the clients and the requests.
THEOREM TypeCorrect == Spec => []TypeOK
BY TypeInit, TypeNext, PTL DEF Spec

--------------------------------------------------------------------------------
(* Three failed checks retire a proxy. What they cost is taken from a score *)
(* of at most MaxScore, and a proxy that is not dead could pay for it.       *)

Cost(n) == IF n = 0 THEN 0 ELSE IF n = 1 THEN Penalty
           ELSE IF n = 2 THEN Penalty + Penalty ELSE Penalty + Penalty + Penalty

StrikesPaid ==
    \A p \in IPs : pool[p].status # "dead" =>
        /\ pool[p].score + Cost(strikes[p]) <= MaxScore
        /\ strikes[p] > 0 => pool[p].score > 0

TargetsSeeded ==
    /\ \A p \in targets : pool[p].status # "none"
    /\ \A p \in IPs : pool[p].status = "none" => strikes[p] = 0

StrikeInv == TypeOK /\ StrikesPaid /\ TargetsSeeded

\* AssignProxy changes nothing in the pool but an available proxy.
LEMMA AssignOne ==
    ASSUME NEW i, NEW got, AssignProxy(i, got)
    PROVE  \/ pool' = pool /\ got = NoProxy
           \/ \E p \in IPs : /\ pool[p].status = "available"
                            /\ pool' = [pool EXCEPT ![p] = AssignedTo(i, p)]
                            /\ got \in {p, NoProxy}
BY CandidatesAvailable DEF AssignProxy

LEMMA ReleaseOne ==
    ASSUME NEW i \in Ids, ReleaseProxy(i)
    PROVE  \/ UNCHANGED <<pool, strikes>>
           \/ \E p \in IPs : /\ pool[p].owner = i
                            /\ pool' = [pool EXCEPT ![p] = Released(p)]
                            /\ strikes' = [strikes EXCEPT ![p] = 0]
BY DEF ReleaseProxy, Owned

LEMMA RetireOne ==
    ASSUME NEW i, RetireProxy(i)
    PROVE  \/ pool' = pool
           \/ \E p \in IPs : /\ pool[p].owner = i
                            /\ pool' = [pool EXCEPT ![p] = Dead(p)]
BY DEF RetireProxy, Owned

LEMMA PaidAfterAssign ==
    ASSUME StrikeInv, NEW i, NEW got, AssignProxy(i, got),
           UNCHANGED <<targets, strikes>>
    PROVE  (StrikesPaid /\ TargetsSeeded)'
<1>1. CASE pool' = pool
  BY <1>1 DEF StrikeInv, StrikesPaid, TargetsSeeded
<1>2. ASSUME NEW p \in IPs, pool[p].status = "available",
             pool' = [pool EXCEPT ![p] = AssignedTo(i, p)]
      PROVE  (StrikesPaid /\ TargetsSeeded)'
  BY <1>2 DEF AssignedTo, StrikeInv, StrikesPaid, TargetsSeeded, TypeOK, PoolOK
<1> QED
  BY <1>1, <1>2, AssignOne

LEMMA PaidAfterRelease ==
    ASSUME StrikeInv, NEW i \in Ids, ReleaseProxy(i), UNCHANGED targets
    PROVE  (StrikesPaid /\ TargetsSeeded)'
<1>1. CASE UNCHANGED <<pool, strikes>>
  BY <1>1 DEF StrikeInv, StrikesPaid, TargetsSeeded
<1>2. ASSUME NEW p \in IPs, pool[p].owner = i,
             pool' = [pool EXCEPT ![p] = Released(p)],
             strikes' = [strikes EXCEPT ![p] = 0]
      PROVE  (StrikesPaid /\ TargetsSeeded)'
  <2>1. /\ pool'[p].status = "available" /\ pool'[p].score \in 0..MaxScore
        /\ strikes'[p] = 0 /\ Cost(strikes'[p]) = 0
    BY <1>2 DEF Released, StrikeInv, TypeOK, PoolOK, Cost
  <2>2. \A q \in IPs \ {p} : pool'[q] = pool[q] /\ strikes'[q] = strikes[q]
    BY <1>2 DEF StrikeInv, TypeOK, PoolOK
  <2>3. StrikesPaid'
    BY <2>1, <2>2, ProxyAssumption DEF StrikeInv, StrikesPaid, Cost
  <2>4. TargetsSeeded'
    BY <2>1, <2>2 DEF StrikeInv, TargetsSeeded, TypeOK
  <2> QED
    BY <2>3, <2>4
<1> QED
  BY <1>1, <1>2, ReleaseOne

LEMMA StrikeInit == Init => StrikesPaid /\ TargetsSeeded
BY ProxyAssumption DEF Init, Unseeded, StrikesPaid, TargetsSeeded, Cost

LEMMA StrikeNext == StrikeInv /\ [Next]_vars => (StrikesPaid /\ TargetsSeeded)'
<1> SUFFICES ASSUME StrikeInv, [Next]_vars PROVE (StrikesPaid /\ TargetsSeeded)'
  OBVIOUS
<1>1. ASSUME NEW new \in SUBSET IPs, Seed(new) PROVE (StrikesPaid /\ TargetsSeeded)'
  <2>1. PICK failed : SeedProxies(new, failed)
    BY <1>1 DEF Seed
  <2>2. \A p \in IPs : IF p \in new THEN pool'[p] = NewProxy /\ strikes'[p] = 0
                       ELSE pool'[p] = pool[p] /\ strikes'[p] = strikes[p]
    BY <1>1, <2>1 DEF Seed, SeedProxies, StrikeInv, TargetsSeeded
  <2>3. StrikesPaid'
    BY <2>2, ProxyAssumption DEF NewProxy, StrikeInv, StrikesPaid, Cost
  <2>4. TargetsSeeded'
    BY <1>1, <2>2 DEF Seed, NewProxy, StrikeInv, TargetsSeeded, TypeOK
  <2> QED
    BY <2>3, <2>4
<1>2. CASE ListTargets
  BY <1>2 DEF ListTargets, NeedsCheck, StrikeInv, StrikesPaid, TargetsSeeded
<1>3. ASSUME NEW p \in IPs, CheckFails(p) PROVE (StrikesPaid /\ TargetsSeeded)'
  <2>1. \A q \in IPs \ {p} : pool'[q] = pool[q] /\ strikes'[q] = strikes[q]
    BY <1>3 DEF CheckFails, StrikeInv, TypeOK, PoolOK
  <2>2. CASE pool'[p].status = "dead"
    <3>1. StrikesPaid'
      BY <2>1, <2>2 DEF StrikeInv, StrikesPaid, Cost
    <3>2. TargetsSeeded'
      BY <1>3, <2>1, <2>2 DEF CheckFails, StrikeInv, TargetsSeeded, TypeOK
    <3> QED
      BY <3>1, <3>2
  <2>3. CASE pool'[p].status # "dead"
    <3>1. /\ pool'[p] = Checked(p, pool[p].status, Penalized(pool[p].score))
          /\ Penalized(pool[p].score) > 0
          /\ strikes'[p] = IF strikes[p] = 3 THEN 3 ELSE strikes[p] + 1
      BY <1>3, <2>3 DEF CheckFails, Checked, StrikeInv, TypeOK, PoolOK
    <3>2. /\ pool[p].status # "dead" /\ pool[p].score \in 0..MaxScore
          /\ strikes[p] \in 0..3
      BY <2>3, <3>1 DEF Checked, StrikeInv, TypeOK, PoolOK
    <3>3. pool'[p].score = pool[p].score - Penalty /\ pool'[p].score > 0
      BY <3>1, <3>2, ProxyAssumption DEF Checked, Penalized
    <3>4. strikes[p] # 3
      BY <3>2, <3>3, ProxyAssumption DEF StrikeInv, StrikesPaid, Cost
    <3>5. pool'[p].score + Cost(strikes'[p]) <= MaxScore
      BY <3>1, <3>2, <3>3, <3>4, ProxyAssumption DEF StrikeInv, StrikesPaid, Cost
    <3>6. StrikesPaid'
      BY <2>1, <3>3, <3>5 DEF StrikeInv, StrikesPaid, Cost
    <3>7. TargetsSeeded'
      BY <1>3, <2>1, <3>1 DEF CheckFails, Checked, StrikeInv, TargetsSeeded, TypeOK
    <3> QED
      BY <3>6, <3>7
  <2> QED
    BY <2>2, <2>3
<1>4. ASSUME NEW p \in IPs, NEW slow \in BOOLEAN, CheckSucceeds(p, slow)
      PROVE  (StrikesPaid /\ TargetsSeeded)'
  <2>1. \A q \in IPs \ {p} : pool'[q] = pool[q] /\ strikes'[q] = strikes[q]
    BY <1>4 DEF CheckSucceeds, StrikeInv, TypeOK, PoolOK
  <2>2. /\ pool'[p].status = StatusAfter(p, slow)
        /\ pool'[p].score = Rewarded(pool[p].score)
        /\ strikes'[p] = 0
    BY <1>4 DEF CheckSucceeds, Checked, StrikeInv, TypeOK, PoolOK
  <2>3. pool'[p].score \in 0..MaxScore
    BY <2>2, ScoreRange DEF StrikeInv, TypeOK, PoolOK
  <2>4. pool[p].status # "none" /\ pool'[p].status # "none"
    BY <1>4, <2>2 DEF CheckSucceeds, StatusAfter, StrikeInv, TargetsSeeded
  <2>5. StrikesPaid'
    BY <2>1, <2>2, <2>3, ProxyAssumption DEF StrikeInv, StrikesPaid, Cost
  <2>6. TargetsSeeded'
    BY <1>4, <2>1, <2>4 DEF CheckSucceeds, StrikeInv, TargetsSeeded, TypeOK
  <2> QED
    BY <2>5, <2>6
<1>5. ASSUME NEW h \in Handlers, NEW i \in Ids, Create(h, i)
      PROVE  (StrikesPaid /\ TargetsSeeded)'
  BY <1>5, PaidAfterAssign DEF Create
<1>6. ASSUME NEW h \in Handlers, Reassign(h) PROVE (StrikesPaid /\ TargetsSeeded)'
  BY <1>6, OpTyped, PaidAfterAssign DEF Reassign, StrikeInv
<1>7. ASSUME NEW h \in Handlers, CreateClientFails(h) PROVE (StrikesPaid /\ TargetsSeeded)'
  <2>1. CASE ReleaseProxy(op[h].id)
    BY <1>7, <2>1, OpTyped, PaidAfterRelease DEF CreateClientFails, StrikeInv
  <2>2. CASE UNCHANGED <<pool, strikes>>
    BY <1>7, <2>2 DEF CreateClientFails, StrikeInv, StrikesPaid, TargetsSeeded
  <2> QED
    BY <1>7, <2>1, <2>2 DEF CreateClientFails
<1>8. ASSUME NEW h \in Handlers, Release(h) PROVE (StrikesPaid /\ TargetsSeeded)'
  BY <1>8, OpTyped, PaidAfterRelease DEF Release, StrikeInv
<1>9. ASSUME NEW h \in Handlers, NEW i, Replace(h, i)
      PROVE  (StrikesPaid /\ TargetsSeeded)'
  <2>1. CASE pool' = pool
    BY <1>9, <2>1 DEF Replace, StrikeInv, StrikesPaid, TargetsSeeded
  <2>2. ASSUME NEW p \in IPs, pool' = [pool EXCEPT ![p] = Dead(p)]
        PROVE  (StrikesPaid /\ TargetsSeeded)'
    BY <1>9, <2>2 DEF Replace, Dead, StrikeInv, StrikesPaid, TargetsSeeded, TypeOK, PoolOK
  <2> QED
    BY <1>9, <2>1, <2>2, RetireOne DEF Replace
<1>10. CASE Restart
  BY <1>10, ProxyAssumption DEF Restart, Unseeded, StrikesPaid, TargetsSeeded, Cost
<1>11. CASE UNCHANGED <<pool, targets, strikes>>
  BY <1>11 DEF StrikeInv, StrikesPaid, TargetsSeeded
<1>12. ASSUME NEW h \in Handlers,
              \/ CreateClient(h) \/ CreateRow(h) \/ ReleaseInTable(h) \/ DeleteRow(h)
              \/ \E i \in Ids : Delete(h, i)
       PROVE  UNCHANGED <<pool, targets, strikes>>
  BY <1>12 DEF CreateClient, CreateRow, ReleaseInTable, DeleteRow, Delete
<1> QED
  BY <1>1, <1>2, <1>3, <1>4, <1>5, <1>6, <1>7, <1>8, <1>9, <1>10, <1>11, <1>12
     DEF Next, vars

\* Three failed checks in a row retire a proxy, whatever happened to it before:
\* it is then neither checked nor handed out (runHealthChecks:280-294).
THEOREM StrikesRetire == Spec => []ThreeStrikes
<1>1. Init => StrikeInv
  BY TypeInit, StrikeInit DEF StrikeInv
<1>2. StrikeInv /\ [Next]_vars => StrikeInv'
  BY TypeNext, StrikeNext DEF StrikeInv
<1>3. StrikeInv => ThreeStrikes
  BY ProxyAssumption DEF StrikeInv, StrikesPaid, ThreeStrikes, Cost, TypeOK, PoolOK
<1> QED
  BY <1>1, <1>2, <1>3, PTL DEF Spec

--------------------------------------------------------------------------------
(* When two clients share a proxy of brightdata. The argument: a proxy that  *)
(* is used, by a client or by a creation about to make one, is never         *)
(* available, and nobody but its user owns it, so that no release but the    *)
(* user's own frees it; and by then the user has no client any more, unless  *)
(* the release cut into its creation. A restart ends every creation and      *)
(* makes every client a restored one.                                        *)

Uses(i, p) ==
    /\ i \notin undercut
    /\ \/ client[i] = p /\ i \notin restored
       \/ \E h \in Handlers : op[h].kind = "client" /\ op[h].id = i /\ op[h].proxy = p

InUseIsReserved ==
    \A i \in Ids, p \in BrightData : Uses(i, p) =>
        /\ pool[p].status \notin {"none", "available"}
        /\ pool[p].owner \in {i, NoOwner}

UsedOnce ==
    \A i, j \in Ids, p \in BrightData : Uses(i, p) /\ Uses(j, p) => i = j

\* An id is generated once, and a release that may meet its creation is recorded.
FreshIds ==
    /\ \A i \in Ids : client[i] # NoClient \/ rows[i] # NoRow => i \in known
    /\ \A h \in Handlers : op[h] # NoOp => op[h].id \in known
    /\ \A h \in Handlers : op[h].kind = "client" =>
          /\ client[op[h].id] = NoClient
          /\ \A g \in Handlers \ {h} : op[g].kind = "client" => op[g].id # op[h].id
    /\ \A g, h \in Handlers :
          op[g].kind = "client" /\ op[h].kind = "release" /\ op[g].id = op[h].id =>
              op[h].id \in undercut
    /\ \A h \in Handlers : op[h].kind = "release" =>
          client[op[h].id] = NoClient \/ op[h].id \in undercut

UseInv == TypeOK /\ FreshIds /\ InUseIsReserved /\ UsedOnce

LEMMA IdleKind == NoOp.kind = "none"
BY DEF NoOp

LEMMA UseInit == Init => FreshIds /\ InUseIsReserved /\ UsedOnce
BY ProxyAssumption, IdleKind
   DEF Init, NoOp, URLs, FreshIds, InUseIsReserved, UsedOnce, Uses

\* The URL of a proxy of brightdata names its IP, and no other URL does.
LEMMA URLNamesIP ==
    ASSUME NEW q \in IPs \cup {NoProxy}, GetProxyURL(q) \in BrightData
    PROVE  GetProxyURL(q) = q
BY ProxyAssumption DEF GetProxyURL

\* The statements on instances neither add nor remove a row.
LEMMA UpdateKeepsRows ==
    ASSUME TableOK, NEW i, NEW p \in IPs \cup {NoProxy}, UpdateInstanceProxy(i, p)
    PROVE  \A j \in Ids : rows'[j] = NoRow <=> rows[j] = NoRow
BY ProxyAssumption DEF UpdateInstanceProxy, HasRow, TableOK

LEMMA AssignKeepsRows ==
    ASSUME TableOK, NEW i, NEW got \in IPs \cup {NoProxy}, AssignProxy(i, got)
    PROVE  \A j \in Ids : rows'[j] = NoRow <=> rows[j] = NoRow
BY UpdateKeepsRows DEF AssignProxy

LEMMA ReleaseKeepsRows ==
    ASSUME TableOK, NEW i \in Ids, ReleaseProxy(i)
    PROVE  \A j \in Ids : rows'[j] = NoRow <=> rows[j] = NoRow
BY UpdateKeepsRows DEF ReleaseProxy

\* What is kept when no creation begins or makes its client, and no deletion begins.
LEMMA FreshKept ==
    ASSUME TypeOK, FreshIds, known \subseteq known', undercut \subseteq undercut',
           \A j \in Ids : client'[j] # NoClient \/ rows'[j] # NoRow =>
               client[j] # NoClient \/ rows[j] # NoRow \/ j \in known',
           \A j \in Ids : client[j] = NoClient => client'[j] = NoClient,
           \A g \in Handlers :
               /\ op'[g] # NoOp => op'[g].id \in known'
               /\ op'[g].kind \in {"client", "release"} => op'[g] = op[g]
    PROVE  FreshIds'
<1>1. \A g \in Handlers : op[g].kind \in {"client", "release"} => op[g].id \in Ids
  BY OpTyped
<1> QED
  BY <1>1 DEF FreshIds

LEMMA FreshNext ==
    ASSUME TypeOK, FreshIds, [Next]_vars
    PROVE  FreshIds'
<1>0. \A g \in Handlers : /\ op[g] # NoOp => op[g].id \in known
                          /\ op[g].kind # "none" => op[g] # NoOp
                          /\ op[g].kind \in {"client", "release"} => op[g].id \in Ids
  BY IdleKind, OpTyped DEF FreshIds
<1>1. ASSUME NEW h \in Handlers, NEW i \in Ids, Create(h, i) PROVE FreshIds'
  <2>1. PICK got \in IPs \cup {NoProxy} :
            /\ AssignProxy(i, got)
            /\ op' = [op EXCEPT ![h] = [kind |-> "client", id |-> i, proxy |-> got]]
    BY <1>1 DEF Create
  <2>2. \A j \in Ids : rows'[j] = NoRow <=> rows[j] = NoRow
    BY <2>1, AssignKeepsRows DEF TypeOK
  <2>3. /\ op'[h].kind = "client" /\ op'[h].id = i
        /\ \A g \in Handlers \ {h} : op'[g] = op[g]
    BY <2>1 DEF TypeOK
  <2>4. UNCHANGED <<client, undercut>> /\ known' = known \cup {i} /\ i \notin known
    BY <1>1 DEF Create
  <2>5. \A g \in Handlers : op[g].kind # "none" => op[g].id # i
    BY <1>0, <2>4
  <2>6. client[i] = NoClient
    BY <2>4 DEF FreshIds
  <2> QED
    BY <1>0, <2>2, <2>3, <2>4, <2>5, <2>6 DEF FreshIds
<1>2. ASSUME NEW h \in Handlers, CreateClient(h) PROVE FreshIds'
  <2>1. op[h].id \in Ids /\ op[h].kind = "client" /\ op[h].id \in known
    BY <1>0, <1>2 DEF CreateClient
  <2>2. /\ op'[h].kind = "row" /\ op'[h].id = op[h].id
        /\ \A g \in Handlers \ {h} : op'[g] = op[g]
        /\ \A j \in Ids \ {op[h].id} : client'[j] = client[j]
        /\ UNCHANGED <<rows, known, undercut>>
    BY <1>2, <2>1 DEF CreateClient, TypeOK
  <2>3. \A g \in Handlers \ {h} : op[g].kind = "client" => op[g].id # op[h].id
    BY <2>1 DEF FreshIds
  <2>4. \A g \in Handlers : op[g].kind = "release" /\ op[g].id = op[h].id =>
            op[g].id \in undercut
    BY <2>1 DEF FreshIds
  <2> QED
    BY <1>0, <2>1, <2>2, <2>3, <2>4 DEF FreshIds
<1>3. ASSUME NEW h \in Handlers, CreateClientFails(h) PROVE FreshIds'
  <2>1. \A j \in Ids : rows'[j] = NoRow <=> rows[j] = NoRow
    BY <1>3, OpTyped, ReleaseKeepsRows DEF CreateClientFails, TypeOK
  <2>2. /\ op'[h] = NoOp /\ \A g \in Handlers \ {h} : op'[g] = op[g]
        /\ UNCHANGED <<client, known, undercut>>
    BY <1>3 DEF CreateClientFails, Done, TypeOK
  <2> QED
    BY <1>0, <2>1, <2>2, IdleKind, FreshKept
<1>4. ASSUME NEW h \in Handlers, CreateRow(h) PROVE FreshIds'
  <2>1. op[h].id \in Ids /\ op[h].id \in known
    BY <1>0, <1>4, OpTyped DEF CreateRow
  <2>2. /\ op'[h] = NoOp /\ \A g \in Handlers \ {h} : op'[g] = op[g]
        /\ \A j \in Ids \ {op[h].id} : rows'[j] = rows[j]
        /\ UNCHANGED <<client, known, undercut>>
    BY <1>4, <2>1 DEF CreateRow, Done, TypeOK, TableOK
  <2> QED
    BY <1>0, <2>1, <2>2, IdleKind, FreshKept
<1>5. ASSUME NEW h \in Handlers, NEW i \in Ids, Delete(h, i) PROVE FreshIds'
  <2>1. /\ op'[h].kind = "release" /\ op'[h].id = i
        /\ \A g \in Handlers \ {h} : op'[g] = op[g]
        /\ client'[i] = NoClient /\ \A j \in Ids \ {i} : client'[j] = client[j]
        /\ rows' = rows /\ known' = known \cup {i} /\ undercut \subseteq undercut'
    BY <1>5 DEF Delete, Names, Goto, TypeOK
  <2>2. \A g \in Handlers : op[g].kind = "client" /\ op[g].id = i => i \in undercut'
    BY <1>5 DEF Delete, Undercuts
  <2> QED
    BY <1>0, <2>1, <2>2 DEF FreshIds
<1>6. ASSUME NEW h \in Handlers, Release(h) PROVE FreshIds'
  <2>1. \A j \in Ids : rows'[j] = NoRow <=> rows[j] = NoRow
    BY <1>6, OpTyped, ReleaseKeepsRows DEF Release, TypeOK
  <2>2. /\ op'[h].kind = "releaseInTable" /\ op'[h].id = op[h].id /\ op[h].kind = "release"
        /\ \A g \in Handlers \ {h} : op'[g] = op[g]
        /\ UNCHANGED <<client, known, undercut>>
    BY <1>6 DEF Release, Goto, TypeOK
  <2> QED
    BY <1>0, <2>1, <2>2, FreshKept
<1>7. ASSUME NEW h \in Handlers, ReleaseInTable(h) PROVE FreshIds'
  <2>1. /\ op'[h].kind = "deleteRow" /\ op'[h].id = op[h].id /\ op[h].kind = "releaseInTable"
        /\ \A g \in Handlers \ {h} : op'[g] = op[g]
        /\ UNCHANGED <<rows, client, known, undercut>>
    BY <1>7 DEF ReleaseInTable, Goto, TypeOK
  <2> QED
    BY <1>0, <2>1, FreshKept
<1>8. ASSUME NEW h \in Handlers, DeleteRow(h) PROVE FreshIds'
  <2>1. /\ op'[h] = NoOp /\ \A g \in Handlers \ {h} : op'[g] = op[g]
        /\ \A j \in Ids : rows'[j] \in {rows[j], NoRow}
        /\ UNCHANGED <<client, known, undercut>>
    BY <1>8 DEF DeleteRow, Done, TypeOK, TableOK
  <2> QED
    BY <1>0, <2>1, IdleKind, FreshKept
<1>9. ASSUME NEW h \in Handlers, NEW i, Replace(h, i) PROVE FreshIds'
  <2>1. /\ op'[h].kind = "assign" /\ op'[h].id = i
        /\ \A g \in Handlers \ {h} : op'[g] = op[g]
        /\ known' = known \cup {i} /\ UNCHANGED <<rows, client, undercut>>
    BY <1>9 DEF Replace, Names, Goto, TypeOK
  <2> QED
    BY <1>0, <2>1, FreshKept
<1>10. ASSUME NEW h \in Handlers, Reassign(h) PROVE FreshIds'
  <2>1. \A j \in Ids : rows'[j] = NoRow <=> rows[j] = NoRow
    BY <1>10, AssignKeepsRows DEF Reassign, TypeOK
  <2>2. /\ op'[h] = NoOp /\ \A g \in Handlers \ {h} : op'[g] = op[g]
        /\ UNCHANGED <<client, known, undercut>>
    BY <1>10 DEF Reassign, Done, TypeOK
  <2> QED
    BY <1>0, <2>1, <2>2, IdleKind, FreshKept
<1>11. CASE Restart
  <2>1. /\ \A h \in Handlers : op'[h] = NoOp
        /\ UNCHANGED <<rows, known>>
        /\ \A i \in Ids : client'[i] # NoClient => rows[i] # NoRow \/ client[i] # NoClient
    BY <1>11 DEF Restart
  <2> QED
    BY <2>1, IdleKind DEF FreshIds
<1>12. CASE UNCHANGED <<rows, client, op, known, undercut>>
  BY <1>12 DEF FreshIds
<1>13. ASSUME \/ \E new \in SUBSET IPs : Seed(new)
              \/ ListTargets
              \/ \E p \in IPs : CheckFails(p) \/ \E slow \in BOOLEAN : CheckSucceeds(p, slow)
       PROVE  UNCHANGED <<rows, client, op, known, undercut>>
  BY <1>13 DEF Seed, ListTargets, CheckFails, CheckSucceeds
<1> QED
  BY <1>1, <1>2, <1>3, <1>4, <1>5, <1>6, <1>7, <1>8, <1>9, <1>10, <1>11, <1>12, <1>13
     DEF Next, vars

\* What is kept when no client and no creation gets a proxy it did not have,
\* and the proxies in use keep their user or lose their owner.
LEMMA UseKept ==
    ASSUME UseInv,
           \A i \in Ids, p \in BrightData : Uses(i, p)' => Uses(i, p),
           \A i \in Ids, p \in BrightData : Uses(i, p)' =>
               /\ pool'[p].status \notin {"none", "available"}
               /\ pool'[p].owner \in {pool[p].owner, NoOwner}
    PROVE  (InUseIsReserved /\ UsedOnce)'
<1>1. InUseIsReserved'
  BY DEF UseInv, InUseIsReserved
<1>2. UsedOnce'
  BY DEF UseInv, UsedOnce
<1> QED
  BY <1>1, <1>2

\* Nobody takes a proxy that is used: AssignProxy picks an available one.
LEMMA UseAfterAssign ==
    ASSUME UseInv, NEW i, NEW got, AssignProxy(i, got),
           \A j \in Ids, p \in BrightData : Uses(j, p)' => Uses(j, p) \/ (j = i /\ p = got)
    PROVE  (InUseIsReserved /\ UsedOnce)'
<1>1. CASE pool' = pool /\ got = NoProxy
  <2>1. \A j \in Ids, p \in BrightData : Uses(j, p)' => Uses(j, p)
    BY <1>1, ProxyAssumption
  <2> QED
    BY <1>1, <2>1, UseKept DEF UseInv, InUseIsReserved
<1>2. ASSUME NEW p \in IPs, pool[p].status = "available",
             pool' = [pool EXCEPT ![p] = AssignedTo(i, p)], got \in {p, NoProxy}
      PROVE  (InUseIsReserved /\ UsedOnce)'
  <2>1. p \in BrightData => \A j \in Ids : ~Uses(j, p)
    BY <1>2 DEF UseInv, InUseIsReserved
  <2>2. \A j \in Ids, q \in BrightData : Uses(j, q)' => IF q = p THEN j = i ELSE Uses(j, q)
    BY <1>2, <2>1, ProxyAssumption
  <2>3. /\ pool'[p].status = "assigned" /\ pool'[p].owner = i
        /\ \A q \in IPs \ {p} : pool'[q] = pool[q]
    BY <1>2 DEF AssignedTo, UseInv, TypeOK, PoolOK
  <2>4. InUseIsReserved'
    BY <2>2, <2>3 DEF UseInv, InUseIsReserved
  <2>5. UsedOnce'
    BY <2>2 DEF UseInv, UsedOnce
  <2> QED
    BY <2>4, <2>5
<1> QED
  BY <1>1, <1>2, AssignOne

\* A release frees no proxy that is used, once its instance uses none itself.
LEMMA UseAfterRelease ==
    ASSUME UseInv, NEW i \in Ids, ReleaseProxy(i),
           \A j \in Ids, p \in BrightData : Uses(j, p)' => Uses(j, p) /\ j # i
    PROVE  (InUseIsReserved /\ UsedOnce)'
<1>1. CASE pool' = pool
  BY <1>1, UseKept DEF UseInv, InUseIsReserved
<1>2. ASSUME NEW p \in IPs, pool[p].owner = i, pool' = [pool EXCEPT ![p] = Released(p)]
      PROVE  (InUseIsReserved /\ UsedOnce)'
  <2>1. p \in BrightData => \A j \in Ids : ~Uses(j, p)'
    BY <1>2, ProxyAssumption DEF UseInv, InUseIsReserved
  <2>2. \A q \in IPs \ {p} : pool'[q] = pool[q]
    BY <1>2 DEF UseInv, TypeOK, PoolOK
  <2>3. \A j \in Ids, q \in BrightData : Uses(j, q)' =>
            /\ pool'[q].status \notin {"none", "available"}
            /\ pool'[q].owner \in {pool[q].owner, NoOwner}
    BY <2>1, <2>2 DEF UseInv, InUseIsReserved
  <2> QED
    BY <2>3, UseKept
<1> QED
  BY <1>1, <1>2, ReleaseOne

LEMMA UseNext ==
    ASSUME UseInv, [Next]_vars
    PROVE  (InUseIsReserved /\ UsedOnce)'
<1> USE DEF UseInv
<1>1. ASSUME NEW new \in SUBSET IPs, Seed(new) PROVE (InUseIsReserved /\ UsedOnce)'
  <2>1. PICK failed : SeedProxies(new, failed)
    BY <1>1 DEF Seed
  <2>2. \A i \in Ids, p \in BrightData : Uses(i, p)' <=> Uses(i, p)
    BY <1>1 DEF Seed, Uses
  <2>3. \A p \in IPs : pool[p].status # "none" => pool'[p] = pool[p]
    BY <1>1, <2>1 DEF Seed, SeedProxies
  <2>4. \A i \in Ids, p \in BrightData : Uses(i, p)' => pool'[p] = pool[p]
    BY <2>2, <2>3 DEF InUseIsReserved
  <2> QED
    BY <2>2, <2>4, UseKept DEF InUseIsReserved
<1>2. ASSUME NEW p \in IPs, CheckFails(p) PROVE (InUseIsReserved /\ UsedOnce)'
  <2>1. \A i \in Ids, q \in BrightData : Uses(i, q)' <=> Uses(i, q)
    BY <1>2 DEF CheckFails, Uses
  <2>2. \A q \in IPs : /\ pool'[q].owner = pool[q].owner
                       /\ pool'[q].status \in {pool[q].status, "dead"}
    BY <1>2 DEF CheckFails, Checked, TypeOK, PoolOK
  <2> QED
    BY <2>1, <2>2, UseKept DEF InUseIsReserved
<1>3. ASSUME NEW p \in IPs, NEW slow \in BOOLEAN, CheckSucceeds(p, slow)
      PROVE  (InUseIsReserved /\ UsedOnce)'
  <2>1. \A i \in Ids, q \in BrightData : Uses(i, q)' <=> Uses(i, q)
    BY <1>3 DEF CheckSucceeds, Uses
  <2>2. \A q \in IPs : /\ pool'[q].owner = pool[q].owner
                       /\ pool'[q].status \in {pool[q].status, "degraded", "assigned"}
    BY <1>3 DEF CheckSucceeds, Checked, StatusAfter, TypeOK, PoolOK
  <2> QED
    BY <2>1, <2>2, UseKept DEF InUseIsReserved
<1>4. ASSUME NEW h \in Handlers, NEW i \in Ids, Create(h, i)
      PROVE  (InUseIsReserved /\ UsedOnce)'
  <2>1. PICK got \in IPs \cup {NoProxy} :
            /\ AssignProxy(i, got)
            /\ op' = [op EXCEPT ![h] = [kind |-> "client", id |-> i, proxy |-> got]]
    BY <1>4 DEF Create
  <2>2. /\ op'[h].id = i /\ op'[h].proxy = got
        /\ \A g \in Handlers \ {h} : op'[g] = op[g]
        /\ UNCHANGED <<client, restored, undercut>>
    BY <1>4, <2>1 DEF Create, TypeOK
  <2>3. \A j \in Ids, p \in BrightData : Uses(j, p)' => Uses(j, p) \/ (j = i /\ p = got)
    BY <2>2 DEF Uses
  <2> QED
    BY <2>1, <2>3, UseAfterAssign
<1>5. ASSUME NEW h \in Handlers, CreateClient(h) PROVE (InUseIsReserved /\ UsedOnce)'
  <2>1. op[h].id \in Ids /\ op[h].kind = "client"
    BY <1>5, OpTyped DEF CreateClient
  <2>2. /\ op'[h].kind = "row" /\ \A g \in Handlers \ {h} : op'[g] = op[g]
        /\ client'[op[h].id] = GetProxyURL(op[h].proxy)
        /\ \A j \in Ids \ {op[h].id} : client'[j] = client[j]
        /\ UNCHANGED <<restored, undercut>>
    BY <1>5, <2>1 DEF CreateClient, TypeOK
  <2>3. GetProxyURL(op[h].proxy) \in BrightData => GetProxyURL(op[h].proxy) = op[h].proxy
    BY <2>1, OpTyped, URLNamesIP
  <2>4. \A i \in Ids, p \in BrightData : Uses(i, p)' => Uses(i, p)
    BY <2>1, <2>2, <2>3 DEF Uses
  <2> QED
    BY <1>5, <2>4, UseKept DEF CreateClient, InUseIsReserved
<1>6. ASSUME NEW h \in Handlers, CreateClientFails(h) PROVE (InUseIsReserved /\ UsedOnce)'
  <2>1. op[h].id \in Ids /\ op[h].kind = "client" /\ op[h] # NoOp
    BY <1>6, OpTyped DEF CreateClientFails, NoOp
  <2>2. /\ op'[h].kind # "client" /\ \A g \in Handlers \ {h} : op'[g] = op[g]
        /\ UNCHANGED <<client, restored, undercut>>
    BY <1>6 DEF CreateClientFails, Done, NoOp, TypeOK
  <2>3. client[op[h].id] = NoClient
    BY <2>1 DEF FreshIds
  <2>4. \A g \in Handlers \ {h} : op[g].kind = "client" => op[g].id # op[h].id
    BY <2>1 DEF FreshIds
  <2>5. \A j \in Ids, p \in BrightData : Uses(j, p)' => Uses(j, p) /\ j # op[h].id
    BY <2>2, <2>3, <2>4, ProxyAssumption DEF Uses, URLs
  <2>6. CASE ReleaseProxy(op[h].id)
    BY <2>1, <2>5, <2>6, UseAfterRelease
  <2>7. CASE pool' = pool
    BY <2>5, <2>7, UseKept DEF InUseIsReserved
  <2> QED
    BY <1>6, <2>6, <2>7 DEF CreateClientFails
<1>7. ASSUME NEW h \in Handlers, NEW i \in Ids, Delete(h, i)
      PROVE  (InUseIsReserved /\ UsedOnce)'
  <2>1. /\ op'[h].kind = "release" /\ \A g \in Handlers \ {h} : op'[g] = op[g]
        /\ client'[i] = NoClient /\ \A j \in Ids \ {i} : client'[j] = client[j]
        /\ UNCHANGED <<pool, restored>> /\ undercut \subseteq undercut'
    BY <1>7 DEF Delete, Goto, TypeOK
  <2>2. \A j \in Ids, p \in BrightData : Uses(j, p)' => Uses(j, p)
    BY <2>1, ProxyAssumption DEF Uses, URLs
  <2> QED
    BY <2>1, <2>2, UseKept DEF InUseIsReserved
<1>8. ASSUME NEW h \in Handlers, Release(h) PROVE (InUseIsReserved /\ UsedOnce)'
  <2>1. op[h].id \in Ids /\ op[h].kind = "release" /\ op[h] # NoOp
    BY <1>8, OpTyped DEF Release, NoOp
  <2>2. /\ op'[h].kind = "releaseInTable" /\ \A g \in Handlers \ {h} : op'[g] = op[g]
        /\ UNCHANGED <<client, restored, undercut>>
    BY <1>8 DEF Release, Goto, TypeOK
  <2>3. client[op[h].id] = NoClient \/ op[h].id \in undercut
    BY <2>1 DEF FreshIds
  <2>4. \A g \in Handlers :
            op[g].kind = "client" /\ op[g].id = op[h].id => op[h].id \in undercut
    BY <2>1 DEF FreshIds
  <2>5. \A j \in Ids, p \in BrightData : Uses(j, p)' => Uses(j, p) /\ j # op[h].id
    BY <2>2, <2>3, <2>4, ProxyAssumption DEF Uses, URLs
  <2> QED
    BY <1>8, <2>1, <2>5, UseAfterRelease DEF Release
<1>9. ASSUME NEW h \in Handlers, NEW i, Replace(h, i)
      PROVE  (InUseIsReserved /\ UsedOnce)'
  <2>1. /\ op'[h].kind = "assign" /\ \A g \in Handlers \ {h} : op'[g] = op[g]
        /\ UNCHANGED <<client, restored, undercut>>
    BY <1>9 DEF Replace, Goto, TypeOK
  <2>2. \A j \in Ids, p \in BrightData : Uses(j, p)' => Uses(j, p)
    BY <2>1 DEF Uses
  <2>3. \A p \in IPs : pool'[p] \in {pool[p], Dead(p)}
    BY <1>9, RetireOne DEF Replace, TypeOK, PoolOK
  <2>4. \A p \in IPs : Dead(p).status = "dead" /\ Dead(p).owner = NoOwner
    BY DEF Dead
  <2> QED
    BY <2>2, <2>3, <2>4, UseKept DEF InUseIsReserved
<1>10. ASSUME NEW h \in Handlers, Reassign(h) PROVE (InUseIsReserved /\ UsedOnce)'
  <2>2. /\ op'[h].kind # "client" /\ \A g \in Handlers \ {h} : op'[g] = op[g]
        /\ UNCHANGED <<client, restored, undercut>>
    BY <1>10 DEF Reassign, Done, NoOp, TypeOK
  <2>3. \A j \in Ids, p \in BrightData : Uses(j, p)' => Uses(j, p)
    BY <2>2 DEF Uses
  <2> QED
    BY <1>10, <2>3, UseAfterAssign DEF Reassign
<1>11. ASSUME NEW h \in Handlers, CreateRow(h) \/ ReleaseInTable(h) \/ DeleteRow(h)
       PROVE  (InUseIsReserved /\ UsedOnce)'
  <2>1. /\ op'[h].kind # "client" /\ \A g \in Handlers \ {h} : op'[g] = op[g]
        /\ UNCHANGED <<pool, client, restored, undercut>>
    BY <1>11 DEF CreateRow, ReleaseInTable, DeleteRow, Done, Goto, NoOp, TypeOK
  <2>2. \A j \in Ids, p \in BrightData : Uses(j, p)' => Uses(j, p)
    BY <2>1 DEF Uses
  <2> QED
    BY <2>1, <2>2, UseKept DEF InUseIsReserved
<1>12. CASE UNCHANGED <<pool, client, op, restored, undercut>>
  BY <1>12 DEF InUseIsReserved, UsedOnce, Uses
<1>13. CASE Restart
  <2>1. /\ \A h \in Handlers : op'[h].kind = "none"
        /\ \A i \in Ids \ restored' : rows[i] = NoRow
        /\ \A i \in Ids : rows[i] = NoRow => client'[i] \in {NoProxy, NoClient}
    BY <1>13, IdleKind DEF Restart
  <2>2. \A i \in Ids, p \in BrightData : ~Uses(i, p)'
    BY <2>1, ProxyAssumption DEF Uses, URLs
  <2> QED
    BY <2>2, UseKept
<1> QED
  BY <1>1, <1>2, <1>3, <1>4, <1>5, <1>6, <1>7, <1>8, <1>9, <1>10, <1>11, <1>12, <1>13
     DEF Next, vars, ListTargets

\* Two WhatsApp clients share a proxy of brightdata in two cases only: a restart
\* rebuilt one of them from its row, or a deletion came between AssignProxy and
\* CreateInstance of the creation of one of them (instance.go:46-56). Nothing else
\* makes them share it: no failed call, no replacement, no health check, and no
\* other overlap of any number of requests.
THEOREM ProxiesAreExclusive == Spec => []ExclusiveUse
<1>1. Init => UseInv
  BY TypeInit, UseInit DEF UseInv
<1>2. UseInv /\ [Next]_vars => UseInv'
  BY TypeNext, FreshNext, UseNext DEF UseInv
<1>3. UseInv => ExclusiveUse
  BY DEF UseInv, UsedOnce, Uses, ExclusiveUse
<1> QED
  BY <1>1, <1>2, <1>3, PTL DEF Spec
--------------------------------------------------------------------------------
(* An instance whose requests do not overlap holds one proxy at most. The    *)
(* argument: it is given one only when it has none, because it is new or the *)
(* request that gives it has retired the one it had, and no other request    *)
(* touches the proxies of an instance but its own.                           *)

HasNone(i, within) == \A p \in IPs : within[p].owner # i

\* Two requests of an instance at once are recorded.
OneRequest ==
    \A g, h \in Handlers :
        op[g] # NoOp /\ op[h] # NoOp /\ op[g].id = op[h].id
            => g = h \/ op[g].id \in overlapped

HoldersKnown == \A p \in IPs : pool[p].owner \in Ids => pool[p].owner \in known

\* The request about to give a proxy, and the deletion that has released one,
\* leave the instance without any.
NoneMeanwhile ==
    \A h \in Handlers :
        /\ op[h].kind \in {"assign", "releaseInTable", "deleteRow"}
        /\ op[h].id \in Ids \ overlapped
        => HasNone(op[h].id, pool)

HoldInv ==
    TypeOK /\ FreshIds /\ OneRequest /\ HoldersKnown /\ NoneMeanwhile /\ OneProxyEach

LEMMA HoldInit == Init => OneRequest /\ HoldersKnown /\ NoneMeanwhile /\ OneProxyEach
BY ProxyAssumption
   DEF Init, NoOp, Unseeded, OneRequest, HoldersKnown, NoneMeanwhile, OneProxyEach

LEMMA OpId ==
    ASSUME TypeOK, NEW h \in Handlers, op[h] # NoOp
    PROVE  op[h].id \in Ids \cup {NoOwner}
BY DEF TypeOK, Requests

\* No request begins.
LEMMA RequestsKept ==
    ASSUME OneRequest, overlapped \subseteq overlapped',
           \A g \in Handlers : op'[g] # NoOp => op[g] # NoOp /\ op'[g].id = op[g].id
    PROVE  OneRequest'
BY DEF OneRequest

\* No instance gets a proxy it did not hold, and no request comes to rely on an
\* instance without any.
LEMMA HoldKept ==
    ASSUME HoldInv, TypeOK', overlapped \subseteq overlapped', known \subseteq known',
           \A p \in IPs : pool'[p].owner \in Ids => pool'[p].owner = pool[p].owner,
           \A g \in Handlers :
               op'[g].kind \in {"assign", "releaseInTable", "deleteRow"} =>
                   \/ op'[g].id \notin Ids \ overlapped' \/ HasNone(op'[g].id, pool')
                   \/ /\ op[g].kind \in {"assign", "releaseInTable", "deleteRow"}
                      /\ op[g].id = op'[g].id
    PROVE  (HoldersKnown /\ NoneMeanwhile /\ OneProxyEach)'
<1>1. HoldersKnown'
  BY DEF HoldInv, HoldersKnown
<1>2. OneProxyEach'
  BY DEF HoldInv, OneProxyEach
<1>3. NoneMeanwhile'
  <2> SUFFICES ASSUME NEW g \in Handlers,
                      op'[g].kind \in {"assign", "releaseInTable", "deleteRow"},
                      op'[g].id \in Ids \ overlapped'
               PROVE  HasNone(op'[g].id, pool')
    BY DEF NoneMeanwhile
  <2>1. CASE HasNone(op[g].id, pool) /\ op[g].id = op'[g].id
    BY <2>1 DEF HasNone
  <2> QED
    BY <2>1 DEF HoldInv, NoneMeanwhile
<1> QED
  BY <1>1, <1>2, <1>3

\* An instance without a proxy, which is in no other request, is given one.
LEMMA HoldAfterAssign ==
    ASSUME HoldInv, TypeOK', NEW h \in Handlers, NEW i \in Ids, NEW got, AssignProxy(i, got),
           HasNone(i, pool) \/ i \in overlapped, i \in known',
           overlapped' = overlapped, known \subseteq known',
           op'[h].kind \notin {"assign", "releaseInTable", "deleteRow"},
           \A g \in Handlers \ {h} :
               op'[g] = op[g] /\ (op[g] # NoOp /\ op[g].id = i => i \in overlapped)
    PROVE  (HoldersKnown /\ NoneMeanwhile /\ OneProxyEach)'
<1>1. CASE pool' = pool
  BY <1>1, HoldKept
<1>2. ASSUME NEW p \in IPs, pool[p].status = "available",
             pool' = [pool EXCEPT ![p] = AssignedTo(i, p)]
      PROVE  (HoldersKnown /\ NoneMeanwhile /\ OneProxyEach)'
  <2>1. /\ pool'[p].owner = i
        /\ \A q \in IPs \ {p} : pool'[q] = pool[q]
    BY <1>2 DEF AssignedTo, HoldInv, TypeOK, PoolOK
  <2>2. HoldersKnown'
    BY <2>1 DEF HoldInv, HoldersKnown
  <2>3. OneProxyEach'
    BY <2>1 DEF HasNone, HoldInv, OneProxyEach
  <2>4. NoneMeanwhile'
    BY <2>1, IdleKind DEF HasNone, HoldInv, NoneMeanwhile
  <2> QED
    BY <2>2, <2>3, <2>4
<1> QED
  BY <1>1, <1>2, AssignOne

LEMMA ReleaseLeavesNone ==
    ASSUME HoldInv, NEW i \in Ids, ReleaseProxy(i)
    PROVE  /\ \A p \in IPs : pool'[p].owner \in Ids => pool'[p].owner = pool[p].owner
           /\ i \in overlapped \/ HasNone(i, pool')
<1>1. CASE UNCHANGED pool /\ Owned(i) = {}
  BY <1>1, ProxyAssumption DEF Owned, HasNone, HoldInv, TypeOK, PoolOK
<1>2. ASSUME NEW p \in Owned(i), pool' = [pool EXCEPT ![p] = Released(p)]
      PROVE  /\ \A q \in IPs : pool'[q].owner \in Ids => pool'[q].owner = pool[q].owner
             /\ i \in overlapped \/ HasNone(i, pool')
  <2>1. /\ p \in IPs /\ pool[p].owner = i /\ pool'[p].owner = NoOwner
        /\ \A q \in IPs \ {p} : pool'[q] = pool[q]
    BY <1>2 DEF Owned, Released, HoldInv, TypeOK, PoolOK
  <2> QED
    BY <2>1, ProxyAssumption DEF HasNone, HoldInv, OneProxyEach
<1> QED
  BY <1>1, <1>2 DEF ReleaseProxy

LEMMA RetireLeavesNone ==
    ASSUME HoldInv, NEW i, RetireProxy(i)
    PROVE  /\ \A p \in IPs : pool'[p].owner \in Ids => pool'[p].owner = pool[p].owner
           /\ i \notin Ids \ overlapped \/ HasNone(i, pool')
<1>1. CASE UNCHANGED pool /\ Owned(i) = {}
  BY <1>1, ProxyAssumption DEF Owned, HasNone, HoldInv, TypeOK, PoolOK
<1>2. ASSUME NEW p \in Owned(i), pool' = [pool EXCEPT ![p] = Dead(p)]
      PROVE  /\ \A q \in IPs : pool'[q].owner \in Ids => pool'[q].owner = pool[q].owner
             /\ i \notin Ids \ overlapped \/ HasNone(i, pool')
  <2>1. /\ p \in IPs /\ pool[p].owner = i /\ pool'[p].owner = NoOwner
        /\ \A q \in IPs \ {p} : pool'[q] = pool[q]
    BY <1>2 DEF Owned, Dead, HoldInv, TypeOK, PoolOK
  <2> QED
    BY <2>1, ProxyAssumption DEF HasNone, HoldInv, OneProxyEach
<1> QED
  BY <1>1, <1>2 DEF RetireProxy

LEMMA HoldNext ==
    ASSUME HoldInv, [Next]_vars
    PROVE  (OneRequest /\ HoldersKnown /\ NoneMeanwhile /\ OneProxyEach)'
<1> DEFINE Goal == OneRequest /\ HoldersKnown /\ NoneMeanwhile /\ OneProxyEach
<1>0. TypeOK'
  BY TypeNext DEF HoldInv
<1>1. ASSUME NEW new \in SUBSET IPs, Seed(new) PROVE Goal'
  <2>1. PICK failed : SeedProxies(new, failed)
    BY <1>1 DEF Seed
  <2>2. \A p \in IPs : pool'[p].owner \in Ids => pool'[p].owner = pool[p].owner
    BY <2>1, ProxyAssumption DEF SeedProxies, NewProxy
  <2>3. UNCHANGED <<op, known, overlapped>>
    BY <1>1 DEF Seed
  <2> QED
    BY <1>0, <2>2, <2>3, HoldKept, RequestsKept DEF HoldInv
<1>2. ASSUME NEW p \in IPs, CheckFails(p) \/ \E slow \in BOOLEAN : CheckSucceeds(p, slow)
      PROVE  Goal'
  <2>1. \A q \in IPs : pool'[q].owner = pool[q].owner
    BY <1>2 DEF CheckFails, CheckSucceeds, Checked, HoldInv, TypeOK, PoolOK
  <2>2. UNCHANGED <<op, known, overlapped>>
    BY <1>2 DEF CheckFails, CheckSucceeds
  <2> QED
    BY <1>0, <2>1, <2>2, HoldKept, RequestsKept DEF HoldInv
<1>3. ASSUME NEW h \in Handlers, NEW i \in Ids, Create(h, i) PROVE Goal'
  <2>1. PICK got \in IPs \cup {NoProxy} :
            /\ AssignProxy(i, got)
            /\ op' = [op EXCEPT ![h] = [kind |-> "client", id |-> i, proxy |-> got]]
    BY <1>3 DEF Create
  <2>2. /\ op'[h].kind = "client" /\ op'[h].id = i
        /\ \A g \in Handlers \ {h} : op'[g] = op[g]
        /\ overlapped' = overlapped /\ known' = known \cup {i} /\ i \notin known
    BY <1>3, <2>1 DEF Create, HoldInv, TypeOK
  <2>3. HasNone(i, pool)
    BY <2>2 DEF HasNone, HoldInv, HoldersKnown
  <2>4. \A g \in Handlers : op[g] # NoOp => op[g].id # i
    BY <2>2 DEF HoldInv, FreshIds
  <2>5. OneRequest'
    BY <2>2, <2>4 DEF HoldInv, OneRequest
  <2> QED
    BY <1>0, <2>1, <2>2, <2>3, <2>4, <2>5, HoldAfterAssign
<1>4. ASSUME NEW h \in Handlers, Reassign(h) PROVE Goal'
  <2>1. PICK got \in IPs \cup {NoProxy} : AssignProxy(op[h].id, got)
    BY <1>4 DEF Reassign
  <2>2. /\ op[h] # NoOp /\ op[h].kind = "assign"
        /\ op'[h] = NoOp /\ \A g \in Handlers \ {h} : op'[g] = op[g]
        /\ UNCHANGED <<known, overlapped>>
    BY <1>4, IdleKind DEF Reassign, Done, HoldInv, TypeOK
  <2>3. OneRequest'
    BY <2>2, RequestsKept DEF HoldInv
  <2>4. CASE op[h].id \in Ids
    <3>1. HasNone(op[h].id, pool) \/ op[h].id \in overlapped
      BY <2>2, <2>4 DEF HoldInv, NoneMeanwhile
    <3>2. op[h].id \in known
      BY <2>2 DEF HoldInv, FreshIds
    <3>3. \A g \in Handlers \ {h} :
              op[g] # NoOp /\ op[g].id = op[h].id => op[h].id \in overlapped
      BY <2>2 DEF HoldInv, OneRequest
    <3> QED
      BY <1>0, <2>1, <2>2, <2>3, <2>4, <3>1, <3>2, <3>3, IdleKind, HoldAfterAssign
  <2>5. CASE op[h].id \notin Ids
    <3>1. \A p \in IPs : pool'[p].owner \in Ids => pool'[p].owner = pool[p].owner
      BY <2>1, <2>5, AssignOne DEF AssignedTo, HoldInv, TypeOK, PoolOK
    <3> QED
      BY <1>0, <2>2, <2>3, <3>1, IdleKind, HoldKept
  <2> QED
    BY <2>4, <2>5
<1>5. ASSUME NEW h \in Handlers, CreateClient(h) \/ CreateRow(h) PROVE Goal'
  <2>1. /\ op[h] # NoOp /\ op'[h].kind \in {"row", "none"}
        /\ op'[h] # NoOp => op'[h].id = op[h].id
        /\ \A g \in Handlers \ {h} : op'[g] = op[g]
        /\ UNCHANGED <<pool, known, overlapped>>
    BY <1>5, IdleKind DEF CreateClient, CreateRow, Done, HoldInv, TypeOK
  <2> QED
    BY <1>0, <2>1, HoldKept, RequestsKept DEF HoldInv
<1>6. ASSUME NEW h \in Handlers, CreateClientFails(h) PROVE Goal'
  <2>1. /\ op[h] # NoOp /\ op[h].id \in Ids
        /\ op'[h] = NoOp /\ \A g \in Handlers \ {h} : op'[g] = op[g]
        /\ UNCHANGED <<known, overlapped>>
    BY <1>6, OpTyped, IdleKind DEF CreateClientFails, Done, HoldInv, TypeOK
  <2>2. \A p \in IPs : pool'[p].owner \in Ids => pool'[p].owner = pool[p].owner
    BY <1>6, <2>1, ReleaseLeavesNone DEF CreateClientFails
  <2> QED
    BY <1>0, <2>1, <2>2, IdleKind, HoldKept, RequestsKept DEF HoldInv
<1>7. ASSUME NEW h \in Handlers, NEW i \in Ids \cup {NoOwner}, Delete(h, i) \/ Replace(h, i)
      PROVE  Goal'
  <2>1. /\ op[h] = NoOp /\ op'[h].id = i /\ op'[h].kind \in {"release", "assign"}
        /\ \A g \in Handlers \ {h} : op'[g] = op[g]
        /\ known' = known \cup {i} /\ overlapped \subseteq overlapped'
        /\ \A g \in Handlers \ {h} : op[g] # NoOp /\ op[g].id = i => i \in overlapped'
    BY <1>7 DEF Delete, Replace, Names, RecordOverlap, Idle, Goto, HoldInv, TypeOK
  <2>2. \A p \in IPs : pool'[p].owner \in Ids => pool'[p].owner = pool[p].owner
    BY <1>7, RetireLeavesNone DEF Delete, Replace
  <2>3. op'[h].kind = "assign" => i \notin Ids \ overlapped' \/ HasNone(i, pool')
    <3>1. CASE Delete(h, i)
      BY <3>1 DEF Delete, Goto, HoldInv, TypeOK
    <3>2. CASE Replace(h, i)
      BY <2>1, <3>2, RetireLeavesNone DEF Replace
    <3> QED
      BY <1>7, <3>1, <3>2
  <2>4. OneRequest'
    BY <2>1 DEF HoldInv, OneRequest
  <2> QED
    BY <1>0, <2>1, <2>2, <2>3, <2>4, HoldKept
<1>8. ASSUME NEW h \in Handlers, Release(h) PROVE Goal'
  <2>1. /\ op[h] # NoOp /\ op[h].id \in Ids /\ op'[h].id = op[h].id
        /\ \A g \in Handlers \ {h} : op'[g] = op[g]
        /\ UNCHANGED <<known, overlapped>>
    BY <1>8, OpTyped, IdleKind DEF Release, Goto, HoldInv, TypeOK
  <2>2. /\ \A p \in IPs : pool'[p].owner \in Ids => pool'[p].owner = pool[p].owner
        /\ op[h].id \in overlapped \/ HasNone(op[h].id, pool')
    BY <1>8, <2>1, ReleaseLeavesNone DEF Release
  <2> QED
    BY <1>0, <2>1, <2>2, HoldKept, RequestsKept DEF HoldInv
<1>9. ASSUME NEW h \in Handlers, ReleaseInTable(h) \/ DeleteRow(h) PROVE Goal'
  <2>1. /\ op[h] # NoOp /\ op[h].kind \in {"releaseInTable", "deleteRow"}
        /\ op'[h] # NoOp => op'[h].id = op[h].id
        /\ \A g \in Handlers \ {h} : op'[g] = op[g]
        /\ UNCHANGED <<pool, known, overlapped>>
    BY <1>9, IdleKind DEF ReleaseInTable, DeleteRow, Goto, Done, HoldInv, TypeOK
  <2> QED
    BY <1>0, <2>1, IdleKind, HoldKept, RequestsKept DEF HoldInv
<1>10. CASE Restart
  <2>1. /\ \A g \in Handlers : op'[g] = NoOp
        /\ \A p \in IPs : pool'[p].owner = NoOwner
    BY <1>10 DEF Restart, Unseeded
  <2> QED
    BY <2>1, IdleKind, ProxyAssumption DEF OneRequest, HoldersKnown, NoneMeanwhile, OneProxyEach
<1>11. CASE UNCHANGED <<pool, op, known, overlapped>>
  BY <1>0, <1>11, HoldKept, RequestsKept DEF HoldInv
<1> QED
  BY <1>1, <1>2, <1>3, <1>4, <1>5, <1>6, <1>7, <1>8, <1>9, <1>10, <1>11
     DEF Next, Unnamed, vars, ListTargets

\* An instance whose requests do not overlap never holds two proxies of the pool,
\* whatever fails, and however often the process restarts.
THEOREM ProxiesHeldOnce == Spec => []OneProxyEach
<1>1. Init => HoldInv
  BY TypeInit, UseInit, HoldInit DEF HoldInv
<1>2. HoldInv /\ [Next]_vars => HoldInv'
  BY TypeNext, FreshNext, HoldNext DEF HoldInv
<1>3. HoldInv => OneProxyEach
  BY DEF HoldInv
<1> QED
  BY <1>1, <1>2, <1>3, PTL DEF Spec

\* Only the last step of a deletion removes a row.
LEMMA RowsKept ==
    ASSUME TypeOK, [Next]_vars, \A h \in Handlers : ~DeleteRow(h)
    PROVE  \A j \in Ids : rows'[j] = NoRow => rows[j] = NoRow
<1>1. ASSUME NEW h \in Handlers, NEW i \in Ids, Create(h, i)
      PROVE  \A j \in Ids : rows'[j] = NoRow => rows[j] = NoRow
  BY <1>1, AssignKeepsRows DEF Create, TypeOK
<1>2. ASSUME NEW h \in Handlers, Reassign(h)
      PROVE  \A j \in Ids : rows'[j] = NoRow => rows[j] = NoRow
  BY <1>2, OpTyped, AssignKeepsRows DEF Reassign, TypeOK
<1>3. ASSUME NEW h \in Handlers, CreateClientFails(h) \/ Release(h)
      PROVE  \A j \in Ids : rows'[j] = NoRow => rows[j] = NoRow
  BY <1>3, OpTyped, ReleaseKeepsRows DEF CreateClientFails, Release, TypeOK
<1>4. ASSUME NEW h \in Handlers, CreateRow(h)
      PROVE  \A j \in Ids : rows'[j] = NoRow => rows[j] = NoRow
  BY <1>4, OpTyped, ProxyAssumption DEF CreateRow, TypeOK, TableOK
<1>5. CASE UNCHANGED rows
  BY <1>5
<1>6. ASSUME \/ \E new \in SUBSET IPs : Seed(new)
             \/ ListTargets \/ Restart
             \/ \E p \in IPs : CheckFails(p) \/ \E slow \in BOOLEAN : CheckSucceeds(p, slow)
             \/ \E h \in Handlers :
                   \/ CreateClient(h) \/ ReleaseInTable(h)
                   \/ \E i \in Ids \cup {NoOwner} : Delete(h, i) \/ Replace(h, i)
      PROVE  UNCHANGED rows
  BY <1>6 DEF Seed, ListTargets, Restart, CheckFails, CheckSucceeds, CreateClient,
              ReleaseInTable, Delete, Replace
<1> QED
  BY <1>1, <1>2, <1>3, <1>4, <1>5, <1>6 DEF Next, Unnamed, vars

LEMMA DeletionStep ==
    ASSUME HoldInv, [Next]_vars, NEW i \in Ids, rows[i] # NoRow, rows'[i] = NoRow,
           NEW p \in IPs
    PROVE  table'[p].owner # i /\ (i \notin overlapped => pool'[p].owner # i)
<1>1. PICK h \in Handlers : DeleteRow(h)
  BY RowsKept DEF HoldInv
<1>2. op[h].kind = "deleteRow" /\ op[h].id = i /\ pool' = pool
  BY <1>1, OpTyped DEF DeleteRow, HoldInv, TypeOK, TableOK
<1>3. table'[p].owner # i
  BY <1>1, <1>2, ProxyAssumption DEF DeleteRow, HoldInv, TypeOK, TableOK
<1>4. i \notin overlapped => HasNone(i, pool)
  BY <1>2 DEF HoldInv, NoneMeanwhile
<1> QED
  BY <1>2, <1>3, <1>4 DEF HasNone

\* A deletion that removes the row of an instance leaves no proxy assigned to it,
\* in the table or, unless two of its requests overlapped, in the pool.
THEOREM DeletionFreesProxies == Spec => DeletionLeavesNone
<1>1. Init => HoldInv
  BY TypeInit, UseInit, HoldInit DEF HoldInv
<1>2. HoldInv /\ [Next]_vars => HoldInv'
  BY TypeNext, FreshNext, HoldNext DEF HoldInv
<1>3. HoldInv /\ [Next]_vars =>
          [\A i \in Ids : rows[i] # NoRow /\ rows'[i] = NoRow =>
              \A p \in IPs : /\ table'[p].owner # i
                             /\ i \notin overlapped => pool'[p].owner # i]_vars
  BY DeletionStep
<1> QED
  BY <1>1, <1>2, <1>3, PTL DEF Spec, DeletionLeavesNone

================================================================================
