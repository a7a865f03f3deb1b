------------------------------ MODULE ProxyManager ------------------------------
(***************************************************************************)
(* internal/services/proxy_manager.go with the requests that use it: the   *)
(* pool of proxies in memory, its copy in the table proxy_pool, the proxy  *)
(* columns of the table instances and the proxy each WhatsApp client was   *)
(* given. Every method of the manager holds pm.mu, SQL included, and is one *)
(* action; ReplaceProxy lets go of it half-way, a health check dials a     *)
(* proxy without it, and the handlers call the manager and the database    *)
(* one after the other.                                                    *)
(*                                                                         *)
(* SeedProxies is the only way into the pool. Nothing in the repository    *)
(* calls it yet: here an operator may, at any time.                        *)
(***************************************************************************)
EXTENDS Integers

CONSTANTS BrightData, \* the IPs of the provider "brightdata"
          IPRoyal,    \* those of "iproyal"
          PrimaryProvider,  \* cfg.Proxy.PrimaryProvider: any string
          Gateway,    \* the one proxy URL of iproyal
          Ids,        \* the ids generateID may return
          Handlers,   \* the goroutines that serve requests
          Faults,     \* what may fail: "seed", the INSERT of a seeded proxy;
                      \* "sql", any other statement; "session",
                      \* Manager.CreateInstance; "restart", the process;
                      \* "unnamed", a replacement asked for without an id
          MaxScore,   \* the score of a healthy proxy; 100
          Penalty,    \* what a failed check costs; 34
          Reward,     \* what a successful one brings; 10
          NoProxy, NoRow, NoClient,
          NoOwner     \* AssignedInstance "", which is also the instance_id of a
                      \* request that names none

IPs  == BrightData \cup IPRoyal
URLs == BrightData \cup {Gateway}   \* what GetProxyURL makes of them

ASSUME ProxyAssumption ==
    /\ BrightData \cap IPRoyal = {}
    /\ Gateway \notin BrightData
    /\ Faults \subseteq {"seed", "sql", "session", "restart", "unnamed"}
    /\ MaxScore \in Nat /\ Penalty \in Nat /\ Reward \in Nat
    /\ MaxScore <= 3 * Penalty
    /\ NoProxy \notin IPs \cup URLs /\ NoOwner \notin Ids
    /\ NoRow \notin IPs /\ NoRow # NoProxy
    /\ NoClient \notin URLs /\ NoClient # NoProxy

VARIABLES pool,     \* pm.proxies; the status of an IP that is no key is "none"
          table,    \* proxy_pool
          rows,     \* rows[i]: proxy_ip of the row of instance i
          client,   \* client[i]: the proxy URL its WhatsApp client was given
          op,       \* op[h]: the request handler h is serving
          targets,  \* the proxies the health check has still to dial
          known,    \* the ids generated, or named by a request, so far
          strikes,  \* strikes[p]: the failed checks since the last success or
                    \* release of p, up to three
          overlapped, \* the instances of which two requests of this process ran
                      \* at once; history
          restored, \* the instances whose proxy main took from their row when
                    \* the process last started; history
          undercut  \* the instances a request of this process deleted between the
                    \* two calls of their own creation; history

vars == <<pool, table, rows, client, op, targets, known, strikes, overlapped, restored,
          undercut>>

NoOp == [kind |-> "none"]

Unseeded == [status |-> "none", owner |-> NoOwner, score |-> 0]
NewProxy == [status |-> "available", owner |-> NoOwner, score |-> MaxScore]
NotInTable == [status |-> "none", owner |-> NoOwner]
NewInTable == [status |-> "available", owner |-> NoOwner]

Init ==
    /\ pool = [p \in IPs |-> Unseeded]
    /\ table = [p \in IPs |-> NotInTable]
    /\ rows = [i \in Ids |-> NoRow]
    /\ client = [i \in Ids |-> NoClient]
    /\ op = [h \in Handlers |-> NoOp]
    /\ targets = {}
    /\ known = {}
    /\ strikes = [p \in IPs |-> 0]
    /\ overlapped = {}
    /\ restored = {}
    /\ undercut = {}

--------------------------------------------------------------------------------
(* The database *)

SQLFails == "sql" \in Faults

HasRow(i) == i \in Ids /\ rows[i] # NoRow

\* UpdateInstanceProxy. Its error, which an absent row also is, is only logged.
UpdateInstanceProxy(i, p) ==
    \/ HasRow(i) /\ rows' = [rows EXCEPT ![i] = p]
    \/ (~HasRow(i) \/ SQLFails) /\ UNCHANGED rows

\* The row GetAvailableProxy picks is the healthiest and the least recently
\* checked one as the table has it, which is not always the one in memory: any.
AvailableInTable(provider) ==
    {p \in provider : table[p].status = "available"}

FreeInTable(i) ==
    table' = [p \in IPs |-> IF table[p].owner = i THEN NewInTable ELSE table[p]]

\* MarkProxyDead leaves assigned_instance_id as it is.
MarkProxyDead(p) ==
    \/ table[p].status # "none" /\ table' = [table EXCEPT ![p].status = "dead"]
    \/ (table[p].status = "none" \/ SQLFails) /\ UNCHANGED table

--------------------------------------------------------------------------------
(* The methods of the manager, under pm.mu *)

SeedProxies(new, failed) ==
    /\ pool' = [p \in IPs |-> IF p \in new THEN NewProxy ELSE pool[p]]
    /\ table' = [p \in IPs |->
                    IF p \in new \ failed /\ table[p].status = "none"
                    THEN NewInTable ELSE table[p]]

\* findAvailable: a healthiest one; which one of several is left to the map.
Available(provider) == {p \in provider : pool[p].status = "available"}
findAvailable(provider) ==
    {p \in Available(provider) :
        \A q \in Available(provider) : pool[q].score <= pool[p].score}

Primary  == CASE PrimaryProvider = "brightdata" -> BrightData
              [] PrimaryProvider = "iproyal" -> IPRoyal
              [] OTHER -> {}
Failover == IF PrimaryProvider = "iproyal" THEN BrightData ELSE IPRoyal

Candidates ==
    IF Available(Primary) # {} THEN findAvailable(Primary) ELSE findAvailable(Failover)

ProviderOf(p) == IF p \in BrightData THEN BrightData ELSE IPRoyal

\* The IP is in the user name of brightdata. iproyal gives everybody one gateway.
GetProxyURL(p) ==
    IF p \in BrightData THEN p ELSE IF p \in IPRoyal THEN Gateway ELSE NoProxy

AssignedTo(i, p) == [status |-> "assigned", owner |-> i, score |-> pool[p].score]

\* got is NoProxy when the method returns an error. An error of the database
\* leaves the proxy assigned in memory: assigned_instance_id is a foreign key.
AssignProxy(i, got) ==
    \/ /\ Candidates = {}
       /\ got = NoProxy
       /\ UNCHANGED <<pool, table, rows>>
    \/ \E p \in Candidates :
          /\ pool' = [pool EXCEPT ![p] = AssignedTo(i, p)]
          /\ \/ /\ SQLFails \/ (AvailableInTable(ProviderOf(p)) # {} /\ ~HasRow(i))
                /\ got = NoProxy
                /\ UNCHANGED <<table, rows>>
             \/ /\ AvailableInTable(ProviderOf(p)) = {}
                /\ got = p
                /\ UpdateInstanceProxy(i, p)
                /\ UNCHANGED table
             \/ /\ HasRow(i)
                /\ \E q \in AvailableInTable(ProviderOf(p)) :
                      table' = [table EXCEPT ![q] = [status |-> "assigned", owner |-> i]]
                /\ got = p
                /\ UpdateInstanceProxy(i, p)

OwnedAssigned(i) == {p \in IPs : pool[p].owner = i /\ pool[p].status = "assigned"}
Owned(i) == {p \in IPs : pool[p].owner = i /\ pool[p].status # "none"}

ReleasedWithOwner(p) ==
    [status |-> "available", owner |-> pool[p].owner, score |-> pool[p].score]
Released(p) == [status |-> "available", owner |-> NoOwner, score |-> pool[p].score]

\* It releases the first proxy of the instance it finds.
ReleaseProxy(i) ==
    \/ /\ Owned(i) = {}
       /\ UNCHANGED <<pool, table, rows, strikes>>
    \/ \E p \in Owned(i) :
          /\ pool' = [pool EXCEPT ![p] = Released(p)]
          /\ strikes' = [strikes EXCEPT ![p] = 0]
          /\ \/ FreeInTable(i) /\ UpdateInstanceProxy(i, NoProxy)
             \/ SQLFails /\ UNCHANGED <<table, rows>>

GivenUp(p)   == [status |-> "available", owner |-> NoOwner, score |-> 0]
DeadOwned(p) == [status |-> "dead", owner |-> pool[p].owner, score |-> 0]
Dead(p)      == [status |-> "dead", owner |-> NoOwner, score |-> 0]

\* The first half of ReplaceProxy.
RetireProxy(i) ==
    \/ Owned(i) = {} /\ UNCHANGED <<pool, table>>
    \/ \E p \in Owned(i) :
          /\ pool' = [pool EXCEPT ![p] = Dead(p)]
          /\ MarkProxyDead(p)

--------------------------------------------------------------------------------
(* Health checks *)

NeedsCheck(p) == pool[p].status \in {"assigned", "degraded"}

ListTargets ==
    /\ targets = {}
    /\ targets' = {p \in IPs : NeedsCheck(p)}
    /\ UNCHANGED <<pool, table, rows, client, op, known, strikes, overlapped, restored, undercut>>

PenalizedOneLess(s) == IF s < Penalty - 1 THEN 0 ELSE s - (Penalty - 1)
Penalized(s) == IF s < Penalty THEN 0 ELSE s - Penalty
Rewarded(s)  == IF s + Reward > MaxScore THEN MaxScore ELSE s + Reward

Checked(p, status, score) == [status |-> status, owner |-> pool[p].owner, score |-> score]

\* The dial failed, or the provider of the proxy is unknown.
CheckFails(p) ==
    /\ p \in targets
    /\ targets' = targets \ {p}
    /\ strikes' = [strikes EXCEPT ![p] = IF @ = 3 THEN 3 ELSE @ + 1]
    /\ LET score == Penalized(pool[p].score) IN
          \/ /\ score = 0
             /\ pool' = [pool EXCEPT ![p] = Checked(p, "dead", 0)]
             /\ MarkProxyDead(p)
          \/ /\ score > 0
             /\ pool' = [pool EXCEPT ![p] = Checked(p, pool[p].status, score)]
             /\ UNCHANGED table
    /\ UNCHANGED <<rows, client, op, known, overlapped, restored, undercut>>

\* The dial took more than 500 ms when slow is true.
StatusAfter(p, slow) ==
    IF slow THEN "degraded"
    ELSE IF pool[p].status = "degraded" THEN "assigned" ELSE pool[p].status

CheckSucceeds(p, slow) ==
    /\ p \in targets
    /\ targets' = targets \ {p}
    /\ strikes' = [strikes EXCEPT ![p] = 0]
    /\ pool' = [pool EXCEPT ![p] = Checked(p, StatusAfter(p, slow), Rewarded(pool[p].score))]
    /\ UNCHANGED <<table, rows, client, op, known, overlapped, restored, undercut>>

--------------------------------------------------------------------------------
(* Requests *)

Idle(h) == op[h] = NoOp

Done(h) == op' = [op EXCEPT ![h] = NoOp]

Goto(h, kind, i) == op' = [op EXCEPT ![h] = [kind |-> kind, id |-> i]]

\* Nothing keeps two requests of one instance apart.
RecordOverlap(h, i) ==
    overlapped' = overlapped \cup
        {j \in {i} : \E g \in Handlers \ {h} : op[g] # NoOp /\ op[g].id = i}

\* A batch of SeedProxies. The first INSERT that fails ends it, after the
\* proxy was put in the pool.
Seed(new) ==
    /\ new # {}
    /\ \A p \in new : pool[p].status = "none"
    /\ \/ SeedProxies(new, {})
       \/ "seed" \in Faults /\ \E last \in new : SeedProxies(new, {last})
    /\ UNCHANGED <<rows, client, op, targets, known, strikes, overlapped, restored, undercut>>

\* POST /instance/create
Create(h, i) ==
    /\ Idle(h)
    /\ i \notin known
    /\ known' = known \cup {i}
    /\ \E got \in IPs \cup {NoProxy} :
          /\ AssignProxy(i, got)
          /\ op' = [op EXCEPT ![h] = [kind |-> "client", id |-> i, proxy |-> got]]
    /\ UNCHANGED <<client, targets, strikes, overlapped, restored, undercut>>

CreateClient(h) ==
    /\ op[h].kind = "client"
    /\ client' = [client EXCEPT ![op[h].id] = GetProxyURL(op[h].proxy)]
    /\ op' = [op EXCEPT ![h] = [kind |-> "row", id |-> op[h].id, proxy |-> op[h].proxy]]
    /\ UNCHANGED <<pool, table, rows, targets, known, strikes, overlapped, restored, undercut>>

CreateClientFails(h) ==
    /\ "session" \in Faults
    /\ op[h].kind = "client"
    /\ Done(h)
    /\ \/ op[h].proxy # NoProxy /\ ReleaseProxy(op[h].id)
       \/ op[h].proxy = NoProxy /\ UNCHANGED <<pool, table, rows, strikes>>
    /\ UNCHANGED <<client, targets, known, overlapped, restored, undercut>>

CreateRow(h) ==
    /\ op[h].kind = "row"
    /\ Done(h)
    /\ \/ rows' = [rows EXCEPT ![op[h].id] = op[h].proxy]
       \/ SQLFails /\ UNCHANGED rows
    /\ UNCHANGED <<pool, table, client, targets, known, strikes, overlapped, restored, undercut>>

\* Nothing asks whether the instance a request names exists: it may be one whose
\* creation is under way, or none. An id is random, so a name somebody made up is
\* not one that is generated later.
Names(i) == known' = known \cup {i}

Undercuts(i) == \E g \in Handlers : op[g].kind = "client" /\ op[g].id = i

\* DELETE /instance/:id
Delete(h, i) ==
    /\ Idle(h)
    /\ Names(i)
    /\ client' = [client EXCEPT ![i] = NoClient]
    /\ Goto(h, "release", i)
    /\ RecordOverlap(h, i)
    /\ undercut' = IF Undercuts(i) THEN undercut \cup {i} ELSE undercut
    /\ UNCHANGED <<pool, table, rows, targets, strikes, restored>>

Release(h) ==
    /\ op[h].kind = "release"
    /\ ReleaseProxy(op[h].id)
    /\ Goto(h, "releaseInTable", op[h].id)
    /\ UNCHANGED <<client, targets, known, overlapped, restored, undercut>>

ReleaseInTable(h) ==
    /\ op[h].kind = "releaseInTable"
    /\ \/ FreeInTable(op[h].id)
       \/ SQLFails /\ UNCHANGED table
    /\ Goto(h, "deleteRow", op[h].id)
    /\ UNCHANGED <<pool, rows, client, targets, known, strikes, overlapped, restored, undercut>>

\* ON DELETE SET NULL: a proxy still assigned to the instance loses its owner.
DeleteRow(h) ==
    /\ op[h].kind = "deleteRow"
    /\ Done(h)
    /\ LET i == op[h].id IN
          \/ /\ rows[i] # NoRow
             /\ rows' = [rows EXCEPT ![i] = NoRow]
             /\ table' = [p \in IPs |-> IF table[p].owner = i
                                        THEN [table[p] EXCEPT !.owner = NoOwner]
                                        ELSE table[p]]
          \/ /\ rows[i] = NoRow \/ SQLFails
             /\ UNCHANGED <<rows, table>>
    /\ UNCHANGED <<pool, client, targets, known, strikes, overlapped, restored, undercut>>

\* The instance_id of a request that has none in its body.
Unnamed == IF "unnamed" \in Faults THEN {NoOwner} ELSE {}

\* POST /admin/proxies/:ip/replace: pm.mu is free between the two steps. The
\* client is not told of its new proxy. Without an instance_id in its body the
\* request retires and assigns a proxy of nobody (NoOwner).
Replace(h, i) ==
    /\ Idle(h)
    /\ Names(i)
    /\ RetireProxy(i)
    /\ Goto(h, "assign", i)
    /\ RecordOverlap(h, i)
    /\ UNCHANGED <<rows, client, targets, strikes, restored, undercut>>

Reassign(h) ==
    /\ op[h].kind = "assign"
    /\ \E got \in IPs \cup {NoProxy} : AssignProxy(op[h].id, got)
    /\ Done(h)
    /\ UNCHANGED <<client, targets, known, strikes, overlapped, restored, undercut>>

\* The process ends and starts again: NewProxyManager makes an empty pool, and
\* main gives each instance that has a row the proxy of its row.
Restart ==
    /\ "restart" \in Faults
    /\ pool' = [p \in IPs |-> Unseeded]
    /\ client' = [i \in Ids |-> IF rows[i] # NoRow THEN GetProxyURL(rows[i])
                                ELSE IF client[i] # NoClient THEN NoProxy
                                ELSE NoClient]
    /\ op' = [h \in Handlers |-> NoOp]
    /\ targets' = {}
    /\ strikes' = [p \in IPs |-> 0]
    /\ restored' = {i \in Ids : rows[i] # NoRow}
    /\ overlapped' = {}
    /\ undercut' = {}
    /\ UNCHANGED <<table, rows, known>>

--------------------------------------------------------------------------------
Next ==
    \/ \E new \in SUBSET IPs : Seed(new)
    \/ ListTargets
    \/ \E p \in IPs : \/ CheckFails(p)
                      \/ \E slow \in BOOLEAN : CheckSucceeds(p, slow)
    \/ \E h \in Handlers :
          \/ \E i \in Ids : Create(h, i) \/ Delete(h, i)
          \/ \E i \in Ids \cup Unnamed : Replace(h, i)
          \/ CreateClient(h) \/ CreateClientFails(h) \/ CreateRow(h)
          \/ Release(h) \/ ReleaseInTable(h) \/ DeleteRow(h)
          \/ Reassign(h)
    \/ Restart

Spec == Init /\ [][Next]_vars

--------------------------------------------------------------------------------
(* Properties *)

PoolOK ==
    /\ pool \in [IPs -> [status : {"none", "available", "assigned", "degraded", "dead"},
                         owner : Ids \cup {NoOwner}, score : 0..MaxScore]]
    /\ \A p \in IPs : pool[p].status \in {"none", "available"} => pool[p].owner = NoOwner

TableOK ==
    /\ table \in [IPs -> [status : {"none", "available", "assigned", "dead"},
                          owner : Ids \cup {NoOwner}]]
    /\ rows \in [Ids -> IPs \cup {NoProxy, NoRow}]

Requests ==
    {NoOp} \cup [kind : {"client", "row"}, id : Ids, proxy : IPs \cup {NoProxy}]
           \cup [kind : {"release", "releaseInTable", "deleteRow"}, id : Ids]
           \cup [kind : {"assign"}, id : Ids \cup {NoOwner}]

\* Each variable has its type, and a proxy that is available has no owner.
TypeOK ==
    /\ PoolOK
    /\ TableOK
    /\ client \in [Ids -> URLs \cup {NoProxy, NoClient}]
    /\ op \in [Handlers -> Requests]
    /\ targets \subseteq IPs
    /\ known \subseteq Ids \cup {NoOwner}
    /\ strikes \in [IPs -> 0..3]
    /\ overlapped \subseteq Ids \cup {NoOwner}
    /\ restored \subseteq Ids
    /\ undercut \subseteq Ids

\* Two WhatsApp clients never share a proxy of brightdata, through replacements
\* that retire a proxy still in use, health checks of proxies that changed hands,
\* requests that fail half-way, deletions and restarts. Two exceptions. A restart
\* empties the pool, so the proxy of a client main rebuilt from its row may be given
\* to another. And a deletion that comes between AssignProxy and CreateInstance of
\* the creation of its instance (instance.go:46-56) gives back the proxy the client
\* is about to get.
ExclusiveUse ==
    \A i, j \in Ids \ (restored \cup undercut) :
        client[i] = client[j] /\ client[i] \in BrightData => i = j

\* A proxy whose last three checks failed is dead: it is neither checked nor
\* handed out again before it is released (runHealthChecks:280-294).
ThreeStrikes ==
    \A p \in IPs : strikes[p] = 3 => pool[p].status = "dead"

\* An instance never holds two proxies of the pool at once, so that its deletion,
\* which releases one, leaves none behind; unless two of its requests overlapped
\* since the process started, whatever the requests of the others do (AssignProxy:58, ReplaceProxy:142-170).
OneProxyEach ==
    \A p, q \in IPs, i \in Ids \ overlapped :
        pool[p].owner = i /\ pool[q].owner = i => p = q

\* When the row of an instance is deleted no proxy of the table is assigned to it
\* any more and, unless two of its requests overlapped, none of the pool either,
\* though the handler goes on after any of its calls failed (Delete:279-296).
DeletionLeavesNone ==
    [][\A i \in Ids : rows[i] # NoRow /\ rows'[i] = NoRow =>
           \A p \in IPs : /\ table'[p].owner # i
                          /\ i \notin overlapped => pool'[p].owner # i]_vars

\* "no proxy available: ... (creating without proxy)" (instance.go:48): an
\* instance whose client was created without a proxy holds none of the pool.
WithoutMeansNone ==
    \A p \in IPs, i \in Ids : pool[p].owner = i => client[i] # NoProxy
================================================================================
