# LeonaAPI in TLA+

LeonaAPI is a Go server that keeps several WhatsApp sessions open (through the
library whatsmeow), lets clients drive them over HTTP, and reports what happens
on them to webhooks. This directory holds TLA+ models of its stateful parts, the
TLC configurations that check them on small instances, and proofs, checked by
TLAPS, that hold for every value of their constants. Line numbers are those of
the repository's sources; file names are relative to its root.

The repository has no tests and no documentation besides its comments, log lines,
answers and the dashboard, so these are what the models are compared with.

## 1. The system

| part | state it keeps | operations | models |
|---|---|---|---|
| Webhook dispatcher, `internal/services/webhook_dispatcher.go` | the channel `queue`, `stopCh`, the wait group; rows of `webhook_logs` | `Dispatch`, `worker`/`send`, `Stop` | `WebhookDispatcher`, abstract `WebhookDelivery` |
| Rate limiter, `internal/middleware/ratelimit.go` | map from key to times, one mutex | `allow`, `cleanup` | `RateLimiter`, abstract `SlidingWindow` |
| Instances: `pkg/whatsapp/client.go` (Manager), `internal/handlers/instance.go`, `cmd/server/main.go`, `internal/services/database.go` | the map `clients`, the session files, the table `instances` | create, delete, `RestoreAll` and the loop over the rows at startup | `InstanceLifecycle` |
| Client session: the same files and `internal/services/event_bridge.go` | `Client`: `connected`, `currentQR`, `qrChan`, its mutex; `Manager.mu`; the column `status`; whatsmeow's link | connect, disconnect, logout, restart, delete, reconnection at startup, `handleQRChannel`, the callbacks | `ClientSession` |
| Proxy manager, `internal/services/proxy_manager.go`, `internal/handlers/admin.go` | the map `proxies`, the table `proxy_pool`, `instances.proxy_ip` | `SeedProxies`, `AssignProxy`, `ReleaseProxy`, `ReplaceProxy`, `runHealthChecks` | `ProxyManager` |
| Event bridge, `internal/services/event_bridge.go`, with the requests that set a webhook or delete the instance and `main`'s shutdown | the column `webhook_url`; none of its own | status of an event, lookup of the webhook URL, translation to JSON; `SetWebhook`, `Delete`, `app.Shutdown` | `EventDelivery`, which composes it with `WebhookDispatcher`; the status in `ClientSession` |
| Messages, groups, contacts, `internal/handlers/message.go`, `group.go`, `contact.go` | none | read the flag, fetch the media, call whatsmeow | `ClientSession` (`Look`, `Sending`), `EventDelivery` (`Send`) |
| Database layer | the connection pool | one statement per method | each statement in the action that issues it |
| Health checker | none | reads the flag of every client | `Look` of `ClientSession` |
| Router and authentication, configuration, dashboard | none | | not modelled, see section 7 |

How they interact:

- An HTTP handler calls the proxy manager, the manager of clients and the
  database one after the other; nothing makes the sequence atomic. The process
  may die between any two calls, and each call may fail by itself.
- whatsmeow calls `registerEventHandler`'s function from its own goroutine. It
  sets `Client.connected` under `Client.mu` and then calls the event bridge,
  which writes the status column and hands the event to the dispatcher.
- The bridge reads the webhook URL of an event from the row of the instance, when
  the event comes; requests write it, and a deletion removes the row, the log of its
  webhooks with it, while jobs of the instance may still be queued or under way.
- The dispatcher's workers POST, retry and log. `main` waits for the requests, stops
  the workers and closes the database, in that order; it does not stop the WhatsApp
  clients, so events are dispatched during and after `Stop`.
- A request that sends looks at the flag `connected` first and then, without any
  lock, fetches its media and calls whatsmeow: by then the client may be in any state.
- `Manager.mu` is taken before `Client.mu` by `DeleteInstance`; `Connect` holds
  `Client.mu` while it dials.
- After a restart `main` rebuilds the clients from the session files and from the
  rows, and starts one goroutine per instance that reconnects it while the server
  already listens.

What is hard about it, and would hardly be reached by a test: two unsynchronised
stores written by overlapping requests; callbacks that wait for a mutex while a
request undoes what they report; a read of `c.qrChan` outside the lock; a lock
held over the network; results of a dial applied after their proxy changed hands;
a URL changed or a row deleted between an event and its POST; shutdown while queues
fill and requests are under way; restarts half-way; partial failure of a request whose
error is only logged. `PROJECT.json` lists these hazards line by line with the
properties that watch them.

What makes each part correct: the dispatcher neither loses nor repeats a job while
the service runs, logs what happened, stops without waiting for a backoff and is silent
once it has stopped; an event goes where the last request that was answered said; the
limiter answers as a perfect log would; the three stores of instances agree, up to the
I/O that failed; the flag `connected` follows the link; proxies are exclusive, retired
after three strikes and given back.

## 2. Modules

`WebhookDispatcher`. A job is an event and a destination (the instance's URL or the
global one). `DispatchInstance` and `DispatchGlobal` are the two non-blocking sends of
one `Dispatch`; `TakeJob`, `Post`, `Retry`, `Abandon` and `WorkerExit` are the steps of
`worker` and `send`, with the loop variable `attempt`; `IndexPanic` is the access
`delays[attempt]` outside the slice; `InstanceDeleted` is the deletion of an instance,
which takes its rows of the log along; `StopBegin`, `StopReturns`, `CloseDB` are
`main`'s deferred calls; `wg` is the counter of the wait group, which `Start` sets
(`Added`), the deferred `wg.Done` of a worker lowers and `Stop` waits for, so that it is
the count and not the workers that lets `Stop` return; `Kill` and `Restart` are the
container's. `posts`, `answer` and `row` keep what happened to the latest job of each
name. HTTP is a choice among a 2xx answer, another status and an error; the error of
`LogWebhook` is discarded by the code, so a row may be missing. `WebhookDelivery` says
the same promise without queue or workers.

`EventDelivery` extends `WebhookDispatcher` with what surrounds it, for the events of
one instance. `Report`, `GetInstance`, `DispatchFound` and `DispatchToAll` are
`HandleEvent` and `dispatch`, from the callback to the second send: the lookup is a step
of its own, and when it fails the event goes to no webhook of the instance. `SetWebhook`
and `UpdateInstanceWebhook`, `Delete` and `DeleteInstance` are the two halves of the
requests that write the row, before and at the statement; a statement that reports an
error may have taken effect. `PostAndLog` refuses a row of the log whose instance has
none (the foreign key). `Signal`, `ShutdownReturns` (app.Shutdown, then the deferred
`Stop`), `Leave` and `StartAgain` are `main` and the container. Each action calls one of
`WebhookDispatcher` or leaves its variables alone; so, by the shape of the definitions,
whatever is proved of the dispatcher holds of the composition. `agreed` and `want` are
history: the URL that the last request that nothing overlapped and that was answered 200
has left, and what it was when the event came, or `AnyURL` when nothing is promised.

`RateLimiter`. `Allow`, `Refuse` and `Cleanup` are the critical sections of
`allow` and `cleanup`; `Tick` is the clock, stopped at `Horizon`. A time is a
record of the tick and a number that tells two grants of one tick apart, so the
slice of a key is a set. `SlidingWindow` has the log of every grant and one rule.

`InstanceLifecycle`. `clients`, `files`, `rows` are the three stores; `main` and
`todo` the restoring loops; `op[h]` the request of handler `h` between its calls.
`Create` (the id, which `AssignProxy` and the list of proxies make known), then
`CreateClient` and `CreateRow` are the handler `Create`; `DeleteClient` then `DeleteRow`
are `Delete`, which asks nothing of the id it is given: it may be one whose creation is
under way. `used`, `acked`, `touched` and `deleted` record what callers were told,
`undercut` the ids whose deletion came to the manager before their creation did,
and `failed` which kinds of I/O have failed so far: each promise is stated until
the I/O it rests on fails (`Works` and `Fails(kind)` say so in every step).

`ClientSession`. One instance. `pc[h]` is where request `h` is: `Connect` is
`ConnectBegins` (takes the lock), `DialSucceeds` or `DialFails`, `WriteStatus`,
`Poll`; the other requests have a step per call likewise. `Look` is a request (or a
round of the health checker) that reads the flag or the code; a message, contact or
group request goes on from it to `ResolveMedia`, `Upload` and `SendMessage`
(together `Sending`), which hold no lock, change nothing, and need never end. `ReaderStarts`,
`Receive` and `HandleItem` are `handleQRChannel`; `SetFlag` and `HandleEvent` the
two halves of a callback. whatsmeow and the phone are the environment:
`SendCode`, `EndChannel`, `Scan`, `Login`, `Drop`, `Redial`, `Unlinked`. A code is
identified with the QR channel it came from. `late` and `overtaken` are history:
a connection was ended before a sign of its login was handled; people connected or
scanned faster than a goroutine of the code came to run. So is `orphaned`: a request
connected a client that had been deleted since it was looked up.

`ProxyManager`. The pool in memory, the table, the rows and the proxy URL each client
was given. `AssignProxy`, `ReleaseProxy` and `RetireProxy` are the methods under
`pm.mu`, SQL included; `Replace` and `Reassign` are the two critical sections of
`ReplaceProxy`; `ListTargets` and `CheckFails`/`CheckSucceeds` those of
`runHealthChecks`, with the dial between them. The IPs belong to two providers;
`Primary` and `Failover` are where `AssignProxy` looks, for any string the
configuration names. `GetProxyURL` is what a client gets: a proxy of its own with
brightdata, which puts the IP into the user name, and one gateway for all IPs of
iproyal (proxy_manager.go:170-177). `Delete` and `Replace` take any id, as the handlers
do: one that is listed, one whose creation is under way, or one that nobody generated;
`Unnamed` is the empty instance_id of a replacement. `SeedProxies` has no caller in the
repository; in the model an operator may call it. `strikes` counts failed checks;
`overlapped` has the instances of which two requests ran at once; `restored` those
whose proxy `main` took from their row at the last start; `undercut` those a deletion
came for between the `AssignProxy` and the `CreateInstance` of their creation. All four
are history.

`MC*` modules add the symmetry sets and views for TLC, `*Proofs` modules the theorems. The
forms that only the mutants of `PROJECT.json` use (`HasRoomOffByOne`, `DeadOwned`,
`LeavesLocked`, ...) stand before the definition they would replace.

## 3. Runs

| run | instance | what it shows |
|---|---|---|
| `dispatcher_pool` | 1 event (2 jobs), 2 workers, queue of 1, max_retries 4 | all safety properties, `KeepsPromise`, `NothingAfterStop` and both liveness properties, through panics, kills, stops and restarts (104,124 states) |
| `dispatcher_overrun` | 1 worker, max_retries 4 | violation: the process panics |
| `event_delivery` | 1 event, 1 worker, queue of 1, max_retries 1, 2 URLs, 2 handlers | where an event goes while the webhook is set and the instance deleted, and that a signal ends the process (150,398 states) |
| `ratelimit_window` | 2 keys, limit 2, window 3, horizon 6 | all safety properties and the refinement of `SlidingWindow` |
| `lifecycle_stores` | 2 ids, 3 handlers, every fault | the four promises about the stores (306,690 states) |
| `proxy_exclusive` | 1 proxy of brightdata, 2 ids, 2 handlers, failing seeds, statements and sessions | two clients never share a proxy, but for the two exceptions; three strikes; nothing left by a deletion (2.3 million states) |
| `proxy_single` | 2 proxies of iproyal, which is the failover, 2 ids, 2 handlers, failing sessions, restarts | an instance whose own requests do not overlap holds one proxy; nothing left by a deletion, also when table and memory chose different proxies (2.0 million states) |
| `proxy_stranded` | one proxy, no fault | violation: an instance "without proxy" holds one |
| `session_client` | 1 handler, 2 QR channels, 1 waiting callback, every fault | the flag agrees with the link, the locks with who holds them, no code survives a login |
| `session_requests` | 2 handlers, a client without QR logins | no circle of waits for the two mutexes, a deleted instance stays silent, every request ends or waits for its send, every login is reported |
| `session_stale_code` | 1 handler, 2 QR channels | violation: Connect answers with an old code |
| `session_up_listed` | 1 handler, 2 QR channels | violation: a connected instance stays listed "connecting" |

Deadlock is checked in every run.

### Why the bounds are enough

- Dispatcher: two jobs and two workers meet in every way two goroutines can, a
  queue of one is full after one job, and with max_retries 4 the loop passes its
  last delay; names are recycled, so behaviours are unbounded. The safety
  properties and the refinement are proved for every event set, pool, capacity and
  max_retries, negative ones included.
- Delivery: two handlers are what it takes for requests to overlap each other and
  the event; two URLs, no URL and no row are every case of the lookup; the name of
  the event is recycled, so there is always another one after a request. The
  dispatcher itself is shrunk to one worker and one retry because its own run, and
  the theorems, have it at other sizes; without a global webhook the event has one
  job. Safety and the refinement are proved for all values.
- Limiter: the horizon is two windows, so that grants leave the window at every
  offset; the limit of two lets a key be partly used. Everything the run checks is
  proved for all values.
- Lifecycle: two requests of one instance (its creation and a deletion, or two
  deletions) overlap, a third handler does the same to them, and a second instance
  witnesses that they leave others alone. All promises are proved for all ids and
  handlers.
- Proxies. Two requests of two instances are what it takes to meet a proxy that changes
  hands, and one proxy is what they fight for (`proxy_exclusive`, with the scores 5 and 2
  for 100 and 34: three penalties exceed the maximum, two do not; the reward makes any
  proxy healthy again, so that every later check starts from the top). A second proxy of the
  same provider is what lets an instance hold two and lets the table pick another than
  memory (`proxy_single`, with scores of 0, so that one failed check retires its proxy).
  The fault "seed" is what lets the creation of an instance get a proxy: when the table has
  an available one, the foreign key refuses the assignment, as in `proxy_stranded`. `proxy_single` uses a view without `client`, `strikes`, `restored` and
  `undercut`: no step reads them to decide or to change the rest, and neither do its two
  properties. `ThreeStrikes` is proved for all scores with MaxScore <= 3 * Penalty, as the
  real ones satisfy. Three things are in the theorems and in no run, which would take too
  long: restarts with a proxy of brightdata (`ExclusiveUse` with `restored`), the
  replacement without instance_id ("unnamed"), and both providers at once.
- Session: one request at a time still meets readers, callbacks and the
  environment, two channels are needed for a reader to meet a later login, and the
  safety of the flag and of the locks is proved for any number of requests,
  channels and callbacks. `session_client` uses a TLC view without the column
  `status`, which no step reads. `session_requests` has two requests and no QR
  login, so that they compete for both mutexes while liveness remains tractable.

### Fairness

`FairSpec` is stated for the dispatcher and for the session, `DeliveryFairSpec` for
their surroundings.

- A worker, a callback, a reader or a request whose step stays possible takes it:
  the Go scheduler. A POST ends: `http.Client` has the configured
  `timeout_seconds`, taken to be positive (0 would mean no timeout).
- The timer of a backoff fires while the service runs (`WF(main = "running" /\ Retry)`),
  but nothing is assumed of it once `stopCh` is closed: for a shutdown that is not to
  wait for it, 15 seconds are as good as never. Then only the other case of the select,
  `Abandon`, is certain to be taken, since `stopCh` stays closed. `StopCompletes` so says
  that the select in `send` listens to `stopCh`; without that case (the mutant
  `SleepsOn`) it fails.
- `SF(WorkerExit)`: a `select` with both cases ready chooses at random, so a
  worker does not prefer jobs to a closed `stopCh` for ever.
- `SF` on steps that take a mutex (`Step`, `SetFlag`, `HandleItem`): `sync.Mutex`
  and `sync.RWMutex` hand a lock to the goroutine that waits after a millisecond.
- In `DeliveryFairSpec`, besides the dispatcher's: app.Shutdown returns when no
  request is under way. No fairness is given to a send (`Send`, `Sending`): it may
  wait for a download that has no timeout (message.go:335). `ShutdownEnds` and
  `RequestsEnd` say so in their statements.
- A dial or a statement ends, with or without success. Nothing is assumed of
  signals, crashes, people, the phone or the network.

## 4. Proofs

| module | theorem | what |
|---|---|---|
| `WebhookDispatcherProofs` | `TypeCorrect`, `Invariance`, `Accounting`, `TrueLog`, `SilentAfterStop`, `Refinement` | every safety property of the run and the refinement of `WebhookDelivery` |
| | `NoPanic` | no panic when MaxRetries <= 3 |
| | `NotFinishedYet` | a job in the system has POSTs left and no 2xx answer |
| `EventDeliveryProofs` | `DeliveryTypes`, `AgreedDelivery` | types; where events go |
| | `ServerKeepsPromise`, `ServerLogIsTrue`, `ServerSilentAfterStop`, `ServerNeverPanics` | what the pool promises, of the server as a whole |
| | `JobsAreNotLost` | while the service runs, a job leaves it finished |
| `RateLimiterProofs` | `Invariance`, `TypeCorrect`, `RateIsLimited`, `MemoryIsEnough`, `BoundedEntries`, `Refinement` | every property of the run |
| `InstanceLifecycleProofs` | `TypeCorrect`, `ListedAreServed`, `CreatedAreKept`, `CreatedAreListed`, `DeletedAreGone` | every property of the run |
| `ProxyManagerProofs` | `TypeCorrect`, `StrikesRetire`, `ProxiesAreExclusive` | types; three strikes; exclusive use of the proxies of brightdata, restarts included |
| | `ProxiesHeldOnce`, `DeletionFreesProxies` | one proxy per instance; nothing left by a deletion |
| `ClientSessionProofs` | `TypeCorrect`, `LoginsAreSeen`, `DisconnectionsAreSeen`, `CodesAreCleared` | locks; the flag and the link; codes |
| | `LocksNeverCircular`, `DeletionSilences` | no circle of waits; a deleted instance is disconnected for good |

They rest on the named assumptions of the modules, which TLC evaluates in every
run: types of the constants, a capacity of at least one, model values distinct from
data, MaxScore <= 3 * Penalty. `NoPanic` and `ServerNeverPanics` assume
MaxRetries <= 3; no other theorem has a hypothesis of its own.

The arguments:

- Dispatcher. A row is true because the POSTs made for a job in hand are those its
  loop variable counts, which needs that no two places hold one job, that a job in
  the queue has no history and that `Dispatch`, between its two sends, still has
  its global job to send. These conjuncts (`JobsAccounted`) with `LogIsTruth` are the
  inductive invariant `IInv`; the refinement maps each step to a step of the promise or
  a stutter under it. For `NothingAfterStop` the invariant is that `wg` is the number of
  workers that have not returned: `Start` adds as many as it starts (`AllCounted`), each
  subtracts one when it returns and no other step changes either (`CountKept`), so that
  `Stop` returns when the set of them is empty, and nobody is left to POST or log.
- Limiter. After pruning, an entry equals what is left of the full log
  (`NothingForgotten`), hence `allow` decides as the log would. `Numbered` (grants
  are finite and numbered) makes a grant a new element; `AtMostLimit` for windows
  that begin anywhere follows because a grant is made only when its own window has
  room.
- Lifecycle. `Base` says who owns an id in progress: a creation has its id to itself until
  its client is made, unless a deletion has undercut it, and an id gets its file and its row
  from its own creation only. Each promise is then
  strengthened by what is on its way at startup: `RowsOnTheirWay`,
  `FilesOnTheirWay`, `NoFileBehind` (an id with a file, and with a row or one about to be
  inserted, has a client, so a deletion that reached the row has removed the file).
- Proxies. `StrikesPaid`: score and the price of the strikes together never
  exceed MaxScore unless the proxy is dead. `UseInv`: a proxy of brightdata used by a client, or
  by a creation about to make one, is not available and is owned by its user or
  nobody, and a creation has its id to itself. Two kinds of user are left out. A client is
  `restored` when its proxy did not come from the pool of this process: the empty pool of
  a restart knows nothing of it, and seeding the same proxies again hands them out a
  second time. An instance is `undercut` when its deletion came between `AssignProxy` and
  `CreateInstance`: the manager releases by instance id, whoever is about to use the
  proxy. Both exceptions are as small as the code allows: without either TLC finds two
  clients with one proxy. `URLNamesIP` is why brightdata's URLs tell IPs apart. `HoldInv`:
  only an instance whose id was generated or named holds a proxy (`HoldersKnown`); one that
  no two requests shared is named by one request at most, and holds nothing between a
  replacement's retirement of its proxy and the next one, nor after a deletion's
  release (`NoneMeanwhile`). So a proxy is only ever given to an instance without.
- Session. `UpInv`: while the link is up the last waiting callback reports the
  login, or none waits and the flag is set. `DownInv`: once it is off, what is left
  of a login is followed by a callback that takes the flag away, or `late`;
  `ChannelsInv` says that QR channels are open only while no device is linked.
  `CodeInv`: the scan puts "success" behind every code that was sent and not read, and
  the login that was scanned has a reader, so that some reader still has to clear the
  code (`CodeIsCleared`), unless a reader was overtaken. `LocksInOrder` needs no
  invariant beyond `TypeOK`, which says at which steps a mutex is held: the request
  that dials has `Client.mu` and waits for nothing, the one that deletes has
  `Manager.mu` and waits at most for the former (`WaitersWait`), so that every chain of
  waits ends after two. `DeletedIsSilent` is inductive with `TypeOK`: whatever brings a
  link back but a dial (a login, a redial) needs a link or a retry that the deletion
  has ended.
- Delivery. Every step is one of the dispatcher's or leaves its variables alone (the
  lemma `Implements`), so its invariant holds of the composition (`JobsInvariant`).
  `Agreement` is the strengthening for `GoesWhereAgreed`: while something is agreed no other
  request has a statement to come, and what is agreed is what the row holds. The theorems
  named `Server...` carry the
  dispatcher's results over. `JobsAreNotLost` spells the refinement out: of the steps
  of `WebhookDelivery` only a POST that finishes its job takes one out of a service
  that is up, so the jobs a client loses are those of a stop, a kill or a panic, those
  that found the channel full, and, with a negative max_retries, all.

Every invariant and action property that a passing run checks, and every refinement, is
proved for all values of the constants. Only model-checked: liveness (`JobSettles`,
`StopCompletes`, `ShutdownEnds`, `RequestsEnd`, `UpIsReported`), which rests on strong
fairness and so on ENABLED, beyond the prover, and the violations of section 5, which
are counterexamples. `LocksNeverCircular` is the part of `RequestsEnd` that can be
proved: nobody waits for a lock for ever because of somebody who waits for one.

## 5. Where code and words disagree

Each of these has a run whose counterexample shows it.

- `dispatcher_overrun`: `delays` has three elements (webhook_dispatcher.go:98) and
  max_retries has no upper bound; with 4 or more the fourth failed POST of a job
  panics and takes the process down (:117).
- `proxy_stranded`: `Create` assigns a proxy before the row exists, the foreign key
  refuses it, and the proxy stays assigned in memory to an instance created
  "without proxy" (instance.go:46-48).
- `session_stale_code`: `Connect` polls `GetQR` for the code of the login it began
  and may find the one of an earlier login (instance.go:120-123).
- `session_up_listed`: the request's "connecting" may be written after the
  callback's "connected" and stays (instance.go:118).

Seen while modelling, without a run; the models have these behaviours, and the
properties are stated so that they allow for them:

- the comment of `NewProxyManager` (proxy_manager.go:35) says it "loads existing
  proxies from the database"; it makes an empty map and nothing else fills it, as
  `SeedProxies` has no caller. `Restart` of `ProxyManager` is what the code does, and
  `ExclusiveUse` excepts the clients restored from their rows, whose proxy may be
  handed out again;
- nothing keeps a deletion from coming between the two halves of a creation: the id is
  listed by `GET /admin/proxies` before the client is made, and `DELETE /instance/:id`
  takes any id (instance.go:46-56, :168). Its `ReleaseProxy` frees the proxy, another
  creation takes it, and both clients get it: `ExclusiveUse` excepts the instances `undercut`
  in this way. If the deletion goes on to find the row, it is answered 200 and the client and
  its session file stay: so does `DeletedIsGone`;
- all proxies of iproyal are one URL (proxy_manager.go:170-177): instances that hold
  different IPs of it leave through one gateway, so `ExclusiveUse` is about brightdata;
- `ReplaceProxy` with an empty or unknown instance_id retires a proxy that is assigned to
  nobody, if it finds one, and assigns a new one to an instance that does not exist
  (admin.go:43-50): the fault "unnamed" and `Names`;
- a send whose media never comes keeps app.Shutdown, and with it the process, from
  ending after a signal (message.go:335, main.go:130): the exception of
  `ShutdownEnds`. The container is then killed, and its queue is lost;
- a SetWebhook that is answered 500 may have changed the URL, and one whose lookup
  fails sends the event to no webhook of the instance (event_bridge.go:215): the
  cases in which `agreed` and `want` promise nothing;
- a failing INSERT is logged and answered 201 (instance.go:64): `CreatedIsListed`
  is stated until one fails;
- `DeleteInstance` returns before it removes the file of an instance that could not
  be opened (client.go:126), so the next start revives it: `DeletedIsGone` is
  stated until an open fails;
- a health check that ends after its proxy was retired or released puts it back in
  use without an owner (proxy_manager.go:302);
- a Connected callback handled after a Disconnect sets the flag of a client that is
  down (client.go:298): the case `late` of `DownIsSeen`;
- a reconnection, logout or restart that fails leaves the status "connected"
  (main.go:104, instance.go:160);
- a Connect that had its client before a deletion dials after it: a connection no
  request can reach (instance.go:113), the case `orphaned` of `DeletedIsSilent`.

## 6. Assumptions about what is outside the repository

whatsmeow opens at most one connection per client, calls its handlers one at a time
and in order, reports only changes it was not asked for, and ends a QR channel after
any item that is not a code. PostgreSQL executes a statement entirely or not at all
and enforces the foreign keys of `migrations/001_init.sql`. Ids are random and never
collide. `time.Now` is monotonic. docker restarts the container
(`restart: unless-stopped`) with its volumes, or without the storage in the fault
"storage". Fiber's app.Shutdown refuses new requests and returns when those under
way have been answered. The statement of a process that is killed has been executed
before the kill or never is.

## 7. Not modelled

- Health checker: its ticker and its counts; the reading of a flag is `Look`. Router and
  authentication: a table and a comparison. Dashboard: a client of the API.
  Configuration: read once; its values are the constants of the models.
  `internal/webhook` is an empty package.
- The translation of WhatsApp messages to JSON, what a message or a media file
  contains and what the answers list: pure or read-only.
- The field `Client.WebhookURL`, which `SetWebhook` and `main` write without a lock
  and nobody reads; `ChangeProxy`, `UpdateInstancePhone` and the exported copies of
  the media helpers (client.go:707-735), which have no caller.
- What whatsmeow does with a message for a client that was disconnected or
  connected again since its flag was read: an error, answered 500, as far as this
  code can tell.
- The order in which the events of an instance arrive at a webhook: ten workers and
  their retries give none, and nothing in the repository promises one.
- Redis, `max_instances` and the reconnection settings are configured and unused.
- The driver's connection pool; memory reuse of Fiber's strings, which cannot be
  seen from the repository.

## 8. Plan

Done, in this order: dispatcher with its abstract specification; limiter with its
own; lifecycle of instances; proxies; client session; the event bridge, the requests
and the shutdown composed with the dispatcher; requests that look and send; every
safety property and refinement proved; exclusive use through restarts, the order of
the locks, the silence of deleted instances and the pool's promises for the whole
server stated, checked and proved; deletions and replacements of any id at any moment,
the two providers of proxies, and the wait group of the pool.

What could follow:

1. `InstanceService`: lifecycle, proxies and session composed over one set of rows,
   the sequence of calls of `Create` and `Delete` whole, with crashes between any
   two; an abstract registry of instances (created, listed, served, deleted) that it
   implements until the I/O it rests on fails. Each of the three modules has these
   requests with the calls that touch its own state, and leaves the others out.
2. Several instances of `ClientSession` under one `Manager.mu`: a deletion of one
   that waits for its client makes the requests of all wait.
