--------------------------- MODULE WebhookDispatcher ---------------------------
(***************************************************************************)
(* internal/services/webhook_dispatcher.go: a bounded channel of webhook   *)
(* jobs, filled by the goroutines that handle WhatsApp events and emptied  *)
(* by a pool of workers that POST each job with retries, and the shutdown  *)
(* sequence of cmd/server/main.go that stops the pool before it closes the *)
(* database the workers log to.                                            *)
(*                                                                         *)
(* A job is named by the event it reports and by its destination: the URL  *)
(* of the event's instance, or the global URL. The names are recycled: an  *)
(* event may be dispatched again once no job of its is in the system, so   *)
(* the behaviours are unbounded while the state is finite. posts, answer   *)
(* and row record what happened to the latest job of each name.            *)
(***************************************************************************)
EXTENDS Integers, Sequences, FiniteSets

CONSTANTS Events,      \* names for the events handed to Dispatch
          Workers,     \* the worker goroutines; main.go starts 10
          QueueCap,    \* capacity of the channel; 10000 in the code
          MaxRetries,  \* cfg.Webhook.MaxRetries: any integer, 3 by default
          GlobalURL,   \* cfg.Webhook.GlobalURL is not empty
          NoJob        \* a worker's job when it has none

Dests == {"instance", "global"}
Job   == Events \X Dests

ASSUME DispatcherAssumption ==
    /\ IsFiniteSet(Workers)
    /\ QueueCap \in Nat \ {0}
    /\ MaxRetries \in Int
    /\ GlobalURL \in BOOLEAN
    /\ NoJob \notin Job

NumDelays == 3                \* len(delays) in send
Failures  == {"bad", "err"}   \* a status outside 200..299; an error, logged as 0
NoRow     == [code |-> "none", attempts |-> 0]

\* The POSTs send makes for a job whose endpoint never answers 2xx.
Attempts == IF MaxRetries < 0 THEN 0 ELSE MaxRetries + 1

VARIABLES main,     \* progress of the main goroutine
          wg,       \* the counter of the sync.WaitGroup
          calls,    \* calls[e]: "global" between the two selects of Dispatch
          queue,    \* wd.queue
          pc,       \* pc[w]: where worker w is
          job,      \* job[w]: the job w is sending
          attempt,  \* attempt[w]: the loop variable of send
          posts,    \* posts[j]: POSTs made for the latest job named j
          answer,   \* answer[j]: how the last of them ended
          row       \* row[j]: its row in webhook_logs

workerVars == <<pc, job, attempt>>
history    == <<posts, answer, row>>
vars       == <<main, wg, calls, queue, workerVars, history>>

Alive      == main \in {"running", "stopping", "stopped"}
StopClosed == main \in {"stopping", "stopped"}

InQueue(j) == \E i \in 1..Len(queue) : queue[i] = j
InHand(j)  == \E w \in Workers : job[w] = j
Held(j)    == InQueue(j) \/ InHand(j)

\* Start: an Add(1) for each worker.
AddedOnce == 1
Added == Cardinality(Workers)

Init ==
    /\ main = "running"
    /\ wg = Added
    /\ calls = [e \in Events |-> "idle"]
    /\ queue = <<>>
    /\ pc = [w \in Workers |-> "idle"]
    /\ job = [w \in Workers |-> NoJob]
    /\ attempt = [w \in Workers |-> 0]
    /\ posts = [j \in Job |-> 0]
    /\ answer = [j \in Job |-> "none"]
    /\ row = [j \in Job |-> NoRow]

--------------------------------------------------------------------------------
(* Dispatch: two non-blocking sends, one after the other. *)

HasRoomOffByOne == Len(queue) <= QueueCap
HasRoom == Len(queue) < QueueCap

\* A send into the full channel takes the default branch: the job is dropped.
Offer(j) ==
    \/ /\ HasRoom
       /\ queue' = Append(queue, j)
       /\ posts' = [posts EXCEPT ![j] = 0]
       /\ answer' = [answer EXCEPT ![j] = "none"]
       /\ row' = [row EXCEPT ![j] = NoRow]
    \/ /\ ~HasRoom
       /\ UNCHANGED <<queue, history>>

\* EventBridge.dispatch found no webhook_url: the instance has none, its row is
\* gone, or the row could not be read.
NoInstanceURL == UNCHANGED <<queue, history>>

\* The handler goroutines are never stopped: they dispatch while main shuts down.
Dispatch(e, hasURL) ==
    /\ Alive
    /\ calls[e] = "idle"
    /\ \A d \in Dests : ~Held(<<e, d>>)
    /\ calls' = [calls EXCEPT ![e] = "global"]
    /\ IF hasURL THEN Offer(<<e, "instance">>) ELSE NoInstanceURL
    /\ UNCHANGED <<main, wg, workerVars>>

DispatchInstance(e) == \E hasURL \in BOOLEAN : Dispatch(e, hasURL)

DispatchGlobal(e) ==
    /\ Alive
    /\ calls[e] = "global"
    /\ calls' = [calls EXCEPT ![e] = "idle"]
    /\ IF GlobalURL THEN Offer(<<e, "global">>) ELSE UNCHANGED <<queue, history>>
    /\ UNCHANGED <<main, wg, workerVars>>

--------------------------------------------------------------------------------
(* worker and send. The select of an idle worker takes either ready case, so *)
(* a worker may go on taking jobs after stopCh is closed.                    *)

\* The worker is back in its select.
Rest(w) ==
    /\ pc' = [pc EXCEPT ![w] = "idle"]
    /\ job' = [job EXCEPT ![w] = NoJob]

\* attempt <= maxRetries on the way into the loop: with a negative MaxRetries
\* its body never runs and the job is forgotten.
LoopRuns == 0 <= MaxRetries

TakeJob(w) ==
    /\ Alive
    /\ pc[w] = "idle"
    /\ queue # <<>>
    /\ queue' = Tail(queue)
    /\ attempt' = [attempt EXCEPT ![w] = 0]
    /\ IF LoopRuns
       THEN /\ pc' = [pc EXCEPT ![w] = "posting"]
            /\ job' = [job EXCEPT ![w] = Head(queue)]
       ELSE Rest(w)
    /\ UNCHANGED <<main, wg, calls, history>>

TriesLeft(w) == attempt[w] < MaxRetries

Answered(w, a) ==
    /\ posts' = [posts EXCEPT ![job[w]] = @ + 1]
    /\ answer' = [answer EXCEPT ![job[w]] = a]

\* The error of LogWebhook is discarded, so the row may be missing: the
\* instance was deleted (instance_id is a foreign key) or PostgreSQL is away.
LogZeroBased(w, a) ==
    \/ row' = [row EXCEPT ![job[w]] = [code |-> a, attempts |-> attempt[w]]]
    \/ UNCHANGED row
LogWebhook(w, a) ==
    \/ row' = [row EXCEPT ![job[w]] = [code |-> a, attempts |-> attempt[w] + 1]]
    \/ UNCHANGED row

PostSucceeds(w) ==
    /\ Alive
    /\ pc[w] = "posting"
    /\ Answered(w, "ok")
    /\ LogWebhook(w, "ok")
    /\ Rest(w)
    /\ UNCHANGED <<main, wg, calls, queue, attempt>>

PostFails(w, a) ==
    /\ Alive
    /\ pc[w] = "posting"
    /\ Answered(w, a)
    /\ \/ /\ TriesLeft(w)
          /\ pc' = [pc EXCEPT ![w] = "backoff"]
          /\ UNCHANGED <<job, row>>
       \/ /\ ~TriesLeft(w)
          /\ LogWebhook(w, a)
          /\ Rest(w)
    /\ UNCHANGED <<main, wg, calls, queue, attempt>>

Post(w) == PostSucceeds(w) \/ \E a \in Failures : PostFails(w, a)

\* delays[attempt] after a failed POST: outside its three elements the
\* goroutine panics, and with it the process.
HasDelay(w) == attempt[w] < NumDelays

IndexPanic(w) ==
    /\ Alive
    /\ pc[w] = "backoff"
    /\ ~HasDelay(w)
    /\ main' = "panicked"
    /\ UNCHANGED <<wg, calls, queue, workerVars, history>>

SameAttempt(w) == attempt[w]
NextAttempt(w) == attempt[w] + 1

Retry(w) ==
    /\ Alive
    /\ pc[w] = "backoff"
    /\ HasDelay(w)
    /\ pc' = [pc EXCEPT ![w] = "posting"]
    /\ attempt' = [attempt EXCEPT ![w] = NextAttempt(w)]
    /\ UNCHANGED <<main, wg, calls, queue, job, history>>

MayAbandonAnyTime == TRUE
SleepsOn == FALSE
MayAbandon == StopClosed

\* stopCh wins the select of the backoff: the job is forgotten, without a row.
Abandon(w) ==
    /\ MayAbandon
    /\ Alive
    /\ pc[w] = "backoff"
    /\ HasDelay(w)
    /\ Rest(w)
    /\ UNCHANGED <<main, wg, calls, queue, attempt, history>>

LeavesWhenQueueEmpty == queue = <<>>
MayLeave == StopClosed

\* return, and the deferred wg.Done.
WorkerExit(w) ==
    /\ MayLeave
    /\ Alive
    /\ pc[w] = "idle"
    /\ pc' = [pc EXCEPT ![w] = "done"]
    /\ wg' = wg - 1
    /\ UNCHANGED <<main, calls, queue, job, attempt, history>>

\* A handler deletes the instance whose events are E: its rows of webhook_logs
\* go with it (ON DELETE CASCADE). Jobs already accepted are not called back.
InstanceDeleted(E) ==
    /\ main = "running"
    /\ row' = [j \in Job |-> IF j[1] \in E THEN NoRow ELSE row[j]]
    /\ UNCHANGED <<main, wg, calls, queue, workerVars, posts, answer>>

--------------------------------------------------------------------------------
(* main: a signal, the deferred Stop, the deferred db.Close; and crashes. *)

StopBegin ==
    /\ main = "running"
    /\ main' = "stopping"
    /\ UNCHANGED <<wg, calls, queue, workerVars, history>>

StopReturns ==
    /\ main = "stopping"
    /\ wg = 0
    /\ main' = "stopped"
    /\ UNCHANGED <<wg, calls, queue, workerVars, history>>

\* db.Close is the last deferred call: main returns and the process ends.
CloseDB ==
    /\ main = "stopped"
    /\ main' = "exited"
    /\ UNCHANGED <<wg, calls, queue, workerVars, history>>

Kill ==
    /\ Alive
    /\ main' = "killed"
    /\ UNCHANGED <<wg, calls, queue, workerVars, history>>

\* The container is restarted. Only webhook_logs outlives the process.
Restart ==
    /\ ~Alive
    /\ main' = "running"
    /\ wg' = Added
    /\ calls' = [e \in Events |-> "idle"]
    /\ queue' = <<>>
    /\ pc' = [w \in Workers |-> "idle"]
    /\ job' = [w \in Workers |-> NoJob]
    /\ attempt' = [w \in Workers |-> 0]
    /\ UNCHANGED history

--------------------------------------------------------------------------------
Next ==
    \/ \E e \in Events : DispatchInstance(e) \/ DispatchGlobal(e)
    \/ \E E \in SUBSET Events : InstanceDeleted(E)
    \/ \E w \in Workers :
          \/ TakeJob(w) \/ Post(w) \/ IndexPanic(w) \/ Retry(w)
          \/ Abandon(w) \/ WorkerExit(w)
    \/ StopBegin \/ StopReturns \/ CloseDB \/ Kill \/ Restart

\* The goroutines of a running process are scheduled; a POST ends, by the
\* timeout of the HTTP client at the latest; of two ready cases a select takes
\* either one at random, so a worker does not pick a job over a closed stopCh for
\* ever. The timer of a backoff fires while the service runs; of one that is under
\* way when it stops nothing is assumed, as the container may be killed before its
\* 15 seconds are over. Nothing is assumed of signals, crashes and restarts.
Fairness ==
    /\ \A w \in Workers : /\ WF_vars(TakeJob(w))
                          /\ WF_vars(Post(w))
                          /\ WF_vars(IndexPanic(w))
                          /\ WF_vars(main = "running" /\ Retry(w))
                          /\ WF_vars(Abandon(w))
                          /\ SF_vars(WorkerExit(w))
    /\ \A e \in Events : WF_vars(DispatchGlobal(e))
    /\ WF_vars(StopReturns)
    /\ WF_vars(CloseDB)

Spec == Init /\ [][Next]_vars

FairSpec == Spec /\ Fairness

--------------------------------------------------------------------------------
(* Properties *)

\* Each variable has its type, and the channel never holds more than its
\* capacity, whatever the goroutines that send into it do.
TypeOK ==
    /\ main \in {"running", "stopping", "stopped", "exited", "killed", "panicked"}
    /\ wg \in Int
    /\ calls \in [Events -> {"idle", "global"}]
    /\ queue \in Seq(Job)
    /\ Len(queue) <= QueueCap
    /\ pc \in [Workers -> {"idle", "posting", "backoff", "done"}]
    /\ job \in [Workers -> Job \cup {NoJob}]
    /\ attempt \in [Workers -> Nat]
    /\ posts \in [Job -> Nat]
    /\ answer \in [Job -> {"none", "ok"} \cup Failures]
    /\ row \in [Job -> [code : {"none", "ok"} \cup Failures, attempts : Nat]]

\* A row of webhook_logs tells what happened to its job: it is written once the
\* job is finished, it counts every POST made for it and carries the outcome of
\* the last, and a failure is recorded only after the last retry (send:104-131).
LogIsTruth ==
    \A j \in Job : row[j] # NoRow =>
        /\ ~Held(j)
        /\ row[j] = [code |-> answer[j], attempts |-> posts[j]]
        /\ answer[j] = "ok" \/ posts[j] = Attempts

\* No two places hold the same job: two cells of the channel, two workers, or a
\* cell and a worker.
OnePlace ==
    /\ \A i, k \in 1..Len(queue) : queue[i] = queue[k] => i = k
    /\ \A v, w \in Workers : job[v] = job[w] /\ job[v] # NoJob => v = w
    /\ \A w \in Workers : ~InQueue(job[w])

BusyWithJob == \A w \in Workers : job[w] = NoJob <=> pc[w] \in {"idle", "done"}

NewUntilSent ==
    /\ \A j \in Job : Held(j) => row[j] = NoRow
    /\ \A j \in Job : InQueue(j) => posts[j] = 0 /\ answer[j] = "none"

LoopCountsPosts ==
    /\ \A w \in Workers : pc[w] = "posting" =>
           attempt[w] <= MaxRetries /\ posts[job[w]] = attempt[w]
    /\ \A w \in Workers : pc[w] = "backoff" =>
           attempt[w] < MaxRetries /\ posts[job[w]] = attempt[w] + 1

GlobalToCome == \A e \in Events : calls[e] = "global" => ~Held(<<e, "global">>)

\* What the promise rests on. A job is in one place at a time; a job in the queue
\* has no history; the POSTs made for a job in a worker's hands are those its loop
\* variable counts; and while Dispatch is between its two selects the global job
\* of its event is still to be sent.
JobsAccounted ==
    /\ OnePlace
    /\ BusyWithJob
    /\ NewUntilSent
    /\ LoopCountsPosts
    /\ GlobalToCome

\* The deferred Stop of main has returned.
PoolStopped == main \in {"stopped", "exited"}

\* A step without POST and without a row: at most a job is accepted anew.
Silent == \A j \in Job : posts'[j] \in {posts[j], 0} /\ row'[j] \in {row[j], NoRow}

\* Once Stop has returned, and so when the database is closed, no webhook is POSTed
\* and no row written any more, though callbacks go on dispatching: the wait group
\* has counted every worker, of this process and after each restart (Start:43-48,
\* Stop:50-54, worker:84). A job accepted so late starts afresh and stays so.
NothingAfterStop == [][PoolStopped => Silent]_vars

\* No worker indexes delays outside its three elements (send:117).
NeverPanics == main # "panicked"

\* While the service runs, a job that was accepted leaves the dispatcher only by
\* a 2xx answer or after all its POSTs; it can be lost only once the process is
\* stopping or dead. WebhookDelivery says so without queue or workers.
Promise == INSTANCE WebhookDelivery WITH
               up <- main = "running",
               pending <- {j \in Job : Held(j)}

KeepsPromise == Promise!Spec

\* Every job in the queue or in a worker's hands is finished in the end, unless
\* the service is stopped or dies first: no worker is lost, none waits for ever.
JobSettles ==
    \A j \in Job : Held(j) ~> (~Held(j) \/ main # "running")

\* A graceful shutdown ends, with jobs in the queue and new events arriving, and
\* even if no backoff that it finds under way were ever to end by its timer: stopCh
\* is the way out of it (send:121-125).
StopCompletes == main = "stopping" ~> main \in {"exited", "killed", "panicked"}
================================================================================
