------------------------ MODULE WebhookDispatcherProofs ------------------------
(***************************************************************************)
(* What WebhookDispatcher guarantees for every set of events and workers,  *)
(* every capacity of the channel and every MaxRetries.                     *)
(***************************************************************************)
EXTENDS WebhookDispatcher, FiniteSetTheorems, TLAPS

--------------------------------------------------------------------------------
(* The channel as a sequence. *)

\* A send puts the job behind the others.
LEMMA AppendJob ==
    ASSUME NEW q \in Seq(Job), NEW j \in Job
    PROVE  /\ Append(q, j) \in Seq(Job)
           /\ Len(Append(q, j)) = Len(q) + 1
           /\ \A i \in 1..Len(q) : Append(q, j)[i] = q[i]
           /\ Append(q, j)[Len(q) + 1] = j
OBVIOUS

\* A receive takes the first job and moves the others up by one.
LEMMA TailJobs ==
    ASSUME NEW q \in Seq(Job), q # <<>>
    PROVE  /\ Len(q) \in Nat \ {0}
           /\ Head(q) = q[1]
           /\ Head(q) \in Job
           /\ Tail(q) \in Seq(Job)
           /\ Len(Tail(q)) = Len(q) - 1
           /\ \A i \in 1..Len(Tail(q)) : Tail(q)[i] = q[i + 1]
OBVIOUS

--------------------------------------------------------------------------------
(* Types and the capacity of the channel. *)

\* The two outcomes of a non-blocking send keep the types.
LEMMA OfferTyping ==
    ASSUME TypeOK, NEW j \in Job, Offer(j)
    PROVE  /\ queue' \in Seq(Job)
           /\ Len(queue') <= QueueCap
           /\ posts' \in [Job -> Nat]
           /\ answer' \in [Job -> {"none", "ok"} \cup Failures]
           /\ row' \in [Job -> [code : {"none", "ok"} \cup Failures, attempts : Nat]]
<1>1. CASE HasRoom /\ queue' = Append(queue, j)
              /\ posts' = [posts EXCEPT ![j] = 0]
              /\ answer' = [answer EXCEPT ![j] = "none"]
              /\ row' = [row EXCEPT ![j] = NoRow]
  <2>1. /\ queue' \in Seq(Job)
        /\ Len(queue') = Len(queue) + 1
    BY <1>1, AppendJob DEF TypeOK
  <2>2. Len(queue') <= QueueCap
    BY <1>1, <2>1, DispatcherAssumption DEF TypeOK, HasRoom
  <2>3. /\ posts' \in [Job -> Nat]
        /\ answer' \in [Job -> {"none", "ok"} \cup Failures]
        /\ row' \in [Job -> [code : {"none", "ok"} \cup Failures, attempts : Nat]]
    BY <1>1 DEF TypeOK, NoRow
  <2> QED BY <2>1, <2>2, <2>3
<1>2. CASE UNCHANGED <<queue, history>>
  BY <1>2 DEF TypeOK, history
<1> QED BY <1>1, <1>2 DEF Offer

\* So do the outcome of a POST and its row.
LEMMA PostTyping ==
    ASSUME TypeOK, NEW w \in Workers, NEW a \in Failures \cup {"ok"},
           Answered(w, a), LogWebhook(w, a) \/ UNCHANGED row
    PROVE  /\ posts' \in [Job -> Nat]
           /\ answer' \in [Job -> {"none", "ok"} \cup Failures]
           /\ row' \in [Job -> [code : {"none", "ok"} \cup Failures, attempts : Nat]]
<1>1. posts' \in [Job -> Nat]
  <2>1. \A j \in Job : posts[j] + 1 \in Nat
    BY DEF TypeOK
  <2> QED BY <2>1 DEF TypeOK, Answered
<1>2. answer' \in [Job -> {"none", "ok"} \cup Failures]
  BY DEF TypeOK, Answered
<1>3. [code |-> a, attempts |-> attempt[w] + 1]
          \in [code : {"none", "ok"} \cup Failures, attempts : Nat]
  BY DEF TypeOK
<1>4. row' \in [Job -> [code : {"none", "ok"} \cup Failures, attempts : Nat]]
  BY <1>3 DEF TypeOK, LogWebhook
<1> QED BY <1>1, <1>2, <1>4

\* Every value a variable takes has its type, and the channel never holds more
\* jobs than its capacity.
THEOREM TypeCorrect == Spec => []TypeOK
<1>0. Added \in Int
  BY FS_CardinalityType, DispatcherAssumption DEF Added
<1>1. Init => TypeOK
  BY <1>0, DispatcherAssumption DEF Init, TypeOK, NoRow
<1>2. TypeOK /\ [Next]_vars => TypeOK'
  <2> SUFFICES ASSUME TypeOK, [Next]_vars PROVE TypeOK'
    OBVIOUS
  <2>1. ASSUME NEW e \in Events, DispatchInstance(e) PROVE TypeOK'
    <3>1. <<e, "instance">> \in Job
      BY DEF Job, Dests
    <3>2. CASE Offer(<<e, "instance">>)
      BY <2>1, <3>1, <3>2, OfferTyping DEF DispatchInstance, Dispatch, workerVars, TypeOK
    <3>3. CASE UNCHANGED <<queue, history>>
      BY <2>1, <3>3 DEF DispatchInstance, Dispatch, workerVars, history, TypeOK
    <3> QED BY <2>1, <3>2, <3>3 DEF DispatchInstance, Dispatch, NoInstanceURL
  <2>2. ASSUME NEW e \in Events, DispatchGlobal(e) PROVE TypeOK'
    <3>1. <<e, "global">> \in Job
      BY DEF Job, Dests
    <3>2. CASE Offer(<<e, "global">>)
      BY <2>2, <3>1, <3>2, OfferTyping DEF DispatchGlobal, workerVars, TypeOK
    <3>3. CASE UNCHANGED <<queue, history>>
      BY <2>2, <3>3 DEF DispatchGlobal, workerVars, history, TypeOK
    <3> QED BY <2>2, <3>2, <3>3 DEF DispatchGlobal
  <2>3. ASSUME NEW w \in Workers, TakeJob(w) PROVE TypeOK'
    <3>1. /\ queue' \in Seq(Job)
          /\ Len(queue') <= QueueCap
          /\ Head(queue) \in Job
      BY <2>3, TailJobs, DispatcherAssumption DEF TakeJob, TypeOK
    <3>2. /\ pc' \in [Workers -> {"idle", "posting", "backoff", "done"}]
          /\ job' \in [Workers -> Job \cup {NoJob}]
          /\ attempt' \in [Workers -> Nat]
      BY <2>3, <3>1 DEF TakeJob, Rest, TypeOK
    <3> QED BY <2>3, <3>1, <3>2 DEF TakeJob, history, TypeOK
  <2>4. ASSUME NEW w \in Workers, PostSucceeds(w) PROVE TypeOK'
    BY <2>4, PostTyping DEF PostSucceeds, Rest, TypeOK
  <2>5. ASSUME NEW w \in Workers, NEW a \in Failures, PostFails(w, a) PROVE TypeOK'
    BY <2>5, PostTyping DEF PostFails, Rest, TypeOK
  <2>6. ASSUME NEW w \in Workers, IndexPanic(w) \/ Retry(w) \/ Abandon(w) \/ WorkerExit(w)
        PROVE  TypeOK'
    <3>1. CASE IndexPanic(w)
      BY <3>1 DEF IndexPanic, workerVars, history, TypeOK
    <3>2. CASE Retry(w)
      BY <3>2 DEF Retry, NextAttempt, history, TypeOK
    <3>3. CASE Abandon(w)
      BY <3>3 DEF Abandon, Rest, history, TypeOK
    <3>4. CASE WorkerExit(w)
      BY <3>4 DEF WorkerExit, history, TypeOK
    <3> QED BY <2>6, <3>1, <3>2, <3>3, <3>4
  <2>7. CASE StopBegin \/ StopReturns \/ CloseDB \/ Kill
    BY <2>7 DEF StopBegin, StopReturns, CloseDB, Kill, workerVars, history, TypeOK
  <2>8. CASE Restart
    BY <1>0, <2>8, DispatcherAssumption DEF Restart, history, TypeOK
  <2>9. CASE UNCHANGED vars
    BY <2>9 DEF vars, workerVars, history, TypeOK
  <2>10. ASSUME NEW E \in SUBSET Events, InstanceDeleted(E) PROVE TypeOK'
    <3>1. row' \in [Job -> [code : {"none", "ok"} \cup Failures, attempts : Nat]]
      BY <2>10 DEF InstanceDeleted, TypeOK, NoRow
    <3> QED BY <2>10, <3>1 DEF InstanceDeleted, workerVars, TypeOK
  <2> QED
    BY <2>1, <2>2, <2>3, <2>4, <2>5, <2>6, <2>7, <2>8, <2>9, <2>10 DEF Next, Post
<1> QED BY <1>1, <1>2, PTL DEF Spec

--------------------------------------------------------------------------------
(* The inductive invariant: where the jobs are and what was done for each. *)

IInv == TypeOK /\ JobsAccounted /\ LogIsTruth

\* Nothing is held when the channel is empty and no worker has a job.
LEMMA NothingHeld ==
    ASSUME queue = <<>>, job = [w \in Workers |-> NoJob], NEW j \in Job
    PROVE  ~Held(j)
BY DispatcherAssumption DEF Held, InQueue, InHand

\* A worker that puts its job down holds nothing, the others what they held.
LEMMA PutDown ==
    ASSUME TypeOK, OnePlace, NEW w \in Workers, job[w] \in Job,
           job' = [job EXCEPT ![w] = NoJob], queue' = queue, NEW j \in Job
    PROVE  /\ InQueue(j)' <=> InQueue(j)
           /\ InHand(j)' <=> InHand(j) /\ j # job[w]
           /\ Held(j)' <=> Held(j) /\ j # job[w]
<1>1. InQueue(j)' <=> InQueue(j)
  BY DEF InQueue
<1>2. InHand(j)' => InHand(j) /\ j # job[w]
  BY DispatcherAssumption DEF InHand, TypeOK, OnePlace
<1>3. InHand(j) /\ j # job[w] => InHand(j)'
  BY DEF InHand, TypeOK
<1>4. InQueue(j) => j # job[w]
  BY DEF OnePlace
<1> QED BY <1>1, <1>2, <1>3, <1>4 DEF Held

\* A send that finds room adds its job to the channel and changes nothing else.
LEMMA Sent ==
    ASSUME TypeOK, NEW j \in Job, queue' = Append(queue, j), job' = job, NEW k \in Job
    PROVE  /\ InQueue(k)' <=> InQueue(k) \/ k = j
           /\ InHand(k)' <=> InHand(k)
           /\ Held(k)' <=> Held(k) \/ k = j
<1>1. /\ Len(queue) \in Nat
      /\ Len(queue') = Len(queue) + 1
      /\ \A i \in 1..Len(queue) : queue'[i] = queue[i]
      /\ queue'[Len(queue) + 1] = j
  BY AppendJob DEF TypeOK
<1>2. InQueue(k)' => InQueue(k) \/ k = j
  BY <1>1 DEF InQueue
<1>3. InQueue(k) \/ k = j => InQueue(k)'
  BY <1>1 DEF InQueue
<1>4. InHand(k)' <=> InHand(k)
  BY DEF InHand
<1> QED BY <1>2, <1>3, <1>4 DEF Held

\* A receive takes the first job out of the channel.
LEMMA Received ==
    ASSUME TypeOK, OnePlace, queue # <<>>, queue' = Tail(queue), NEW k \in Job
    PROVE  InQueue(k)' <=> InQueue(k) /\ k # Head(queue)
<1>1. /\ Len(queue) \in Nat \ {0}
      /\ Head(queue) = queue[1]
      /\ Len(queue') = Len(queue) - 1
      /\ \A i \in 1..Len(queue') : queue'[i] = queue[i + 1]
  BY TailJobs DEF TypeOK
<1>2. ASSUME NEW i \in 1..Len(queue'), queue'[i] = k
      PROVE  InQueue(k) /\ k # Head(queue)
  <2>1. /\ i + 1 \in 1..Len(queue)
        /\ 1 \in 1..Len(queue)
        /\ i + 1 # 1
        /\ queue[i + 1] = k
    BY <1>1, <1>2
  <2> QED BY <1>1, <2>1 DEF InQueue, OnePlace
<1>3. ASSUME NEW i \in 1..Len(queue), queue[i] = k, k # Head(queue)
      PROVE  InQueue(k)'
  <2>1. /\ i - 1 \in 1..Len(queue')
        /\ queue'[i - 1] = k
    BY <1>1, <1>3
  <2> QED BY <2>1 DEF InQueue
<1> QED BY <1>2, <1>3 DEF InQueue

--------------------------------------------------------------------------------
(* Each action keeps the invariant. *)

\* A step that moves no job and records nothing.
LEMMA SameJobs ==
    ASSUME IInv, UNCHANGED <<queue, workerVars, history>>
    PROVE  /\ OnePlace' /\ BusyWithJob' /\ NewUntilSent' /\ LoopCountsPosts'
           /\ LogIsTruth'
           /\ \A k : Held(k)' <=> Held(k)
<1>1. \A k : /\ InQueue(k)' <=> InQueue(k)
             /\ Held(k)' <=> Held(k)
  BY DEF InQueue, InHand, Held, workerVars
<1> QED
  BY <1>1 DEF IInv, JobsAccounted, workerVars, history, OnePlace, BusyWithJob,
              NewUntilSent, LoopCountsPosts, LogIsTruth

\* A send, which may also find no room, of a job that nothing holds.
LEMMA OfferKeeps ==
    ASSUME IInv, NEW j \in Job, ~Held(j), Offer(j), UNCHANGED workerVars
    PROVE  /\ OnePlace' /\ BusyWithJob' /\ NewUntilSent' /\ LoopCountsPosts'
           /\ LogIsTruth'
           /\ \A k \in Job : Held(k)' => Held(k) \/ k = j
<1> USE DEF IInv, JobsAccounted
<1>1. CASE UNCHANGED <<queue, history>>
  BY <1>1, SameJobs
<1>2. CASE /\ queue' = Append(queue, j)
           /\ posts' = [posts EXCEPT ![j] = 0]
           /\ answer' = [answer EXCEPT ![j] = "none"]
           /\ row' = [row EXCEPT ![j] = NoRow]
  <2>1. UNCHANGED <<pc, job, attempt>>
    BY DEF workerVars
  <2>2. \A k \in Job : /\ InQueue(k)' <=> InQueue(k) \/ k = j
                       /\ Held(k)' <=> Held(k) \/ k = j
    BY <1>2, <2>1, Sent
  <2>3. /\ Len(queue) \in Nat
        /\ Len(queue') = Len(queue) + 1
        /\ \A i \in 1..Len(queue) : queue'[i] = queue[i]
        /\ queue'[Len(queue) + 1] = j
    BY <1>2, AppendJob DEF TypeOK
  <2>4. \A i \in 1..Len(queue) : queue[i] # j
    BY DEF Held, InQueue
  <2>5. \A w \in Workers : job[w] # j
    BY DEF Held, InHand
  <2>6. OnePlace'
    <3>1. ASSUME NEW i \in 1..Len(queue'), NEW k \in 1..Len(queue'), queue'[i] = queue'[k]
          PROVE  i = k
      <4>1. /\ i \in 1..Len(queue) \/ i = Len(queue) + 1
            /\ k \in 1..Len(queue) \/ k = Len(queue) + 1
        BY <2>3
      <4> QED BY <2>3, <2>4, <3>1, <4>1 DEF OnePlace
    <3>2. ASSUME NEW w \in Workers PROVE ~InQueue(job[w])'
      <4>1. ASSUME NEW i \in 1..Len(queue') PROVE queue'[i] # job[w]
        <5>1. i \in 1..Len(queue) \/ i = Len(queue) + 1
          BY <2>3
        <5>2. \A k \in 1..Len(queue) : queue[k] # job[w]
          BY DEF OnePlace, InQueue
        <5> QED BY <2>3, <2>5, <5>1, <5>2
      <4> QED BY <2>1, <4>1 DEF InQueue
    <3> QED BY <2>1, <3>1, <3>2 DEF OnePlace
  <2>7. BusyWithJob'
    BY <2>1 DEF BusyWithJob
  <2>8. NewUntilSent'
    BY <1>2, <2>2 DEF NewUntilSent, TypeOK
  <2>9. LoopCountsPosts'
    <3>1. \A w \in Workers : posts'[job[w]] = posts[job[w]]
      BY <1>2, <2>5 DEF TypeOK
    <3> QED BY <2>1, <3>1 DEF LoopCountsPosts
  <2>10. LogIsTruth'
    BY <1>2, <2>2 DEF LogIsTruth, TypeOK
  <2> QED BY <2>2, <2>6, <2>7, <2>8, <2>9, <2>10
<1> QED BY <1>1, <1>2 DEF Offer

\* The first select of Dispatch, or no instance job at all.
LEMMA DispatchInstanceKeeps ==
    ASSUME IInv, TypeOK', NEW e \in Events, DispatchInstance(e)
    PROVE  IInv'
<1>1. <<e, "instance">> \in Job /\ <<e, "global">> \in Job
  BY DEF Job, Dests
<1>2. ~Held(<<e, "instance">>) /\ ~Held(<<e, "global">>)
  BY DEF DispatchInstance, Dispatch, Dests
<1>3. calls' = [calls EXCEPT ![e] = "global"] /\ UNCHANGED workerVars
  BY DEF DispatchInstance, Dispatch
<1>4. CASE Offer(<<e, "instance">>)
  <2>1. /\ OnePlace' /\ BusyWithJob' /\ NewUntilSent' /\ LoopCountsPosts'
        /\ LogIsTruth'
        /\ \A k \in Job : Held(k)' => Held(k) \/ k = <<e, "instance">>
    BY <1>1, <1>2, <1>3, <1>4, OfferKeeps
  <2>2. GlobalToCome'
    <3>1. ASSUME NEW f \in Events, calls'[f] = "global" PROVE ~Held(<<f, "global">>)'
      <4>1. <<f, "global">> \in Job /\ <<f, "global">> # <<e, "instance">>
        BY DEF Job, Dests
      <4>2. ~Held(<<f, "global">>)
        BY <1>2, <1>3, <3>1 DEF IInv, TypeOK, JobsAccounted, GlobalToCome
      <4> QED BY <2>1, <4>1, <4>2
    <3> QED BY <3>1 DEF GlobalToCome
  <2> QED BY <2>1, <2>2 DEF IInv, JobsAccounted
<1>5. CASE UNCHANGED <<queue, history>>
  <2>1. /\ OnePlace' /\ BusyWithJob' /\ NewUntilSent' /\ LoopCountsPosts'
        /\ LogIsTruth'
        /\ \A k : Held(k)' <=> Held(k)
    BY <1>3, <1>5, SameJobs
  <2>2. GlobalToCome'
    BY <1>2, <1>3, <2>1 DEF IInv, TypeOK, JobsAccounted, GlobalToCome
  <2> QED BY <2>1, <2>2 DEF IInv, JobsAccounted
<1> QED BY <1>4, <1>5 DEF DispatchInstance, Dispatch, NoInstanceURL

\* The second select, of a job nothing can hold yet.
LEMMA DispatchGlobalKeeps ==
    ASSUME IInv, TypeOK', NEW e \in Events, DispatchGlobal(e)
    PROVE  IInv'
<1>1. <<e, "global">> \in Job
  BY DEF Job, Dests
<1>2. ~Held(<<e, "global">>)
  BY DEF DispatchGlobal, IInv, JobsAccounted, GlobalToCome
<1>3. calls' = [calls EXCEPT ![e] = "idle"] /\ UNCHANGED workerVars
  BY DEF DispatchGlobal
<1>4. CASE Offer(<<e, "global">>)
  <2>1. /\ OnePlace' /\ BusyWithJob' /\ NewUntilSent' /\ LoopCountsPosts'
        /\ LogIsTruth'
        /\ \A k \in Job : Held(k)' => Held(k) \/ k = <<e, "global">>
    BY <1>1, <1>2, <1>3, <1>4, OfferKeeps
  <2>2. GlobalToCome'
    <3>1. ASSUME NEW f \in Events, calls'[f] = "global" PROVE ~Held(<<f, "global">>)'
      <4>1. f # e /\ calls[f] = "global"
        BY <1>3, <3>1 DEF IInv, TypeOK
      <4>2. <<f, "global">> \in Job /\ <<f, "global">> # <<e, "global">>
        BY <4>1 DEF Job, Dests
      <4> QED BY <2>1, <4>1, <4>2 DEF IInv, JobsAccounted, GlobalToCome
    <3> QED BY <3>1 DEF GlobalToCome
  <2> QED BY <2>1, <2>2 DEF IInv, JobsAccounted
<1>5. CASE UNCHANGED <<queue, history>>
  <2>1. /\ OnePlace' /\ BusyWithJob' /\ NewUntilSent' /\ LoopCountsPosts'
        /\ LogIsTruth'
        /\ \A k : Held(k)' <=> Held(k)
    BY <1>3, <1>5, SameJobs
  <2>2. GlobalToCome'
    BY <1>3, <2>1 DEF IInv, TypeOK, JobsAccounted, GlobalToCome
  <2> QED BY <2>1, <2>2 DEF IInv, JobsAccounted
<1> QED BY <1>4, <1>5 DEF DispatchGlobal

\* A receive: the job moves from the channel to the worker, its history still
\* empty, or is forgotten when MaxRetries is negative.
LEMMA TakeJobKeeps ==
    ASSUME IInv, TypeOK', NEW w \in Workers, TakeJob(w)
    PROVE  IInv'
<1> USE DEF IInv, JobsAccounted
<1> DEFINE h == Head(queue)
<1>1. h \in Job /\ InQueue(h)
  BY TailJobs DEF TakeJob, TypeOK, InQueue
<1>2. \A k \in Job : InQueue(k)' <=> InQueue(k) /\ k # h
  BY Received DEF TakeJob
<1>3. /\ posts[h] = 0 /\ row[h] = NoRow
      /\ \A v \in Workers : job[v] # h
  BY <1>1 DEF NewUntilSent, Held, OnePlace
<1>4. /\ Len(queue) \in Nat
      /\ Len(queue') = Len(queue) - 1
      /\ \A i \in 1..Len(queue') : queue'[i] = queue[i + 1]
  BY TailJobs DEF TakeJob, TypeOK
<1>5. job[w] = NoJob
  BY DEF TakeJob, BusyWithJob
<1>6. \A i, k \in 1..Len(queue') : queue'[i] = queue'[k] => i = k
  <2>1. ASSUME NEW i \in 1..Len(queue'), NEW k \in 1..Len(queue'), queue'[i] = queue'[k]
        PROVE  i = k
    <3>1. /\ i + 1 \in 1..Len(queue)
          /\ k + 1 \in 1..Len(queue)
          /\ queue[i + 1] = queue[k + 1]
      BY <1>4, <2>1
    <3> QED BY <1>4, <3>1 DEF OnePlace
  <2> QED BY <2>1
<1>7. \A i \in 1..Len(queue') : \A v \in Workers : queue'[i] # h /\ queue'[i] # job[v]
  <2>1. ASSUME NEW i \in 1..Len(queue')
        PROVE  i + 1 \in 1..Len(queue) /\ 1 \in 1..Len(queue) /\ i + 1 # 1
    BY <1>4
  <2>2. h = queue[1]
    BY TailJobs DEF TakeJob, TypeOK
  <2> QED BY <1>4, <2>1, <2>2 DEF OnePlace, InQueue
<1>8. UNCHANGED <<main, calls, posts, answer, row>>
  BY DEF TakeJob, history
<1>9. CASE pc' = [pc EXCEPT ![w] = "posting"] /\ job' = [job EXCEPT ![w] = h] /\ LoopRuns
  <2>1. \A k \in Job : /\ InHand(k)' <=> InHand(k) \/ k = h
                       /\ Held(k)' <=> Held(k)
    <3>1. ASSUME NEW k \in Job PROVE InHand(k)' <=> InHand(k) \/ k = h
      BY <1>5, <1>9, DispatcherAssumption DEF InHand, TypeOK
    <3> QED BY <1>1, <1>2, <3>1 DEF Held
  <2>2. OnePlace'
    <3>1. \A v, u \in Workers : job'[v] = job'[u] /\ job'[v] # NoJob => v = u
      BY <1>3, <1>9 DEF OnePlace, TypeOK
    <3>2. \A v \in Workers : job'[v] = h \/ job'[v] = job[v]
      BY <1>9 DEF TypeOK
    <3>3. \A v \in Workers : ~InQueue(job[v])'
      BY <1>7, <3>2 DEF InQueue
    <3> QED BY <1>6, <3>1, <3>3 DEF OnePlace
  <2>3. BusyWithJob'
    BY <1>1, <1>9, DispatcherAssumption DEF BusyWithJob, TypeOK
  <2>4. NewUntilSent'
    BY <1>2, <1>8, <2>1 DEF NewUntilSent
  <2>5. LoopCountsPosts'
    BY <1>3, <1>8, <1>9 DEF LoopCountsPosts, TakeJob, LoopRuns, TypeOK
  <2>6. GlobalToCome'
    BY <1>8, <2>1 DEF GlobalToCome, Job, Dests
  <2>7. LogIsTruth'
    BY <1>8, <2>1 DEF LogIsTruth
  <2> QED BY <2>2, <2>3, <2>4, <2>5, <2>6, <2>7
<1>10. CASE Rest(w)
  <2>1. UNCHANGED <<pc, job>>
    BY <1>5, <1>10 DEF Rest, TakeJob, TypeOK
  <2>2. \A k \in Job : InHand(k)' <=> InHand(k)
    BY <2>1 DEF InHand
  <2>3. \A k \in Job : Held(k)' <=> Held(k) /\ k # h
    BY <1>2, <1>3, <2>2 DEF Held, InHand
  <2>4. OnePlace'
    <3>1. \A v \in Workers : ~InQueue(job[v])'
      BY <1>7, <2>1 DEF InQueue
    <3> QED BY <1>6, <2>1, <3>1 DEF OnePlace
  <2>5. BusyWithJob'
    BY <2>1 DEF BusyWithJob
  <2>6. NewUntilSent'
    BY <1>2, <1>8, <2>3 DEF NewUntilSent
  <2>7. LoopCountsPosts'
    BY <1>8, <1>10, <2>1 DEF LoopCountsPosts, Rest, TakeJob, TypeOK
  <2>8. GlobalToCome'
    BY <1>8, <2>3 DEF GlobalToCome, Job, Dests
  <2>9. LogIsTruth'
    BY <1>3, <1>8, <2>3 DEF LogIsTruth
  <2> QED BY <2>4, <2>5, <2>6, <2>7, <2>8, <2>9
<1> QED BY <1>9, <1>10 DEF TakeJob

\* What a worker that is not idle knows of its job.
LEMMA BusyWorker ==
    ASSUME IInv, NEW w \in Workers, pc[w] \in {"posting", "backoff"}
    PROVE  /\ job[w] \in Job
           /\ Held(job[w])
           /\ row[job[w]] = NoRow
           /\ \A v \in Workers \ {w} : job[v] # job[w]
           /\ ~InQueue(job[w])
<1>1. job[w] \in Job
  BY DEF IInv, TypeOK, JobsAccounted, BusyWithJob
<1>2. Held(job[w])
  BY DEF Held, InHand
<1>3. job[w] # NoJob
  BY <1>1, DispatcherAssumption
<1> QED
  BY <1>1, <1>2, <1>3 DEF IInv, JobsAccounted, OnePlace, NewUntilSent

\* The worker is done with its job, after a POST or without one: either nothing
\* is recorded, or the POST that ended it is.
LEMMA FinishKeeps ==
    ASSUME IInv, NEW w \in Workers, pc[w] \in {"posting", "backoff"}, Rest(w),
           UNCHANGED <<calls, queue, attempt>>,
           \/ UNCHANGED history
           \/ \E a \in Failures \cup {"ok"} :
                  /\ pc[w] = "posting"
                  /\ a = "ok" \/ ~TriesLeft(w)
                  /\ Answered(w, a)
                  /\ LogWebhook(w, a)
    PROVE  JobsAccounted' /\ LogIsTruth'
<1> USE DEF IInv, JobsAccounted
<1> DEFINE j == job[w]
<1>1. /\ j \in Job
      /\ row[j] = NoRow
      /\ \A v \in Workers \ {w} : job[v] # j
      /\ ~InQueue(j)
  BY BusyWorker
<1>2. /\ pc' = [pc EXCEPT ![w] = "idle"]
      /\ job' = [job EXCEPT ![w] = NoJob]
  BY DEF Rest
<1>3. \A k \in Job : /\ InQueue(k)' <=> InQueue(k)
                     /\ Held(k)' <=> Held(k) /\ k # j
  BY <1>1, <1>2, PutDown
<1>4. \A k \in Job : k # j => posts'[k] = posts[k] /\ answer'[k] = answer[k] /\ row'[k] = row[k]
  <2>1. CASE UNCHANGED history
    BY <2>1 DEF history
  <2>2. CASE \E a \in Failures \cup {"ok"} : Answered(w, a) /\ LogWebhook(w, a)
    BY <2>2 DEF Answered, LogWebhook, TypeOK
  <2> QED BY <2>1, <2>2
<1>5. OnePlace'
  <2>1. \A v \in Workers : job'[v] = job[v] \/ job'[v] = NoJob
    BY <1>2 DEF TypeOK
  <2>2. \A v \in Workers : ~InQueue(job[v])'
    BY <2>1, DispatcherAssumption DEF OnePlace, InQueue, TypeOK
  <2>3. \A v, u \in Workers : job'[v] = job'[u] /\ job'[v] # NoJob => v = u
    BY <1>2 DEF OnePlace, TypeOK
  <2> QED BY <2>2, <2>3 DEF OnePlace
<1>6. BusyWithJob'
  BY <1>2 DEF BusyWithJob, TypeOK
<1>7. NewUntilSent'
  <2>1. \A k \in Job : InQueue(k) => k # j
    BY <1>1
  <2> QED BY <1>3, <1>4, <2>1 DEF NewUntilSent
<1>8. LoopCountsPosts'
  <2>1. ASSUME NEW v \in Workers, pc'[v] \in {"posting", "backoff"}
        PROVE  /\ pc'[v] = pc[v] /\ job'[v] = job[v] /\ attempt'[v] = attempt[v]
               /\ posts'[job[v]] = posts[job[v]]
    <3>1. v # w /\ pc'[v] = pc[v] /\ job'[v] = job[v]
      BY <1>2, <2>1 DEF TypeOK
    <3>2. job[v] \in Job /\ job[v] # j
      BY <1>1, <2>1, <3>1, BusyWorker
    <3> QED BY <1>4, <3>1, <3>2
  <2> QED BY <2>1 DEF LoopCountsPosts
<1>9. GlobalToCome'
  BY <1>3 DEF GlobalToCome, Job, Dests
<1>10. LogIsTruth'
  <2>1. CASE UNCHANGED history
    BY <1>1, <1>3, <2>1 DEF LogIsTruth, history
  <2>2. ASSUME NEW a \in Failures \cup {"ok"}, pc[w] = "posting", a = "ok" \/ ~TriesLeft(w),
               Answered(w, a), LogWebhook(w, a)
        PROVE  LogIsTruth'
    <3>1. /\ posts[j] = attempt[w] /\ attempt[w] \in Nat /\ attempt[w] <= MaxRetries
      BY <2>2 DEF LoopCountsPosts, TypeOK
    <3>2. /\ posts'[j] = attempt[w] + 1 /\ answer'[j] = a
          /\ row'[j] = [code |-> a, attempts |-> attempt[w] + 1] \/ row'[j] = NoRow
      BY <1>1, <2>2, <3>1 DEF Answered, LogWebhook, TypeOK
    <3>3. a = "ok" \/ posts'[j] = Attempts
      BY <2>2, <3>1, <3>2, DispatcherAssumption DEF TriesLeft, Attempts
    <3> HIDE DEF j
    <3>4. ASSUME NEW k \in Job, row'[k] # NoRow
          PROVE  /\ ~Held(k)'
                 /\ row'[k] = [code |-> answer'[k], attempts |-> posts'[k]]
                 /\ answer'[k] = "ok" \/ posts'[k] = Attempts
      <4>1. CASE k = j
        BY <1>3, <3>2, <3>3, <3>4, <4>1
      <4>2. CASE k # j
        BY <1>3, <1>4, <3>4, <4>2 DEF LogIsTruth
      <4> QED BY <4>1, <4>2
    <3> QED BY <3>4 DEF LogIsTruth
  <2> QED BY <2>1, <2>2
<1> QED BY <1>5, <1>6, <1>7, <1>8, <1>9, <1>10

\* A failed POST with a try left, and the end of the backoff after it.
LEMMA BackoffKeeps ==
    ASSUME IInv, TypeOK', NEW w \in Workers, UNCHANGED <<main, calls, queue, job>>,
           \/ \E a \in Failures :
                  /\ pc[w] = "posting" /\ TriesLeft(w) /\ Answered(w, a)
                  /\ pc' = [pc EXCEPT ![w] = "backoff"]
                  /\ UNCHANGED <<attempt, row>>
           \/ /\ pc[w] = "backoff"
              /\ pc' = [pc EXCEPT ![w] = "posting"]
              /\ attempt' = [attempt EXCEPT ![w] = @ + 1]
              /\ UNCHANGED history
    PROVE  IInv'
<1> USE DEF IInv, JobsAccounted
<1>1. /\ job[w] \in Job
      /\ Held(job[w])
      /\ row[job[w]] = NoRow
      /\ \A v \in Workers \ {w} : job[v] # job[w]
      /\ ~InQueue(job[w])
  BY BusyWorker
<1>2. \A k : /\ InQueue(k)' <=> InQueue(k)
             /\ Held(k)' <=> Held(k)
  BY DEF InQueue, InHand, Held
<1>3. /\ row' = row
      /\ \A k \in Job \ {job[w]} : posts'[k] = posts[k] /\ answer'[k] = answer[k]
      /\ \A v \in Workers \ {w} : pc'[v] = pc[v] /\ attempt'[v] = attempt[v]
      /\ pc'[w] \in {"posting", "backoff"}
  BY DEF Answered, history, TypeOK
<1>4. OnePlace' /\ GlobalToCome'
  BY <1>2 DEF OnePlace, InQueue, GlobalToCome
<1>5. BusyWithJob'
  BY <1>3 DEF BusyWithJob, TypeOK
<1>6. NewUntilSent' /\ LogIsTruth'
  BY <1>1, <1>2, <1>3 DEF NewUntilSent, LogIsTruth
<1>7. LoopCountsPosts'
  <2>1. ASSUME NEW v \in Workers, v # w, pc[v] \in {"posting", "backoff"}
        PROVE  posts'[job[v]] = posts[job[v]]
    BY <1>1, <1>3, <2>1, BusyWorker
  <2>2. /\ pc'[w] = "posting" => attempt'[w] <= MaxRetries /\ posts'[job[w]] = attempt'[w]
        /\ pc'[w] = "backoff" => attempt'[w] < MaxRetries /\ posts'[job[w]] = attempt'[w] + 1
    BY <1>1, DispatcherAssumption
       DEF LoopCountsPosts, TriesLeft, Answered, history, TypeOK
  <2> QED BY <1>3, <2>1, <2>2 DEF LoopCountsPosts
<1> QED BY <1>4, <1>5, <1>6, <1>7

\* A POST, whatever its outcome.
LEMMA PostKeeps ==
    ASSUME IInv, TypeOK', NEW w \in Workers, Post(w)
    PROVE  IInv'
<1>1. UNCHANGED <<main, calls, queue, attempt>> /\ pc[w] = "posting"
  BY DEF Post, PostSucceeds, PostFails
<1>2. CASE PostSucceeds(w)
  BY <1>1, <1>2, FinishKeeps DEF PostSucceeds, IInv
<1>3. ASSUME NEW a \in Failures, PostFails(w, a) PROVE IInv'
  <2>1. CASE TriesLeft(w) /\ pc' = [pc EXCEPT ![w] = "backoff"] /\ UNCHANGED <<job, row>>
    BY <1>1, <1>3, <2>1, BackoffKeeps DEF PostFails
  <2>2. CASE ~TriesLeft(w) /\ LogWebhook(w, a) /\ Rest(w)
    BY <1>1, <1>3, <2>2, FinishKeeps DEF PostFails, IInv
  <2> QED BY <1>3, <2>1, <2>2 DEF PostFails
<1> QED BY <1>2, <1>3 DEF Post

\* The rest of a worker's steps.
LEMMA WorkerKeeps ==
    ASSUME IInv, TypeOK', NEW w \in Workers,
           IndexPanic(w) \/ Retry(w) \/ Abandon(w) \/ WorkerExit(w)
    PROVE  IInv'
<1>1. CASE IndexPanic(w)
  BY <1>1, SameJobs DEF IndexPanic, workerVars, IInv, JobsAccounted, GlobalToCome
<1>2. CASE Retry(w)
  BY <1>2, BackoffKeeps DEF Retry, NextAttempt
<1>3. CASE Abandon(w)
  BY <1>3, FinishKeeps DEF Abandon, IInv
<1>4. CASE WorkerExit(w)
  <2>1. \A k : /\ InQueue(k)' <=> InQueue(k)
               /\ Held(k)' <=> Held(k)
    BY <1>4 DEF WorkerExit, InQueue, InHand, Held
  <2>2. OnePlace' /\ NewUntilSent' /\ GlobalToCome' /\ LogIsTruth'
    BY <1>4, <2>1 DEF WorkerExit, history, IInv, JobsAccounted, OnePlace, InQueue,
                      NewUntilSent, GlobalToCome, LogIsTruth
  <2>3. BusyWithJob' /\ LoopCountsPosts'
    BY <1>4 DEF WorkerExit, history, IInv, TypeOK, JobsAccounted, BusyWithJob,
                LoopCountsPosts
  <2> QED BY <2>2, <2>3 DEF IInv, JobsAccounted
<1> QED BY <1>1, <1>2, <1>3, <1>4

\* Rows are deleted, and nothing else.
LEMMA DeletionKeeps ==
    ASSUME IInv, TypeOK', NEW E \in SUBSET Events, InstanceDeleted(E)
    PROVE  IInv'
<1>1. /\ UNCHANGED <<calls, queue, pc, job, attempt, posts, answer>>
      /\ \A j \in Job : row'[j] = row[j] \/ row'[j] = NoRow
  BY DEF InstanceDeleted, workerVars
<1>2. \A k : /\ InQueue(k)' <=> InQueue(k)
             /\ Held(k)' <=> Held(k)
  BY <1>1 DEF InQueue, InHand, Held
<1>3. OnePlace' /\ BusyWithJob' /\ LoopCountsPosts' /\ GlobalToCome'
  BY <1>1, <1>2 DEF IInv, JobsAccounted, OnePlace, BusyWithJob, LoopCountsPosts,
                    GlobalToCome
<1>4. NewUntilSent' /\ LogIsTruth'
  BY <1>1, <1>2 DEF IInv, JobsAccounted, NewUntilSent, LogIsTruth
<1> QED BY <1>3, <1>4 DEF IInv, JobsAccounted

\* The steps of main that leave the pool alone.
LEMMA MainKeeps ==
    ASSUME IInv, TypeOK', StopBegin \/ StopReturns \/ CloseDB \/ Kill
    PROVE  IInv'
<1>1. UNCHANGED <<calls, queue, workerVars, history>>
  BY DEF StopBegin, StopReturns, CloseDB, Kill
<1>2. /\ OnePlace' /\ BusyWithJob' /\ NewUntilSent' /\ LoopCountsPosts'
      /\ LogIsTruth'
      /\ \A k : Held(k)' <=> Held(k)
  BY <1>1, SameJobs
<1>3. GlobalToCome'
  BY <1>1, <1>2 DEF IInv, JobsAccounted, GlobalToCome
<1> QED BY <1>2, <1>3 DEF IInv, JobsAccounted

\* A new process has an empty channel and idle workers; the rows stay.
LEMMA RestartKeeps ==
    ASSUME IInv, TypeOK', Restart
    PROVE  IInv'
<1>1. \A j \in Job : ~Held(j)'
  BY NothingHeld, DispatcherAssumption DEF Restart, Held, InQueue, InHand
<1>2. \A j : ~InQueue(j)'
  BY DEF Restart, InQueue
<1>3. OnePlace' /\ BusyWithJob' /\ LoopCountsPosts'
  BY <1>2 DEF Restart, OnePlace, BusyWithJob, LoopCountsPosts
<1>4. NewUntilSent' /\ GlobalToCome'
  BY <1>1, <1>2 DEF Restart, NewUntilSent, GlobalToCome
<1>5. LogIsTruth'
  BY <1>1 DEF Restart, history, IInv, LogIsTruth
<1> QED BY <1>3, <1>4, <1>5 DEF IInv, JobsAccounted

\* Where every job is and what was done for it, in every reachable state.
THEOREM Invariance == Spec => []IInv
<1>1. Init => IInv
  <2> SUFFICES ASSUME Init PROVE IInv
    OBVIOUS
  <2>1. TypeOK
    BY FS_CardinalityType, DispatcherAssumption DEF Init, Added, TypeOK, NoRow
  <2>2. \A j : ~InQueue(j)
    BY DEF Init, InQueue
  <2>3. \A j \in Job : ~Held(j)
    BY NothingHeld DEF Init
  <2>4. JobsAccounted
    BY <2>2, <2>3 DEF Init, JobsAccounted, OnePlace, BusyWithJob, NewUntilSent,
                      LoopCountsPosts, GlobalToCome
  <2>5. LogIsTruth
    BY DEF Init, LogIsTruth
  <2> QED BY <2>1, <2>4, <2>5 DEF IInv
<1>2. IInv /\ TypeOK' /\ [Next]_vars => IInv'
  <2> SUFFICES ASSUME IInv, TypeOK', [Next]_vars PROVE IInv'
    OBVIOUS
  <2>1. CASE \E e \in Events : DispatchInstance(e) \/ DispatchGlobal(e)
    BY <2>1, DispatchInstanceKeeps, DispatchGlobalKeeps
  <2>2. CASE \E w \in Workers : TakeJob(w) \/ Post(w)
    BY <2>2, TakeJobKeeps, PostKeeps
  <2>3. CASE \E w \in Workers : IndexPanic(w) \/ Retry(w) \/ Abandon(w) \/ WorkerExit(w)
    BY <2>3, WorkerKeeps
  <2>4. CASE StopBegin \/ StopReturns \/ CloseDB \/ Kill
    BY <2>4, MainKeeps
  <2>5. CASE Restart
    BY <2>5, RestartKeeps
  <2>6. CASE UNCHANGED vars
    BY <2>6, SameJobs DEF vars, IInv, JobsAccounted, GlobalToCome, workerVars
  <2>7. CASE \E E \in SUBSET Events : InstanceDeleted(E)
    BY <2>7, DeletionKeeps
  <2> QED BY <2>1, <2>2, <2>3, <2>4, <2>5, <2>6, <2>7 DEF Next
<1> QED BY <1>1, <1>2, TypeCorrect, PTL DEF Spec

--------------------------------------------------------------------------------
(* Consequences. *)

\* No job is in two places, and what is known of each agrees with where it is.
COROLLARY Accounting == Spec => []JobsAccounted
<1>1. IInv => JobsAccounted
  BY DEF IInv
<1> QED BY <1>1, Invariance, PTL

\* Every row of webhook_logs is true of a finished job.
COROLLARY TrueLog == Spec => []LogIsTruth
<1>1. IInv => LogIsTruth
  BY DEF IInv
<1> QED BY <1>1, Invariance, PTL

\* The wait group counts the workers that have not returned, and Stop returns
\* when there are none.
CountInv ==
    /\ wg = Cardinality({w \in Workers : pc[w] # "done"})
    /\ PoolStopped => wg = 0

\* At the start, and at every restart, all of them are to be waited for.
LEMMA AllCounted ==
    ASSUME NEW P, P = [w \in Workers |-> "idle"]
    PROVE  Added = Cardinality({w \in Workers : P[w] # "done"})
<1>1. {w \in Workers : P[w] # "done"} = Workers
  OBVIOUS
<1> QED BY <1>1 DEF Added

\* A worker is counted from its start to its return and no longer, whatever it
\* does in between, so the counter is 0 only when all have returned.
LEMMA CountKept ==
    ASSUME TypeOK, CountInv, [Next]_vars
    PROVE  CountInv'
<1> DEFINE live == {w \in Workers : pc[w] # "done"}
<1>1. ASSUME \A w \in Workers : pc'[w] = "done" <=> pc[w] = "done", wg' = wg,
             PoolStopped' => PoolStopped \/ wg = 0
      PROVE  CountInv'
  <2>1. live' = live
    BY <1>1
  <2> QED BY <1>1, <2>1 DEF CountInv
<1>2. ASSUME NEW w \in Workers, WorkerExit(w) PROVE CountInv'
  <2>1. live' = live \ {w} /\ w \in live
    BY <1>2 DEF WorkerExit, TypeOK
  <2>2. IsFiniteSet(live)
    BY FS_Subset, DispatcherAssumption
  <2>3. Cardinality(live') = Cardinality(live) - 1
    BY <2>1, <2>2, FS_RemoveElement
  <2>4. ~PoolStopped'
    <3>1. PoolStopped => live = {}
      BY <2>2, FS_EmptySet DEF CountInv
    <3> QED BY <1>2, <2>1, <3>1 DEF WorkerExit, PoolStopped
  <2> QED BY <1>2, <2>3, <2>4 DEF WorkerExit, CountInv
<1>3. ASSUME NEW w \in Workers, TakeJob(w) \/ Post(w) \/ Retry(w) \/ Abandon(w)
      PROVE  CountInv'
  <2>1. /\ pc[w] # "done" /\ UNCHANGED <<main, wg>>
        /\ \E x \in {"idle", "posting", "backoff"} : pc' = [pc EXCEPT ![w] = x]
    BY <1>3 DEF TakeJob, Post, PostSucceeds, PostFails, Rest, Retry, Abandon
  <2> QED BY <1>1, <2>1 DEF TypeOK, PoolStopped
<1>4. ASSUME UNCHANGED <<wg, workerVars>>, PoolStopped' => PoolStopped \/ wg = 0
      PROVE  CountInv'
  BY <1>1, <1>4 DEF workerVars
<1>5. ASSUME NEW e \in Events, DispatchInstance(e) \/ DispatchGlobal(e) PROVE CountInv'
  BY <1>4, <1>5 DEF DispatchInstance, Dispatch, DispatchGlobal, PoolStopped
<1>6. CASE \/ \E E \in SUBSET Events : InstanceDeleted(E)
           \/ \E w \in Workers : IndexPanic(w)
           \/ StopBegin \/ StopReturns \/ CloseDB \/ Kill \/ UNCHANGED vars
  BY <1>4, <1>6 DEF InstanceDeleted, IndexPanic, StopBegin, StopReturns, CloseDB, Kill,
                    vars, PoolStopped
<1>7. CASE Restart
  BY <1>7, AllCounted DEF Restart, CountInv, PoolStopped
<1> QED BY <1>2, <1>3, <1>5, <1>6, <1>7 DEF Next

\* No POST is made and no row written once Stop has returned, for any number of
\* workers and of callbacks that go on dispatching.
THEOREM SilentAfterStop == Spec => NothingAfterStop
<1>1. Init => CountInv
  BY AllCounted DEF Init, CountInv, PoolStopped
<1>2. TypeOK /\ CountInv /\ [Next]_vars => CountInv'
  BY CountKept
<1>3. ASSUME TypeOK, CountInv, PoolStopped, [Next]_vars, NEW j \in Job
      PROVE  posts'[j] \in {posts[j], 0} /\ row'[j] \in {row[j], NoRow}
  <2> DEFINE live == {w \in Workers : pc[w] # "done"}
  <2>1. live = {}
    BY <1>3, FS_Subset, FS_EmptySet, DispatcherAssumption DEF CountInv
  <2>2. ASSUME NEW w \in Workers PROVE ~Post(w)
    BY <2>1 DEF Post, PostSucceeds, PostFails
  <2>3. ASSUME NEW k \in Job, Offer(k)
        PROVE  posts'[j] \in {posts[j], 0} /\ row'[j] \in {row[j], NoRow}
    BY <1>3, <2>3 DEF Offer, history, TypeOK
  <2>4. ASSUME NEW e \in Events, DispatchInstance(e) \/ DispatchGlobal(e)
        PROVE  posts'[j] \in {posts[j], 0} /\ row'[j] \in {row[j], NoRow}
    <3>1. <<e, "instance">> \in Job /\ <<e, "global">> \in Job
      BY DEF Job, Dests
    <3>2. Offer(<<e, "instance">>) \/ Offer(<<e, "global">>) \/ UNCHANGED history
      BY <2>4 DEF DispatchInstance, Dispatch, NoInstanceURL, DispatchGlobal
    <3> QED BY <2>3, <3>1, <3>2 DEF history
  <2>5. ASSUME NEW E \in SUBSET Events, InstanceDeleted(E)
        PROVE  posts'[j] \in {posts[j], 0} /\ row'[j] \in {row[j], NoRow}
    BY <2>5 DEF InstanceDeleted
  <2>6. CASE UNCHANGED history
    BY <2>6 DEF history
  <2> QED
    BY <1>3, <2>2, <2>4, <2>5, <2>6
       DEF Next, vars, TakeJob, Retry, IndexPanic, Abandon, WorkerExit, StopBegin,
           StopReturns, CloseDB, Kill, Restart
<1>4. TypeOK /\ CountInv /\ [Next]_vars => [PoolStopped => Silent]_vars
  BY <1>3 DEF Silent
<1> QED BY <1>1, <1>2, <1>4, TypeCorrect, PTL DEF Spec, NothingAfterStop

\* The dispatcher cannot crash the process as long as MaxRetries asks for no
\* more backoffs than there are delays.
THEOREM NoPanic ==
    ASSUME MaxRetries <= NumDelays
    PROVE  Spec => []NeverPanics
<1>1. Init => NeverPanics
  BY DEF Init, NeverPanics
<1>2. IInv /\ NeverPanics /\ [Next]_vars => NeverPanics'
  <2> SUFFICES ASSUME IInv, NeverPanics, [Next]_vars PROVE NeverPanics'
    OBVIOUS
  <2>1. ASSUME NEW w \in Workers PROVE ~IndexPanic(w)
    <3>1. pc[w] = "backoff" => attempt[w] < MaxRetries /\ attempt[w] \in Nat
      BY DEF IInv, TypeOK, JobsAccounted, LoopCountsPosts
    <3> QED BY <3>1, DispatcherAssumption DEF IndexPanic, HasDelay, NumDelays
  <2> QED
    BY <2>1 DEF NeverPanics, Next, vars, DispatchInstance, Dispatch, DispatchGlobal,
                InstanceDeleted, TakeJob, Post, PostSucceeds, PostFails, Retry, Abandon,
                WorkerExit, StopBegin, StopReturns, CloseDB, Kill, Restart
<1> QED BY <1>1, <1>2, Invariance, PTL DEF Spec

--------------------------------------------------------------------------------
(* The dispatcher implements WebhookDelivery. *)

up      == main = "running"
pending == {j \in Job : Held(j)}

\* Each POST of the dispatcher is one of the promise: of a pending job that has
\* POSTs left, and the last one exactly when the job is put down.
LEMMA PostRefines ==
    ASSUME IInv, NEW w \in Workers, Post(w)
    PROVE  \E j \in Job, a \in Failures \cup {"ok"} : Promise!Post(j, a)
<1> USE DEF IInv, JobsAccounted
<1> DEFINE j == job[w]
<1>1. /\ pc[w] = "posting"
      /\ queue' = queue
      /\ up' = up
  BY DEF Post, PostSucceeds, PostFails, up
<1>2. /\ j \in Job
      /\ Held(j)
  BY <1>1, BusyWorker
<1>3. /\ posts[j] = attempt[w]
      /\ attempt[w] \in Nat
      /\ attempt[w] <= MaxRetries
      /\ Attempts = MaxRetries + 1
  BY <1>1, DispatcherAssumption DEF LoopCountsPosts, TypeOK, Attempts
<1>4. ASSUME Rest(w) PROVE pending' = pending \ {j}
  <2>1. \A k \in Job : Held(k)' <=> Held(k) /\ k # j
    BY <1>1, <1>2, <1>4, PutDown DEF Rest
  <2> QED BY <2>1 DEF pending
<1>5. CASE PostSucceeds(w)
  <2>1. /\ pending' = pending \ {j}
        /\ posts' = [posts EXCEPT ![j] = @ + 1]
        /\ answer' = [answer EXCEPT ![j] = "ok"]
    BY <1>4, <1>5 DEF PostSucceeds, Answered
  <2>2. Promise!Post(j, "ok")
    BY <1>1, <1>2, <1>3, <2>1, DispatcherAssumption DEF Promise!Post, up, pending
  <2> QED BY <1>2, <2>2
<1>6. ASSUME NEW a \in Failures, PostFails(w, a)
      PROVE  Promise!Post(j, a)
  <2>1. /\ posts' = [posts EXCEPT ![j] = @ + 1]
        /\ answer' = [answer EXCEPT ![j] = a]
        /\ a # "ok"
    BY <1>6 DEF PostFails, Answered, Failures
  <2>2. CASE TriesLeft(w) /\ UNCHANGED job
    <3>1. pending' = pending
      BY <1>1, <2>2 DEF pending, Held, InQueue, InHand
    <3>2. posts[j] + 1 # Attempts
      BY <1>3, <2>2, DispatcherAssumption DEF TriesLeft
    <3> QED BY <1>1, <1>2, <1>3, <2>1, <3>1, <3>2, DispatcherAssumption
            DEF Promise!Post, up, pending
  <2>3. CASE ~TriesLeft(w) /\ Rest(w)
    <3>1. posts[j] + 1 = Attempts
      BY <1>3, <2>3, DispatcherAssumption DEF TriesLeft
    <3> QED BY <1>1, <1>2, <1>3, <1>4, <2>1, <2>3, <3>1, DispatcherAssumption
            DEF Promise!Post, up, pending
  <2> QED BY <1>6, <2>2, <2>3 DEF PostFails
<1> QED BY <1>2, <1>5, <1>6 DEF Post

\* A dispatch accepts a job that is not pending, or nothing.
LEMMA OfferRefines ==
    ASSUME IInv, NEW j \in Job, ~Held(j), Offer(j), UNCHANGED <<main, workerVars>>
    PROVE  Promise!Accept(j) \/ UNCHANGED Promise!vars
<1>1. CASE UNCHANGED <<queue, history>>
  BY <1>1 DEF Promise!vars, history, workerVars, Held, InQueue, InHand
<1>2. CASE /\ queue' = Append(queue, j)
           /\ posts' = [posts EXCEPT ![j] = 0]
           /\ answer' = [answer EXCEPT ![j] = "none"]
  <2>1. \A k \in Job : Held(k)' <=> Held(k) \/ k = j
    BY <1>2, Sent DEF IInv, workerVars
  <2>2. pending' = pending \cup {j}
    BY <2>1 DEF pending
  <2> QED BY <1>2, <2>2 DEF Promise!Accept, pending
<1> QED BY <1>1, <1>2 DEF Offer

\* A receive moves a job from the channel to a worker; with a negative MaxRetries
\* it finishes a job that was entitled to no POST.
LEMMA TakeJobRefines ==
    ASSUME IInv, NEW w \in Workers, TakeJob(w)
    PROVE  UNCHANGED Promise!vars \/ \E j \in Job : Promise!Skip(j)
<1> USE DEF IInv, JobsAccounted
<1> DEFINE h == Head(queue)
<1>1. h \in Job /\ InQueue(h)
  BY TailJobs DEF TakeJob, TypeOK, InQueue
<1>2. \A k \in Job : InQueue(k)' <=> InQueue(k) /\ k # h
  BY Received DEF TakeJob
<1>3. job[w] = NoJob /\ \A v \in Workers : job[v] # h
  BY <1>1 DEF TakeJob, BusyWithJob, OnePlace
<1>4. up' = up /\ UNCHANGED <<posts, answer>>
  BY DEF TakeJob, history, up
<1>5. CASE job' = [job EXCEPT ![w] = h]
  <2>1. ASSUME NEW k \in Job PROVE Held(k)' <=> Held(k)
    <3>1. InHand(k)' <=> InHand(k) \/ k = h
      BY <1>3, <1>5, DispatcherAssumption DEF InHand, TypeOK
    <3> QED BY <1>1, <1>2, <3>1 DEF Held
  <2>2. pending' = pending
    BY <2>1 DEF pending
  <2> QED BY <1>4, <2>2 DEF Promise!vars, up, pending
<1>6. CASE ~LoopRuns /\ Rest(w)
  <2>1. job' = job
    BY <1>3, <1>6 DEF Rest, TypeOK
  <2>2. \A k \in Job : Held(k)' <=> Held(k) /\ k # h
    BY <1>2, <1>3, <2>1 DEF Held, InHand
  <2>3. pending' = pending \ {h}
    BY <2>2 DEF pending
  <2>4. Attempts = 0
    BY <1>6, DispatcherAssumption DEF LoopRuns, Attempts
  <2> HIDE DEF h
  <2>5. Promise!Skip(h)
    BY <1>1, <1>4, <2>3, <2>4 DEF Promise!Skip, up, pending, Held
  <2> QED BY <1>1, <2>5
<1> QED BY <1>5, <1>6 DEF TakeJob

\* A job is forgotten without an outcome only when stopCh is closed.
LEMMA AbandonRefines ==
    ASSUME IInv, NEW w \in Workers, Abandon(w)
    PROVE  \E j \in Job : Promise!Abandon(j)
<1> DEFINE j == job[w]
<1>1. j \in Job
  BY BusyWorker DEF Abandon
<1>2. \A k \in Job : Held(k)' <=> Held(k) /\ k # j
  BY <1>1, PutDown DEF IInv, JobsAccounted, Abandon, Rest
<1>3. pending' = pending \ {j}
  BY <1>2 DEF pending
<1>4. ~up /\ up' = up /\ UNCHANGED <<posts, answer>>
  BY DEF Abandon, MayAbandon, StopClosed, history, up
<1> HIDE DEF j
<1>5. Promise!Abandon(j)
  BY <1>3, <1>4 DEF Promise!Abandon, up, pending
<1> QED BY <1>1, <1>5

\* Every step of the dispatcher is one of the promise, or none.
LEMMA StepRefines ==
    ASSUME IInv, [Next]_vars
    PROVE  Promise!Next \/ UNCHANGED Promise!vars
<1>1. ASSUME UNCHANGED <<main, queue, job, posts, answer>>
      PROVE  UNCHANGED Promise!vars
  BY <1>1 DEF Promise!vars, Held, InQueue, InHand
<1>2. ASSUME NEW e \in Events, DispatchInstance(e)
      PROVE  Promise!Next \/ UNCHANGED Promise!vars
  <2>1. <<e, "instance">> \in Job /\ ~Held(<<e, "instance">>)
    BY <1>2 DEF DispatchInstance, Dispatch, Job, Dests
  <2>2. CASE Offer(<<e, "instance">>)
    BY <1>2, <2>1, <2>2, OfferRefines DEF DispatchInstance, Dispatch, Promise!Next
  <2>3. CASE UNCHANGED <<queue, history>>
    BY <1>1, <1>2, <2>3 DEF DispatchInstance, Dispatch, workerVars, history
  <2> QED BY <1>2, <2>2, <2>3 DEF DispatchInstance, Dispatch, NoInstanceURL
<1>3. ASSUME NEW e \in Events, DispatchGlobal(e)
      PROVE  Promise!Next \/ UNCHANGED Promise!vars
  <2>1. <<e, "global">> \in Job /\ ~Held(<<e, "global">>)
    BY <1>3 DEF DispatchGlobal, Job, Dests, IInv, JobsAccounted, GlobalToCome
  <2>2. CASE Offer(<<e, "global">>)
    BY <1>3, <2>1, <2>2, OfferRefines DEF DispatchGlobal, Promise!Next
  <2>3. CASE UNCHANGED <<queue, history>>
    BY <1>1, <1>3, <2>3 DEF DispatchGlobal, workerVars, history
  <2> QED BY <1>3, <2>2, <2>3 DEF DispatchGlobal
<1>4. ASSUME NEW w \in Workers, TakeJob(w)
      PROVE  Promise!Next \/ UNCHANGED Promise!vars
  BY <1>4, TakeJobRefines DEF Promise!Next
<1>5. ASSUME NEW w \in Workers, Post(w)
      PROVE  Promise!Next
  BY <1>5, PostRefines DEF Promise!Next, Promise!Failures, Failures
<1>6. ASSUME NEW w \in Workers, Abandon(w)
      PROVE  Promise!Next
  BY <1>6, AbandonRefines DEF Promise!Next
<1>7. ASSUME NEW w \in Workers, Retry(w) \/ WorkerExit(w)
      PROVE  UNCHANGED Promise!vars
  BY <1>1, <1>7 DEF Retry, NextAttempt, WorkerExit, history
<1>8. ASSUME UNCHANGED <<queue, workerVars, history>>, main' # "running"
      PROVE  Promise!GoDown
  BY <1>8 DEF Promise!GoDown, workerVars, history, Held, InQueue, InHand
<1>9. CASE (\E w \in Workers : IndexPanic(w)) \/ StopBegin \/ StopReturns \/ CloseDB \/ Kill
  BY <1>8, <1>9 DEF IndexPanic, StopBegin, StopReturns, CloseDB, Kill, Promise!Next
<1>10. CASE Restart
  <2>1. \A j \in Job : ~Held(j)'
    BY <1>10, NothingHeld, DispatcherAssumption DEF Restart, Held, InQueue, InHand
  <2>2. {j \in Job : Held(j)}' = {}
    BY <2>1
  <2> QED BY <1>10, <2>2 DEF Restart, Alive, history, Promise!ComeBack, Promise!Next
<1>11. CASE UNCHANGED vars
  BY <1>1, <1>11 DEF vars, workerVars, history
<1>12. ASSUME NEW E \in SUBSET Events, InstanceDeleted(E)
       PROVE  UNCHANGED Promise!vars
  BY <1>1, <1>12 DEF InstanceDeleted, workerVars
<1> QED
  BY <1>2, <1>3, <1>4, <1>5, <1>6, <1>7, <1>9, <1>10, <1>11, <1>12 DEF Next

\* The dispatcher keeps the promise of WebhookDelivery: while the service runs, a
\* job it accepted is POSTed until a 2xx answer or until its POSTs are used up.
THEOREM Refinement == Spec => KeepsPromise
<1>1. Init => Promise!Init
  <2> SUFFICES ASSUME Init PROVE Promise!Init
    OBVIOUS
  <2>1. \A j \in Job : ~Held(j)
    BY NothingHeld DEF Init
  <2> QED BY <2>1 DEF Init, Promise!Init
<1>2. IInv /\ [Next]_vars => [Promise!Next]_(Promise!vars)
  BY StepRefines
<1> QED BY <1>1, <1>2, Invariance, PTL DEF Spec, KeepsPromise, Promise!Spec

--------------------------------------------------------------------------------
(* A job in the system is not finished. *)

HeldUnfinished ==
    \A j \in Job : Held(j) =>
        /\ answer[j] # "ok"
        /\ posts[j] \in Nat
        /\ posts[j] = 0 \/ posts[j] < Attempts

\* The last POST and the first 2xx answer each take their job out of the system.
THEOREM NotFinishedYet == Spec => []HeldUnfinished
<1>1. Init => HeldUnfinished
  BY NothingHeld DEF Init, HeldUnfinished
<1>2. IInv /\ IInv' /\ HeldUnfinished /\ [Next]_vars => HeldUnfinished'
  <2> SUFFICES ASSUME IInv, IInv', HeldUnfinished, [Next]_vars,
                      NEW k \in Job, Held(k)'
               PROVE  /\ answer'[k] # "ok"
                      /\ posts'[k] = 0 \/ posts'[k] < Attempts
    BY DEF HeldUnfinished, IInv, TypeOK
  <2>1. /\ k \in pending'
        /\ k \in pending => answer[k] # "ok" /\ (posts[k] = 0 \/ posts[k] < Attempts)
        /\ answer \in [Job -> {"none", "ok"} \cup Failures]
        /\ posts \in [Job -> Nat]
        /\ Attempts \in Nat
    BY DispatcherAssumption DEF pending, HeldUnfinished, IInv, TypeOK, Attempts
  <2>2. ASSUME NEW j \in Job, Promise!Accept(j)
        PROVE  answer'[k] # "ok" /\ (posts'[k] = 0 \/ posts'[k] < Attempts)
    BY <2>1, <2>2 DEF Promise!Accept, pending
  <2>3. ASSUME NEW j \in Job, NEW a \in Failures \cup {"ok"}, Promise!Post(j, a)
        PROVE  answer'[k] # "ok" /\ (posts'[k] = 0 \/ posts'[k] < Attempts)
    BY <2>1, <2>3 DEF Promise!Post, pending
  <2>4. ASSUME NEW j \in Job, Promise!Skip(j) \/ Promise!Abandon(j)
        PROVE  answer'[k] # "ok" /\ (posts'[k] = 0 \/ posts'[k] < Attempts)
    BY <2>1, <2>4 DEF Promise!Skip, Promise!Abandon, pending
  <2>5. ASSUME Promise!GoDown \/ Promise!ComeBack \/ UNCHANGED Promise!vars
        PROVE  answer'[k] # "ok" /\ (posts'[k] = 0 \/ posts'[k] < Attempts)
    BY <2>1, <2>5 DEF Promise!GoDown, Promise!ComeBack, Promise!vars, pending
  <2> QED
    BY StepRefines, <2>2, <2>3, <2>4, <2>5 DEF Promise!Next, Promise!Failures, Failures
<1> QED BY <1>1, <1>2, Invariance, PTL DEF Spec
================================================================================
