-------------------------- MODULE EventDeliveryProofs --------------------------
(***************************************************************************)
(* What EventDelivery guarantees for every set of events, workers,         *)
(* handlers and URLs, every capacity of the channel and every MaxRetries.  *)
(* The facts about jobs come from WebhookDispatcherProofs, through the     *)
(* theorem that the delivery implements the dispatcher's specification.    *)
(***************************************************************************)
EXTENDS EventDelivery, WebhookDispatcherProofs

\* Every step of the delivery is a step of the dispatcher, or not one of its own.
LEMMA StepImplements ==
    ASSUME [DeliveryNext]_allVars
    PROVE  [Next]_vars
<1>1. ASSUME NEW e \in Events,
             Report(e) \/ GetInstance(e) \/ DispatchFound(e) \/ DispatchToAll(e)
      PROVE  [Next]_vars
  <2>1. CASE DispatchFound(e)
    BY <2>1 DEF DispatchFound, DispatchInstance, Next
  <2> QED BY <1>1, <2>1 DEF Report, GetInstance, DispatchToAll, Next
<1>2. ASSUME NEW w \in Workers, PostAndLog(w) \/ WorkerStep(w)
      PROVE  [Next]_vars
  BY <1>2 DEF PostAndLog, WorkerStep, Next
<1>3. ASSUME NEW h \in Handlers, Request(h)
      PROVE  [Next]_vars
  <2>1. CASE DeleteInstance(h)
    <3>1. Events \in SUBSET Events
      OBVIOUS
    <3> QED BY <2>1, <3>1 DEF DeleteInstance, Next
  <2> QED BY <1>3, <2>1 DEF Request, SetWebhook, UpdateInstanceWebhook, Delete, Send,
                            SendEnds, Begin
<1>4. CASE Signal \/ ShutdownReturns \/ Leave \/ StartAgain
  BY <1>4 DEF Signal, ShutdownReturns, Leave, StartAgain, Next
<1>5. CASE UNCHANGED allVars
  BY <1>5 DEF allVars
<1> QED BY <1>1, <1>2, <1>3, <1>4, <1>5 DEF DeliveryNext

\* The event bridge, the handlers and main use the dispatcher as its specification
\* allows, so that all it promises holds of the composition.
LEMMA Implements == DeliverySpec => Spec
<1>1. DeliveryInit => Init
  BY DEF DeliveryInit
<1> QED BY <1>1, StepImplements, PTL DEF DeliverySpec, Spec

\* So does the invariant of the dispatcher.
COROLLARY JobsInvariant == DeliverySpec => [](TypeOK /\ IInv)
BY Implements, TypeCorrect, Invariance, PTL

--------------------------------------------------------------------------------
(* Types *)

\* The steps that change neither the row nor the requests keep the types.
LEMMA EventTyping ==
    ASSUME DeliveryTypeOK, TypeOK', NEW e \in Events,
           Report(e) \/ GetInstance(e) \/ DispatchFound(e) \/ DispatchToAll(e)
    PROVE  DeliveryTypeOK'
<1> USE DEF DeliveryTypeOK
<1>1. UNCHANGED <<url, present, op, agreed, serving>>
  BY DEF Report, GetInstance, DispatchFound, DispatchToAll, instanceVars
<1>2. at' \in [Events -> {"idle", "reported", "found"}]
  BY DEF Report, GetInstance, DispatchFound, DispatchToAll, eventVars
<1>3. found' \in [Events -> URLs \cup {NoURL}]
  BY DEF Report, GetInstance, DispatchFound, DispatchToAll, eventVars, Destination
<1>4. want' \in [Events -> URLs \cup {NoURL, AnyURL}]
  BY DEF Report, GetInstance, DispatchFound, DispatchToAll, eventVars
<1> QED BY <1>1, <1>2, <1>3, <1>4

\* So do the requests.
LEMMA RequestTyping ==
    ASSUME DeliveryTypeOK, TypeOK', NEW h \in Handlers, Request(h)
    PROVE  DeliveryTypeOK'
<1> USE DEF DeliveryTypeOK
<1>1. UNCHANGED <<at, found, serving>>
  BY DEF Request, SetWebhook, UpdateInstanceWebhook, Delete, DeleteInstance, Send,
         SendEnds, Begin, eventVars
<1>2. want' \in [Events -> URLs \cup {NoURL, AnyURL}]
  BY DEF Request, SetWebhook, UpdateInstanceWebhook, Delete, DeleteInstance, Send,
         SendEnds, Unsettle, eventVars
<1>3. op[h].to \in URLs \cup {NoURL}
  OBVIOUS
<1>4. url' \in URLs \cup {NoURL, Unlisted}
  BY <1>3 DEF Request, SetWebhook, UpdateInstanceWebhook, Delete, DeleteInstance, Send,
              SendEnds, Begin
<1>5. agreed' \in URLs \cup {NoURL, AnyURL}
  <2>1. CASE UpdateInstanceWebhook(h)
    BY <1>3, <2>1 DEF UpdateInstanceWebhook, Agree
  <2>2. CASE DeleteInstance(h)
    BY <2>2 DEF DeleteInstance, Agree
  <2> QED BY <2>1, <2>2 DEF Request, SetWebhook, Delete, Send, SendEnds, Unsettle
<1>6. present' \in BOOLEAN
  BY DEF Request, SetWebhook, UpdateInstanceWebhook, Delete, DeleteInstance, Send, SendEnds
<1>7. op' \in [Handlers -> [kind : {"none", "set", "delete", "send"}, to : URLs \cup {NoURL}]]
  BY DEF Request, SetWebhook, UpdateInstanceWebhook, Delete, DeleteInstance, Send,
         SendEnds, Begin, Ends, NoOp
<1> QED BY <1>1, <1>2, <1>4, <1>5, <1>6, <1>7

\* Every variable has its type.
THEOREM DeliveryTypes == DeliverySpec => []DeliveryTypeOK
<1>1. DeliveryInit /\ TypeOK => DeliveryTypeOK
  BY DEF DeliveryInit, DeliveryTypeOK, Listed, NoOp
<1>2. DeliveryTypeOK /\ TypeOK' /\ [DeliveryNext]_allVars => DeliveryTypeOK'
  <2> SUFFICES ASSUME DeliveryTypeOK, TypeOK', [DeliveryNext]_allVars
               PROVE  DeliveryTypeOK'
    OBVIOUS
  <2>1. CASE \E e \in Events :
                Report(e) \/ GetInstance(e) \/ DispatchFound(e) \/ DispatchToAll(e)
    BY <2>1, EventTyping
  <2>2. ASSUME NEW h \in Handlers, Request(h) PROVE DeliveryTypeOK'
    BY <2>2, RequestTyping
  <2>3. CASE StartAgain
    BY <2>3 DEF StartAgain, DeliveryTypeOK, NoOp
  <2>4. CASE Signal
    BY <2>4 DEF Signal, eventVars, instanceVars, DeliveryTypeOK
  <2>5. CASE UNCHANGED deliveryVars
    BY <2>5 DEF deliveryVars, eventVars, instanceVars, DeliveryTypeOK
  <2> QED
    BY <2>1, <2>2, <2>3, <2>4, <2>5
       DEF DeliveryNext, PostAndLog, WorkerStep, ShutdownReturns, Leave, allVars
<1> QED BY <1>1, <1>2, JobsInvariant, PTL DEF DeliverySpec

--------------------------------------------------------------------------------
(* Where events go. *)

Quiet(u) == (\A h \in Handlers : ~Writing(h)) /\ u = Destination(url)

\* What is agreed is what the row says, as long as no request writes; and so is
\* what was agreed when an event was reported that has not been looked up yet.
Agreement ==
    /\ agreed # AnyURL => Quiet(agreed)
    /\ \A e \in Events : at[e] = "reported" /\ want[e] # AnyURL => Quiet(want[e])

\* A step that leaves the requests and the row alone keeps Quiet as it is.
LEMMA QuietStays ==
    ASSUME UNCHANGED <<url, op>>, NEW u
    PROVE  Quiet(u)' <=> Quiet(u)
BY DEF Quiet, Writing, Destination

\* A request that begins to write unsettles what was agreed.
LEMMA BeginningUnsettles ==
    ASSUME DeliveryTypeOK, Unsettle, UNCHANGED <<at, found>>,
           Agreement, GoesWhereAgreed
    PROVE  Agreement' /\ GoesWhereAgreed'
<1>1. agreed' = AnyURL
  BY DEF Unsettle
<1>2. \A e \in Events : want'[e] = IF at[e] = "reported" THEN AnyURL ELSE want[e]
  BY DEF Unsettle
<1> QED BY <1>1, <1>2 DEF Agreement, GoesWhereAgreed

\* A statement ends. Until then nothing is agreed, for its own request writes;
\* afterwards its URL is, if no other one is on its way.
LEMMA StatementAgrees ==
    ASSUME DeliveryTypeOK, Agreement, GoesWhereAgreed,
           NEW h \in Handlers, Writing(h), Ends(h), UNCHANGED eventVars,
           NEW u, u = Destination(url'),
           Agree(h, u) \/ UNCHANGED agreed
    PROVE  Agreement' /\ GoesWhereAgreed'
<1>1. agreed = AnyURL /\ \A e \in Events : at[e] = "reported" => want[e] = AnyURL
  BY DEF Agreement, Quiet
<1>2. agreed' # AnyURL => Quiet(agreed)'
  <2> SUFFICES ASSUME agreed' # AnyURL PROVE Quiet(agreed)'
    OBVIOUS
  <2>1. agreed' = u /\ Alone(h)
    BY <1>1 DEF Agree
  <2>2. \A g \in Handlers : ~Writing(g)'
    BY <2>1 DEF Ends, Alone, Writing, DeliveryTypeOK, NoOp
  <2> QED BY <2>1, <2>2 DEF Quiet, Destination
<1> QED BY <1>1, <1>2 DEF Agreement, GoesWhereAgreed, eventVars

\* An event goes where the requests answered 200 agreed, whatever the interleaving
\* of reports, lookups, requests, crashes and restarts.
THEOREM AgreedDelivery == DeliverySpec => []GoesWhereAgreed
<1>1. DeliveryInit => Agreement /\ GoesWhereAgreed
  BY DeliveryAssumption
     DEF DeliveryInit, Agreement, GoesWhereAgreed, Quiet, Writing, Destination, NoOp, Listed
<1>2. DeliveryTypeOK /\ Agreement /\ GoesWhereAgreed /\ [DeliveryNext]_allVars
          => Agreement' /\ GoesWhereAgreed'
  <2> SUFFICES ASSUME DeliveryTypeOK, Agreement, GoesWhereAgreed, [DeliveryNext]_allVars
               PROVE  Agreement' /\ GoesWhereAgreed'
    OBVIOUS
  <2>1. ASSUME UNCHANGED <<at, found, want, url, op, agreed>>
        PROVE  Agreement' /\ GoesWhereAgreed'
    BY <2>1, QuietStays DEF Agreement, GoesWhereAgreed
  <2>2. ASSUME NEW e \in Events, Report(e) PROVE Agreement' /\ GoesWhereAgreed'
    <3>1. /\ at' = [at EXCEPT ![e] = "reported"]
          /\ want' = [want EXCEPT ![e] = agreed]
          /\ UNCHANGED <<found, url, op, agreed>>
      BY <2>2 DEF Report, instanceVars
    <3> QED BY <3>1, QuietStays DEF DeliveryTypeOK, Agreement, GoesWhereAgreed
  <2>3. ASSUME NEW e \in Events, GetInstance(e) PROVE Agreement' /\ GoesWhereAgreed'
    <3>1. at[e] = "reported" /\ at' = [at EXCEPT ![e] = "found"] /\ UNCHANGED <<url, op, agreed>>
      BY <2>3 DEF GetInstance, instanceVars
    <3>2. CASE found' = [found EXCEPT ![e] = Destination(url)] /\ UNCHANGED want
      BY <3>1, <3>2, QuietStays DEF DeliveryTypeOK, Agreement, GoesWhereAgreed, Quiet
    <3>3. CASE want' = [want EXCEPT ![e] = AnyURL] /\ found' = [found EXCEPT ![e] = NoURL]
      BY <3>1, <3>3, QuietStays DEF DeliveryTypeOK, Agreement, GoesWhereAgreed
    <3> QED BY <2>3, <3>2, <3>3 DEF GetInstance
  <2>4. ASSUME NEW e \in Events, DispatchFound(e) PROVE Agreement' /\ GoesWhereAgreed'
    <3>1. /\ at' = [at EXCEPT ![e] = "idle"]
          /\ found' = [found EXCEPT ![e] = NoURL]
          /\ want' = [want EXCEPT ![e] = AnyURL]
          /\ UNCHANGED <<url, op, agreed>>
      BY <2>4 DEF DispatchFound, instanceVars
    <3> QED BY <3>1, QuietStays DEF DeliveryTypeOK, Agreement, GoesWhereAgreed
  <2>5. ASSUME NEW h \in Handlers, Request(h) PROVE Agreement' /\ GoesWhereAgreed'
    <3>1. ASSUME NEW u \in URLs \cup {NoURL}, SetWebhook(h, u) \/ Delete(h)
          PROVE  Agreement' /\ GoesWhereAgreed'
      BY <3>1, BeginningUnsettles DEF SetWebhook, Delete, Begin
    <3>2. CASE UpdateInstanceWebhook(h)
      <4>1. Writing(h) /\ Ends(h) /\ UNCHANGED eventVars
        BY <3>2 DEF UpdateInstanceWebhook, Writing
      <4>2. CASE Listed /\ url' = op[h].to /\ Agree(h, url')
        <5>1. url' = Destination(url')
          BY <4>2 DEF DeliveryTypeOK, Destination
        <5> QED BY <4>1, <4>2, <5>1, StatementAgrees
      <4>3. CASE UNCHANGED agreed
        BY <4>1, <4>3, StatementAgrees
      <4> QED BY <3>2, <4>2, <4>3 DEF UpdateInstanceWebhook
    <3>3. CASE DeleteInstance(h)
      <4>1. Writing(h) /\ Ends(h) /\ UNCHANGED eventVars
        BY <3>3 DEF DeleteInstance, Writing
      <4>2. CASE url' = Unlisted /\ (Agree(h, NoURL) \/ UNCHANGED agreed)
        <5>1. NoURL = Destination(url')
          BY <4>2, DeliveryAssumption DEF Destination
        <5> QED BY <4>1, <4>2, <5>1, StatementAgrees
      <4>3. CASE UNCHANGED agreed
        BY <4>1, <4>3, StatementAgrees
      <4> QED BY <3>3, <4>2, <4>3 DEF DeleteInstance
    <3>4. ASSUME Send(h) \/ SendEnds(h) PROVE Agreement' /\ GoesWhereAgreed'
      <4>1. /\ UNCHANGED <<at, found, want, url, agreed>>
            /\ \A g \in Handlers : Writing(g)' <=> Writing(g)
        BY <3>4 DEF Send, SendEnds, Begin, Ends, Writing, NoOp, eventVars, DeliveryTypeOK
      <4>2. \A u : Quiet(u)' <=> Quiet(u)
        BY <4>1 DEF Quiet, Destination
      <4> QED BY <4>1, <4>2 DEF Agreement, GoesWhereAgreed
    <3> QED BY <2>5, <3>1, <3>2, <3>3, <3>4 DEF Request
  <2>6. CASE StartAgain
    <3>1. /\ \A e \in Events : at'[e] = "idle"
          /\ \A h \in Handlers : ~Writing(h)'
          /\ UNCHANGED <<url, agreed>>
      BY <2>6 DEF StartAgain, Writing, NoOp
    <3> QED BY <3>1 DEF Agreement, GoesWhereAgreed, Quiet, Destination
  <2> QED
    BY <2>1, <2>2, <2>3, <2>4, <2>5, <2>6
       DEF DeliveryNext, DispatchToAll, PostAndLog, WorkerStep, Signal, ShutdownReturns,
           Leave, allVars, deliveryVars, eventVars, instanceVars
<1> QED BY <1>1, <1>2, DeliveryTypes, PTL DEF DeliverySpec

--------------------------------------------------------------------------------
(* What the server as a whole keeps of what the pool promises. *)

\* The server, callbacks, requests and shutdown included, implements WebhookDelivery:
\* a job is given up only by a 2xx answer, after its last POST, or by a server that
\* stops or is dead.
THEOREM ServerKeepsPromise == DeliverySpec => KeepsPromise
BY Implements, Refinement, PTL

\* The job was delivered, or all its POSTs were made.
Finished(j) ==
    /\ ~Held(j)
    /\ answer[j] = "ok" \/ (posts[j] = Attempts /\ posts[j] > 0)

\* What that means for a job: as long as no signal, kill or panic ended the service, a
\* step that takes it out of the channel and of the hands of the workers is the one
\* that finishes it.
NoJobLost ==
    \A j \in Job :
        main = "running" /\ Held(j) /\ ~Held(j)' => Finished(j)' \/ Attempts = 0

THEOREM JobsAreNotLost == DeliverySpec => [][NoJobLost]_allVars
<1>1. TypeOK /\ [Promise!Next]_(Promise!vars) => NoJobLost
  <2> SUFFICES ASSUME TypeOK, [Promise!Next]_(Promise!vars), NEW j \in Job,
                      main = "running", Held(j), ~Held(j)'
               PROVE  Finished(j)' \/ Attempts = 0
    BY DEF NoJobLost
  <2>1. j \in {k \in Job : Held(k)} /\ j \notin {k \in Job : Held(k)}'
    OBVIOUS
  <2>2. /\ posts \in [Job -> Nat]
        /\ answer \in [Job -> {"none", "ok"} \cup Failures]
    BY DEF TypeOK
  <2>3. ASSUME NEW k \in Job, NEW a \in Failures \cup {"ok"}, Promise!Post(k, a)
        PROVE  Finished(j)'
    <3>1. k = j
      BY <2>1, <2>3 DEF Promise!Post
    <3>2. /\ posts'[j] = posts[j] + 1
          /\ answer'[j] = a
          /\ a = "ok" \/ posts[j] + 1 = Attempts
      BY <2>1, <2>2, <2>3, <3>1 DEF Promise!Post
    <3> QED BY <3>2, <2>2 DEF Finished
  <2>4. ASSUME NEW k \in Job, Promise!Skip(k)
        PROVE  Attempts = 0
    BY <2>4 DEF Promise!Skip
  <2>5. ASSUME NEW k \in Job, Promise!Accept(k) \/ Promise!Abandon(k)
        PROVE  FALSE
    BY <2>1, <2>5 DEF Promise!Accept, Promise!Abandon
  <2>6. ~(Promise!GoDown \/ Promise!ComeBack \/ UNCHANGED Promise!vars)
    BY <2>1 DEF Promise!GoDown, Promise!ComeBack, Promise!vars
  <2> QED
    BY <2>3, <2>4, <2>5, <2>6 DEF Promise!Next, Promise!Failures, Failures
<1>2. DeliverySpec => []TypeOK
  BY JobsInvariant, PTL
<1> QED BY <1>1, <1>2, ServerKeepsPromise, PTL DEF KeepsPromise, Promise!Spec

\* A row of webhook_logs is true of its job, with requests that delete the instance and
\* a bridge that goes on dispatching during a shutdown.
COROLLARY ServerLogIsTrue == DeliverySpec => []LogIsTruth
BY Implements, TrueLog, PTL

\* No webhook is POSTed and no row written once Stop has returned, although
\* callbacks still dispatch then: db.Close finds nobody at work.
COROLLARY ServerSilentAfterStop == DeliverySpec => NothingAfterStop
BY Implements, SilentAfterStop, PTL

\* With max_retries at most 3 no event, request or shutdown makes the server panic.
COROLLARY ServerNeverPanics ==
    ASSUME MaxRetries <= NumDelays
    PROVE  DeliverySpec => []NeverPanics
BY Implements, NoPanic, PTL
================================================================================
