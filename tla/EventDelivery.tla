----------------------------- MODULE EventDelivery -----------------------------
(***************************************************************************)
(* What happens to the events of one instance, from the callback of its    *)
(* WhatsApp client to the webhooks: internal/services/event_bridge.go      *)
(* looks up the webhook_url of the instance and calls Dispatch, while      *)
(* requests change that URL or delete the instance, and while              *)
(* cmd/server/main.go shuts the server down. The queue, the workers and    *)
(* their POSTs are the actions of WebhookDispatcher; the events of the     *)
(* module are those of the instance.                                       *)
(*                                                                         *)
(* The URL of an event is read from the row of the instance. The copy in   *)
(* Client.WebhookURL is written by SetWebhook and main, and read nowhere.  *)
(***************************************************************************)
EXTENDS WebhookDispatcher

CONSTANTS URLs,      \* the URLs clients ask for
          Handlers,  \* goroutines of the HTTP server
          NoURL,     \* webhook_url is NULL; an empty URL
          Unlisted,  \* the instance has no row
          AnyURL     \* history: requests disagree, nothing is promised

ASSUME DeliveryAssumption ==
    /\ {NoURL, Unlisted, AnyURL} \cap URLs = {}
    /\ NoURL # Unlisted
    /\ AnyURL \notin {NoURL, Unlisted}

VARIABLES at,        \* at[e]: where HandleEvent is with event e
          found,     \* found[e]: the webhookURL of dispatch
          url,       \* webhook_url in the row of the instance, or Unlisted
          present,   \* the manager has a client for the instance
          op,        \* op[h]: the request handler h is working on
          serving,   \* the server accepts requests: no signal came yet
          agreed,    \* history: the URL of the last request that took effect
                     \* alone, AnyURL while requests overlap or one failed
          want       \* history: what was agreed since the event was reported

eventVars    == <<at, found, want>>
instanceVars == <<url, present, op, agreed>>
deliveryVars == <<eventVars, instanceVars, serving>>
allVars      == <<vars, deliveryVars>>

NoOp   == [kind |-> "none", to |-> NoURL]
Listed == url # Unlisted

\* Where events go with a row that holds u: without row or URL, to no webhook of
\* the instance.
NoNilCheck(u) == u
Destination(u) == IF u \in URLs THEN u ELSE NoURL

\* The instance was created: POST /instances answered 201. Its INSERT may have
\* failed, which is only logged.
DeliveryInit ==
    /\ Init
    /\ at = [e \in Events |-> "idle"]
    /\ found = [e \in Events |-> NoURL]
    /\ want = [e \in Events |-> AnyURL]
    /\ url \in URLs \cup {NoURL, Unlisted}
    /\ agreed = IF Listed THEN url ELSE AnyURL
    /\ present = TRUE
    /\ op = [h \in Handlers |-> NoOp]
    /\ serving = TRUE

--------------------------------------------------------------------------------
(* HandleEvent, in goroutines of whatsmeow and of handleQRChannel. *)

\* One of the event types the switch knows. The name e is free again.
Report(e) ==
    /\ Alive
    /\ at[e] = "idle"
    /\ calls[e] = "idle"
    /\ \A d \in Dests : ~Held(<<e, d>>)
    /\ at' = [at EXCEPT ![e] = "reported"]
    /\ want' = [want EXCEPT ![e] = agreed]
    /\ UNCHANGED <<vars, found, instanceVars, serving>>

\* GetInstance. Its error is only logged: the event goes to no webhook_url.
GetInstance(e) ==
    /\ Alive
    /\ at[e] = "reported"
    /\ at' = [at EXCEPT ![e] = "found"]
    /\ \/ /\ found' = [found EXCEPT ![e] = Destination(url)]
          /\ UNCHANGED want
       \/ /\ found' = [found EXCEPT ![e] = NoURL]
          /\ want' = [want EXCEPT ![e] = AnyURL]
    /\ UNCHANGED <<vars, instanceVars, serving>>

DispatchFound(e) ==
    /\ at[e] = "found"
    /\ Dispatch(e, found[e] # NoURL)
    /\ at' = [at EXCEPT ![e] = "idle"]
    /\ found' = [found EXCEPT ![e] = NoURL]
    /\ want' = [want EXCEPT ![e] = AnyURL]
    /\ UNCHANGED <<instanceVars, serving>>

DispatchToAll(e) ==
    /\ DispatchGlobal(e)
    /\ UNCHANGED <<eventVars, instanceVars, serving>>

--------------------------------------------------------------------------------
(* The pool. LogWebhook inserts a row that refers to the row of the instance *)
(* (a foreign key): it fails when that is gone, or for any other reason.     *)

LogsIfListed(w) == row' # row => Listed

PostAndLog(w) ==
    /\ Post(w)
    /\ LogsIfListed(w)
    /\ UNCHANGED deliveryVars

WorkerStep(w) ==
    /\ TakeJob(w) \/ Retry(w) \/ Abandon(w) \/ WorkerExit(w)
    /\ UNCHANGED deliveryVars

--------------------------------------------------------------------------------
(* Requests. A statement that fails may have taken effect all the same. *)

Writing(h) == op[h].kind \in {"set", "delete"}
Alone(h)   == \A g \in Handlers \ {h} : ~Writing(g)

Begin(h, kind, u) ==
    /\ main = "running"
    /\ serving
    /\ op[h] = NoOp
    /\ op' = [op EXCEPT ![h] = [kind |-> kind, to |-> u]]
    /\ UNCHANGED <<vars, at, found, url, serving>>

Ends(h) == op' = [op EXCEPT ![h] = NoOp]

\* From now on a reader may find the old URL or the new one.
Unsettle ==
    /\ agreed' = AnyURL
    /\ want' = [e \in Events |-> IF at[e] = "reported" THEN AnyURL ELSE want[e]]

\* The URL a request leaves is agreed on if no other one is on its way.
Agree(h, u) == agreed' = IF Alone(h) THEN u ELSE AnyURL

\* 404 without a client; otherwise the statement is to come.
SetWebhook(h, u) ==
    /\ present
    /\ Begin(h, "set", u)
    /\ Unsettle
    /\ UNCHANGED present

ErrorIgnored(h) ==
    /\ main = "running"
    /\ op[h].kind = "set"
    /\ Ends(h)
    /\ url' = url \/ (Listed /\ url' = op[h].to)
    /\ Agree(h, op[h].to)
    /\ UNCHANGED <<vars, eventVars, present, serving>>

\* checkRowsAffected makes an error of an UPDATE that met no row.
UpdateInstanceWebhook(h) ==
    /\ main = "running"
    /\ op[h].kind = "set"
    /\ Ends(h)
    /\ \/ /\ Listed                            \* 200
          /\ url' = op[h].to
          /\ Agree(h, url')
       \/ /\ url' = url \/ (Listed /\ url' = op[h].to)   \* 500
          /\ UNCHANGED agreed
    /\ UNCHANGED <<vars, eventVars, present, serving>>

\* Before the statement, Delete drops the client and gives back the proxy.
Delete(h) ==
    /\ Begin(h, "delete", NoURL)
    /\ Unsettle
    /\ present' = FALSE

DeleteInstance(h) ==
    /\ op[h].kind = "delete"
    /\ Ends(h)
    /\ \/ /\ Listed                            \* 200, or 500 all the same
          /\ InstanceDeleted(Events)
          /\ url' = Unlisted
          /\ Agree(h, NoURL) \/ UNCHANGED agreed
       \/ /\ main = "running"                  \* 500: no row, or an error
          /\ UNCHANGED <<vars, url, agreed>>
    /\ UNCHANGED <<eventVars, present, serving>>

\* A request that writes none of this. SendMedia fetches an URL of the caller
\* through http.Get, which has no timeout: it may go on for ever.
Send(h) ==
    /\ Begin(h, "send", NoURL)
    /\ UNCHANGED <<want, present, agreed>>

SendEnds(h) ==
    /\ main = "running"
    /\ op[h].kind = "send"
    /\ Ends(h)
    /\ UNCHANGED <<vars, eventVars, url, present, agreed, serving>>

--------------------------------------------------------------------------------
(* main *)

Signal ==
    /\ main = "running"
    /\ serving
    /\ serving' = FALSE
    /\ UNCHANGED <<vars, eventVars, instanceVars>>

\* app.Shutdown waits for the requests in progress. Of the deferred calls only
\* webhookDispatcher.Stop, and db.Close after it, wait or touch any of this.
DrainsEvents == \A h \in Handlers, e \in Events : op[h] = NoOp /\ at[e] = "idle"
Drained == \A h \in Handlers : op[h] = NoOp

ShutdownReturns ==
    /\ ~serving
    /\ Drained
    /\ StopBegin
    /\ UNCHANGED deliveryVars

\* Main's other steps; and a crash, at any point.
Leave ==
    /\ StopReturns \/ CloseDB \/ Kill \/ \E w \in Workers : IndexPanic(w)
    /\ UNCHANGED deliveryVars

\* The requests and callbacks of the old process are gone. Whether main restores
\* the client depends on the session file and the row: see InstanceLifecycle.
StartAgain ==
    /\ Restart
    /\ at' = [e \in Events |-> "idle"]
    /\ found' = [e \in Events |-> NoURL]
    /\ want' = [e \in Events |-> AnyURL]
    /\ op' = [h \in Handlers |-> NoOp]
    /\ present' \in BOOLEAN
    /\ serving' = TRUE
    /\ UNCHANGED <<url, agreed>>

--------------------------------------------------------------------------------
Request(h) ==
    \/ \E u \in URLs \cup {NoURL} : SetWebhook(h, u)
    \/ UpdateInstanceWebhook(h)
    \/ Delete(h) \/ DeleteInstance(h)
    \/ Send(h) \/ SendEnds(h)

DeliveryNext ==
    \/ \E e \in Events :
          Report(e) \/ GetInstance(e) \/ DispatchFound(e) \/ DispatchToAll(e)
    \/ \E w \in Workers : PostAndLog(w) \/ WorkerStep(w)
    \/ \E h \in Handlers : Request(h)
    \/ Signal \/ ShutdownReturns \/ Leave \/ StartAgain

DeliverySpec == DeliveryInit /\ [][DeliveryNext]_allVars

\* Besides the fairness of the dispatcher: a statement of a request ends, and
\* app.Shutdown returns when the last request has. A send need not end.
DeliveryFairSpec ==
    /\ DeliverySpec
    /\ Fairness
    /\ \A h \in Handlers : WF_allVars(UpdateInstanceWebhook(h) \/ DeleteInstance(h))
    /\ WF_allVars(ShutdownReturns)

--------------------------------------------------------------------------------
(* Properties *)

\* The variables of the delivery have their types.
DeliveryTypeOK ==
    /\ TypeOK
    /\ at \in [Events -> {"idle", "reported", "found"}]
    /\ found \in [Events -> URLs \cup {NoURL}]
    /\ want \in [Events -> URLs \cup {NoURL, AnyURL}]
    /\ url \in URLs \cup {NoURL, Unlisted}
    /\ agreed \in URLs \cup {NoURL, AnyURL}
    /\ present \in BOOLEAN
    /\ op \in [Handlers -> [kind : {"none", "set", "delete", "send"}, to : URLs \cup {NoURL}]]
    /\ serving \in BOOLEAN

\* An event reported after the webhook of the instance was set, or the instance
\* deleted, by a request that was answered 200 and that no other overlapped, goes
\* to that URL, or to none: through crashes, failed requests and restarts, and
\* unless the lookup itself fails (dispatch:205-225).
GoesWhereAgreed ==
    \A e \in Events :
        at[e] = "found" /\ want[e] # AnyURL => found[e] = want[e]

\* A signal ends the process, whatever requests, events and jobs there are,
\* unless a request is busy with a send, which nothing bounds.
ShutdownEnds ==
    (~serving /\ \A h \in Handlers : op[h].kind # "send") ~> ~Alive
================================================================================
