----------------------------- MODULE ClientSession -----------------------------
(***************************************************************************)
(* One WhatsApp instance while the process runs: pkg/whatsapp/client.go,   *)
(* the requests of internal/handlers/instance.go that connect, disconnect, *)
(* unlink, restart and delete it, the status column the requests and the   *)
(* event bridge write, and the requests that only look at the client or    *)
(* send through it (message.go, contact.go, group.go). Five kinds of       *)
(* goroutines share a Client: the requests, the reconnection main starts   *)
(* for a restored instance, one handleQRChannel per QR login, the          *)
(* callbacks of whatsmeow, and whatsmeow itself, which dials again by      *)
(* itself after a lost connection.                                         *)
(*                                                                         *)
(* whatsmeow is not in the repository. It is taken to open at most one     *)
(* connection, to report the changes it did not cause one callback at a    *)
(* time and in order, and to end a QR channel after any item that is not a *)
(* code. A process that starts again begins in Restored.                   *)
(***************************************************************************)
EXTENDS Integers, Sequences

CONSTANTS Handlers,   \* the goroutines that serve requests, or reconnect
          Channels,   \* names for the QR channels: how many may be in use
          MaxEvents,  \* how many callbacks may wait
          Faults,     \* what may fail: "dial", the network; "logout",
                      \* unlinking; "sql", the writes of the status
          Nobody, NoChannel, NoCode

ASSUME SessionAssumption ==
    /\ MaxEvents \in Nat \ {0}
    /\ Faults \subseteq {"dial", "logout", "sql"}
    /\ Nobody \notin Handlers
    /\ NoChannel \notin Channels /\ NoCode \notin Channels /\ NoCode # NoChannel

VARIABLES present,    \* Manager.clients has the instance
          managerMu,  \* who holds Manager.mu for writing
          mu,         \* who holds Client.mu across more than one step
          pc,         \* pc[h]: where request h is
          fresh,      \* the Connect under way found Store.ID nil
          link,       \* whatsmeow's websocket: down, open, or up (logged in)
          retrying,   \* whatsmeow dials again when the link of a device is lost
          paired,     \* Store.ID is not nil
          connected,  \* Client.connected
          qr,         \* Client.currentQR: the channel its code came from
          qrChan,     \* Client.qrChan
          chan,       \* chan[k]: what whatsmeow sent into QR channel k
          reader,     \* reader[k]: the handleQRChannel started with channel k
          events,     \* the callbacks not yet finished, oldest first
          flagged,    \* the oldest has set the flag; its status is to be written
          status,     \* the status of the row, or "none" without a row
          late,       \* the connection was ended before a sign of it was handled
          overtaken,  \* people have connected or scanned faster than a
                      \* handleQRChannel started, or took the lock
          orphaned    \* a request connected the client it had looked up before
                      \* the instance was deleted

manager  == <<present, managerMu>>
whatsapp == <<link, retrying, paired>>
qrVars   == <<qr, qrChan, chan, reader>>
callback == <<events, flagged>>
history  == <<late, overtaken, orphaned>>
vars == <<manager, mu, pc, fresh, whatsapp, connected, qrVars, callback, status, history>>

Event    == {"connected", "disconnected", "logged_out"}
Last     == {"success", "timeout", "other"}   \* the items that end a QR channel
Statuses == Event \cup {"connecting", "none"}

Unused   == [open |-> FALSE, items |-> <<>>]
NoReader == [at |-> "none", from |-> NoChannel, item |-> "none"]
Starting == [at |-> "starting", from |-> NoChannel, item |-> "none"]

\* What tells that a login succeeded and has not been handled yet.
SuccessPending ==
    \E k \in Channels : \/ \E i \in 1..Len(chan[k].items) : chan[k].items[i] = "success"
                        \/ reader[k].item = "success"
LoginPending ==
    \E i \in 1..Len(events) : events[i] = "connected" /\ ~(i = 1 /\ flagged)

Quiet ==
    /\ managerMu = Nobody /\ mu = Nobody /\ fresh = FALSE
    /\ link = "down" /\ retrying = FALSE
    /\ connected = FALSE /\ qr = NoCode /\ qrChan = NoChannel
    /\ chan = [k \in Channels |-> Unused]
    /\ reader = [k \in Channels |-> NoReader]
    /\ events = <<>> /\ flagged = FALSE
    /\ late = FALSE /\ overtaken = FALSE /\ orphaned = FALSE

\* After POST /instance/create.
Created ==
    /\ Quiet
    /\ present = TRUE
    /\ pc = [h \in Handlers |-> "idle"]
    /\ paired = FALSE
    /\ status \in {"disconnected", "none"}

\* After RestoreAll: the device is in the session file and the status is the
\* last one of an earlier process; main starts the reconnection.
Restored ==
    /\ Quiet
    /\ present = TRUE
    /\ \E h \in Handlers : pc = [g \in Handlers |-> IF g = h THEN "reconnect" ELSE "idle"]
    /\ paired \in BOOLEAN
    /\ status \in Statuses

Init == Created \/ Restored

--------------------------------------------------------------------------------
(* Helpers *)

Goto(h, l) == pc' = [pc EXCEPT ![h] = l]

UpdateInstanceStatus(s) ==
    \/ status' = IF status = "none" THEN "none" ELSE s
    \/ "sql" \in Faults /\ UNCHANGED status

\* Client.Disconnect, and whatsmeow's, which reports nothing.
Disconnect ==
    /\ mu = Nobody
    /\ link' = "down"
    /\ retrying' = FALSE
    /\ connected' = FALSE
    /\ late' = (LoginPending \/ SuccessPending)
    /\ UNCHANGED <<mu, fresh, paired, qrVars, callback, overtaken, orphaned>>

--------------------------------------------------------------------------------
(* Requests *)

\* Each begins with GetInstance, which waits for a deletion under way.
Start(h) ==
    /\ pc[h] = "idle"
    /\ managerMu = Nobody
    /\ present
    /\ \E l \in {"connect", "disconnect", "logout", "restart", "look"} : Goto(h, l)
    /\ UNCHANGED <<manager, mu, fresh, whatsapp, connected, qrVars, callback, status, history>>

Connecting(h) == pc[h] \in {"connect", "reconnect"}
Dialing(h)    == pc[h] \in {"dial", "redial"}

\* A QR channel nobody uses any more.
Free(k) ==
    /\ reader[k] = NoReader
    /\ \A j \in Channels : reader[j].from # k
    /\ k = qrChan => ~chan[k].open

\* Every handleQRChannel has started and has nothing in hand.
ReadersKeepUp ==
    \A k \in Channels : reader[k].at # "starting" /\ reader[k].item = "none"

\* Client.Connect up to the call of whatsmeow's Connect: it keeps Client.mu.
ConnectBegins(h) ==
    /\ Connecting(h)
    /\ mu = Nobody
    /\ mu' = h
    /\ Goto(h, IF pc[h] = "connect" THEN "dial" ELSE "redial")
    /\ \/ /\ paired
          /\ fresh' = FALSE
          /\ UNCHANGED <<qrChan, chan, overtaken>>
       \/ /\ ~paired
          /\ link = "down"
          /\ fresh' = TRUE
          /\ overtaken' = (overtaken \/ ~ReadersKeepUp)
          /\ \E k \in Channels :
                /\ Free(k)
                /\ qrChan' = k
                /\ chan' = [chan EXCEPT ![k] = [open |-> TRUE, items |-> <<>>]]
    /\ UNCHANGED <<manager, whatsapp, connected, qr, reader, callback, status, late, orphaned>>

\* GetQRChannel fails: the answer is 500.
ConnectRefused(h) ==
    /\ Connecting(h)
    /\ mu = Nobody
    /\ ~paired
    /\ link # "down" \/ "dial" \in Faults
    /\ Goto(h, "idle")
    /\ UNCHANGED <<manager, mu, fresh, whatsapp, connected, qrVars, callback, status, history>>

DialSucceeds(h) ==
    /\ Dialing(h)
    /\ link = "down"
    /\ link' = "open"
    /\ retrying' = TRUE
    /\ reader' = IF fresh THEN [reader EXCEPT ![qrChan] = Starting] ELSE reader
    /\ mu' = Nobody
    /\ fresh' = FALSE
    /\ Goto(h, IF pc[h] = "dial" THEN "connecting" ELSE "idle")
    /\ orphaned' = (orphaned \/ ~present)
    /\ UNCHANGED <<manager, paired, connected, qr, qrChan, chan, callback, status,
                   late, overtaken>>

LeavesLocked(h) == UNCHANGED mu /\ fresh' = FALSE /\ Goto(h, "idle")
DialsAgain(h)   == UNCHANGED <<mu, fresh, pc>>
GivesUp(h)      == mu' = Nobody /\ fresh' = FALSE /\ Goto(h, "idle")

DialFails(h) ==
    /\ Dialing(h)
    /\ link # "down" \/ "dial" \in Faults
    /\ GivesUp(h)
    /\ UNCHANGED <<manager, whatsapp, connected, qrVars, callback, status, history>>

\* The ten readings of the code. The answer carries qr, if there is one by then.
Poll(h) ==
    /\ pc[h] = "poll"
    /\ mu = Nobody
    /\ Goto(h, "idle")
    /\ UNCHANGED <<manager, mu, fresh, whatsapp, connected, qrVars, callback, status, history>>

DisconnectClient(h) ==
    /\ \/ pc[h] = "disconnect" /\ Goto(h, "disconnecting")
       \/ pc[h] = "restart" /\ Goto(h, "reconnect")
       \/ pc[h] = "leave" /\ Goto(h, "loggingOut")
       \/ pc[h] = "leaveFailed" /\ Goto(h, "idle")
    /\ Disconnect
    /\ UNCHANGED <<manager, status>>

\* whatsmeow's Logout unlinks the device and closes the link, or fails.
Logout(h) ==
    /\ pc[h] = "logout"
    /\ \/ /\ link = "up"
          /\ link' = "down" /\ retrying' = FALSE /\ paired' = FALSE
          /\ late' = (LoginPending \/ SuccessPending)
          /\ Goto(h, "leave")
       \/ /\ link # "up" \/ "logout" \in Faults
          /\ Goto(h, "leaveFailed")
          /\ UNCHANGED <<whatsapp, history>>
    /\ UNCHANGED <<manager, mu, fresh, connected, qrVars, callback, status, overtaken,
                   orphaned>>

WriteStatus(h) ==
    /\ \/ pc[h] = "connecting" /\ UpdateInstanceStatus("connecting") /\ Goto(h, "poll")
       \/ pc[h] = "disconnecting" /\ UpdateInstanceStatus("disconnected") /\ Goto(h, "idle")
       \/ pc[h] = "loggingOut" /\ UpdateInstanceStatus("logged_out") /\ Goto(h, "idle")
    /\ UNCHANGED <<manager, mu, fresh, whatsapp, connected, qrVars, callback, history>>

\* IsConnected or GetQR, which wait for a Connect under way, in a round of the
\* health checker and in every request that shows an instance; a message, a
\* contact or a group request goes on if the flag is set (getClient).
Look(h) ==
    /\ pc[h] = "look"
    /\ mu = Nobody
    /\ \/ Goto(h, "idle")
       \/ connected /\ \E l \in {"media", "send"} : Goto(h, l)
    /\ UNCHANGED <<manager, mu, fresh, whatsapp, connected, qrVars, callback, status, history>>

\* From here a request holds no lock and asks for the flag no more. What is sent
\* is decoded, or fetched with http.Get, which has no timeout; or 400.
ResolveMedia(h) == pc[h] = "media" /\ (Goto(h, "upload") \/ Goto(h, "idle"))

\* whatsmeow's Upload; or 500.
Upload(h) == pc[h] = "upload" /\ (Goto(h, "send") \/ Goto(h, "idle"))

\* SendMessage, or the one call of a contact or group request: 200, 400 or 500.
SendMessage(h) == pc[h] = "send" /\ Goto(h, "idle")

Sending(h) ==
    /\ ResolveMedia(h) \/ Upload(h) \/ SendMessage(h)
    /\ UNCHANGED <<manager, mu, fresh, whatsapp, connected, qrVars, callback, status, history>>

\* DELETE takes the manager's lock and then waits for the client's.
Delete(h) ==
    /\ pc[h] = "idle"
    /\ managerMu = Nobody
    /\ \/ present /\ managerMu' = h /\ Goto(h, "delete")
       \/ ~present /\ UNCHANGED managerMu /\ Goto(h, "deleteRow")
    /\ UNCHANGED <<present, mu, fresh, whatsapp, connected, qrVars, callback, status, history>>

DeleteInstanceOnly(h) ==
    /\ pc[h] = "delete"
    /\ mu = Nobody
    /\ present' = FALSE
    /\ managerMu' = Nobody
    /\ Goto(h, "deleteRow")
    /\ UNCHANGED <<mu, fresh, whatsapp, connected, qrVars, callback, status, history>>

DeleteInstance(h) ==
    /\ pc[h] = "delete"
    /\ Disconnect
    /\ present' = FALSE
    /\ managerMu' = Nobody
    /\ Goto(h, "deleteRow")
    /\ UNCHANGED status

DeleteRow(h) ==
    /\ pc[h] = "deleteRow"
    /\ Goto(h, "idle")
    /\ status' = "none" \/ ("sql" \in Faults /\ UNCHANGED status)
    /\ UNCHANGED <<manager, mu, fresh, whatsapp, connected, qrVars, callback, history>>

Step(h) ==
    \/ ConnectBegins(h) \/ ConnectRefused(h) \/ DialSucceeds(h) \/ DialFails(h)
    \/ Poll(h) \/ Look(h) \/ DisconnectClient(h) \/ Logout(h) \/ WriteStatus(h)
    \/ DeleteInstance(h) \/ DeleteRow(h)

--------------------------------------------------------------------------------
(* handleQRChannel *)

\* The range statement reads c.qrChan once, without the lock.
ReaderStarts(k) ==
    /\ reader[k].at = "starting"
    /\ reader' = [reader EXCEPT ![k] = [at |-> "reading", from |-> qrChan, item |-> "none"]]
    /\ UNCHANGED <<manager, mu, pc, fresh, whatsapp, connected, qr, qrChan, chan,
                   callback, status, history>>

Receive(k) ==
    LET c == reader[k].from IN
    /\ reader[k].at = "reading"
    /\ reader[k].item = "none"
    /\ \/ /\ chan[c].items # <<>>
          /\ reader' = [reader EXCEPT ![k].item = Head(chan[c].items)]
          /\ chan' = [chan EXCEPT ![c].items = Tail(@)]
       \/ /\ chan[c].items = <<>> /\ ~chan[c].open
          /\ reader' = [reader EXCEPT ![k] = NoReader]
          /\ UNCHANGED chan
    /\ UNCHANGED <<manager, mu, pc, fresh, whatsapp, connected, qr, qrChan,
                   callback, status, history>>

CodeAfterBut(item, code) == IF item = "code" THEN code ELSE qr
CodeAfter(item, code) ==
    CASE item = "code" -> code
      [] item \in {"success", "timeout"} -> NoCode
      [] item = "other" -> qr

FlagAfterItemBut(item) == item = "success"
FlagAfterItem(item) == connected \/ item = "success"

HandleItem(k) ==
    /\ reader[k].item # "none"
    /\ mu = Nobody
    /\ qr' = CodeAfter(reader[k].item, reader[k].from)
    /\ connected' = FlagAfterItem(reader[k].item)
    /\ reader' = [reader EXCEPT ![k].item = "none"]
    /\ UNCHANGED <<manager, mu, pc, fresh, whatsapp, qrChan, chan, callback, status, history>>

--------------------------------------------------------------------------------
(* The callbacks: registerEventHandler, then EventBridge.HandleEvent *)

FlagAfterBut(e) == IF e = "logged_out" THEN connected ELSE e = "connected"
FlagAfter(e) == e = "connected"

SetFlag ==
    /\ events # <<>> /\ ~flagged
    /\ mu = Nobody
    /\ connected' = FlagAfter(Head(events))
    /\ flagged' = TRUE
    /\ UNCHANGED <<manager, mu, pc, fresh, whatsapp, qrVars, events, status, history>>

HandleEvent ==
    /\ flagged
    /\ UpdateInstanceStatus(Head(events))
    /\ events' = Tail(events)
    /\ flagged' = FALSE
    /\ UNCHANGED <<manager, mu, pc, fresh, whatsapp, connected, qrVars, history>>

--------------------------------------------------------------------------------
(* whatsmeow and the phone *)

Report(e) ==
    /\ Len(events) < MaxEvents
    /\ events' = Append(events, e)
    /\ UNCHANGED flagged

Sent(k, item) == [open |-> item = "code", items |-> Append(chan[k].items, item)]

SendItem(k, item) ==
    /\ chan[k].open /\ chan[k].items = <<>>
    /\ chan' = [chan EXCEPT ![k] = Sent(k, item)]

\* A new code; or the codes run out, or the login fails, which ends the channel
\* and, if it is still the one in use, the link.
SendCode(k) ==
    /\ SendItem(k, "code")
    /\ UNCHANGED <<manager, mu, pc, fresh, whatsapp, connected, qr, qrChan, reader,
                   callback, status, history>>

EndChannel(k) ==
    /\ \E item \in {"timeout", "other"} : SendItem(k, item)
    /\ \/ k = qrChan /\ link = "open" /\ link' = "down" /\ retrying' = FALSE
       \/ k # qrChan /\ UNCHANGED <<link, retrying>>
       \/ link = "down" /\ UNCHANGED <<link, retrying>>
    /\ UNCHANGED <<manager, mu, pc, fresh, paired, connected, qr, qrChan, reader,
                   callback, status, history>>

\* The phone scans the code the API shows: every open channel hears of it.
Scan ==
    /\ link = "open" /\ ~paired
    /\ qr = qrChan /\ chan[qrChan].open
    /\ paired' = TRUE
    /\ overtaken' = (overtaken \/ ~ReadersKeepUp)
    /\ chan' = [k \in Channels |-> IF chan[k].open THEN Sent(k, "success") ELSE chan[k]]
    /\ UNCHANGED <<manager, mu, pc, fresh, link, retrying, connected, qr, qrChan, reader,
                   callback, status, late, orphaned>>

Login ==
    /\ link = "open" /\ paired
    /\ link' = "up"
    /\ late' = FALSE
    /\ Report("connected")
    /\ UNCHANGED <<manager, mu, pc, fresh, retrying, paired, connected, qrVars, status,
                   overtaken, orphaned>>

Drop ==
    /\ link \in {"open", "up"}
    /\ link' = "down"
    /\ late' = SuccessPending
    /\ Report("disconnected")
    /\ UNCHANGED <<manager, mu, pc, fresh, retrying, paired, connected, qrVars, status,
                   overtaken, orphaned>>

Redial ==
    /\ link = "down" /\ retrying /\ paired
    /\ link' = "open"
    /\ UNCHANGED <<manager, mu, pc, fresh, retrying, paired, connected, qrVars, callback,
                   status, history>>

\* The phone unlinks the device.
Unlinked ==
    /\ link = "up"
    /\ link' = "down" /\ retrying' = FALSE /\ paired' = FALSE
    /\ late' = SuccessPending
    /\ Report("logged_out")
    /\ UNCHANGED <<manager, mu, pc, fresh, connected, qrVars, status, overtaken, orphaned>>

--------------------------------------------------------------------------------
Next ==
    \/ \E h \in Handlers : Start(h) \/ Delete(h) \/ Sending(h) \/ Step(h)
    \/ \E k \in Channels : \/ ReaderStarts(k) \/ Receive(k) \/ HandleItem(k)
                           \/ SendCode(k) \/ EndChannel(k)
    \/ SetFlag \/ HandleEvent
    \/ Scan \/ Login \/ Drop \/ Redial \/ Unlinked

\* Requests, callbacks and readers are scheduled, the mutexes of Go are handed to
\* the one that waits, and a dial or a statement ends, with or without success.
\* A send need not end: nothing bounds the download of its media.
Fairness ==
    /\ \A h \in Handlers : SF_vars(Step(h))
    /\ SF_vars(SetFlag) /\ WF_vars(HandleEvent)
    /\ \A k \in Channels : /\ WF_vars(ReaderStarts(k))
                           /\ WF_vars(Receive(k))
                           /\ SF_vars(HandleItem(k))

Spec == Init /\ [][Next]_vars

FairSpec == Spec /\ Fairness

--------------------------------------------------------------------------------
(* Properties *)

Places ==
    {"idle", "connect", "reconnect", "dial", "redial", "connecting", "poll",
     "disconnect", "disconnecting", "restart", "logout", "leave", "leaveFailed",
     "loggingOut", "delete", "deleteRow", "look", "media", "upload", "send"}

QRChannel == [open : BOOLEAN, items : Seq({"code"} \cup Last)]
Reader    == [at : {"none", "starting", "reading"}, from : Channels \cup {NoChannel},
              item : {"none", "code"} \cup Last]

LocksOK ==
    /\ pc \in [Handlers -> Places]
    /\ mu \in Handlers \cup {Nobody}
    /\ \A h \in Handlers : Dialing(h) <=> mu = h
    /\ managerMu \in Handlers \cup {Nobody}
    /\ \A h \in Handlers : pc[h] = "delete" <=> managerMu = h
    /\ fresh \in BOOLEAN /\ (fresh => mu # Nobody)

ClientOK ==
    /\ link \in {"down", "open", "up"} /\ retrying \in BOOLEAN /\ paired \in BOOLEAN
    /\ connected \in BOOLEAN
    /\ events \in Seq(Event) /\ Len(events) <= MaxEvents
    /\ flagged \in BOOLEAN /\ (flagged => events # <<>>)
    /\ late \in BOOLEAN /\ overtaken \in BOOLEAN /\ orphaned \in BOOLEAN

ReadersOK ==
    /\ qr \in Channels \cup {NoCode}
    /\ qrChan \in Channels \cup {NoChannel} /\ (fresh => qrChan # NoChannel)
    /\ chan \in [Channels -> QRChannel]
    /\ reader \in [Channels -> Reader]
    /\ \A k \in Channels : /\ reader[k].at = "starting" => qrChan # NoChannel
                           /\ reader[k].at = "reading" => reader[k].from # NoChannel
                           /\ reader[k].item # "none" => reader[k].at = "reading"

\* Each variable has its type. Client.mu is held across steps by exactly the request
\* that dials, Manager.mu by exactly the one that deletes, and a reader reads a
\* channel that exists.
TypeOK ==
    /\ present \in BOOLEAN /\ status \in Statuses
    /\ LocksOK /\ ClientOK /\ ReadersOK

\* A client that is logged in is reported connected, or the callback that will say
\* so waits: no disconnection of an earlier connection, no QR item and no request
\* that fails can take the flag away from a link that is up.
UpIsSeen == link = "up" => connected \/ LoginPending

\* A client reported connected with its link down is one whose callback waits, whose
\* Logout is under way, or whose connection was ended before a sign of its login
\* was handled. No path of the code, a failed Connect, Logout or Restart included,
\* forgets the flag.
DownIsSeen ==
    connected /\ link = "down" =>
        \/ late
        \/ \E h \in Handlers : pc[h] = "leave"
        \/ \E i \in 1..Len(events) : events[i] # "connected" /\ ~(i = 1 /\ flagged)

\* Once a device is linked and the goroutines of its QR logins have returned, no
\* code is left for GET /qrcode or for the answer to the next Connect. It holds until
\* people overtake one of these goroutines.
NoCodeOncePaired ==
    ~overtaken /\ paired /\ (\A k \in Channels : reader[k] = NoReader) => qr = NoCode

\* The client of a deleted instance has no connection and whatsmeow opens none for
\* it, whatever logins, drops, redials and sends were under way: nobody could end
\* one any more. Only a request that had looked the client up before the deletion,
\* and waited for a lock or a statement meanwhile, opens one (instance.go:113).
DeletedIsSilent == ~present => orphaned \/ (link = "down" /\ ~retrying)

\* The next step of h needs a lock that g has: Client.mu, or Manager.mu to begin.
NeedsClient(h) ==
    pc[h] \in {"connect", "reconnect", "poll", "look", "disconnect", "restart", "leave",
               "leaveFailed", "delete"}
WaitsFor(h, g) ==
    \/ NeedsClient(h) /\ mu = g
    \/ pc[h] = "idle" /\ managerMu = g

\* No request waits for itself, and the request at the end of two waits waits for
\* none: Manager.mu is taken before Client.mu, no path returns with either, and no
\* method that locks the client calls another (DeleteInstance:121, Logout:224).
LocksInOrder ==
    \A h, g \in Handlers :
        WaitsFor(h, g) =>
            /\ g # h
            /\ \A f, e \in Handlers : WaitsFor(g, f) => ~WaitsFor(f, e)

\* A login is reported as long as it lasts: the callback gets the lock through
\* connections that fail, readers and deletions.
UpIsReported == link = "up" ~> connected \/ link # "up"

Resting == {"idle", "media", "upload", "send"}

\* Every request ends, or waits for the media or the answer of its message,
\* whatever others hold or wait for: the locks are taken in one order, no path
\* returns with one of them, and a download that never ends holds none.
RequestsEnd == \A h \in Handlers : pc[h] \notin Resting ~> pc[h] \in Resting

Settled ==
    /\ \A h \in Handlers : pc[h] = "idle"
    /\ events = <<>>
    /\ \A k \in Channels : reader[k] = NoReader

\* "Wait a bit for QR code to be generated" (instance.go:120): the code a Connect
\* answers with is one of the login it began.
AnswerIsCurrent == \A h \in Handlers : pc[h] = "poll" => qr \in {NoCode, qrChan}

\* "const connected = inst.status === 'connected'" (web/index.html:391): an
\* instance that is logged in is not shown as one still to be connected.
UpIsListed == Settled /\ link = "up" => status # "connecting"
================================================================================
