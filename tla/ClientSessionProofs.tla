-------------------------- MODULE ClientSessionProofs --------------------------
(***************************************************************************)
(* What the requests, the callbacks and the readers of a session preserve, *)
(* for any number of requests, QR channels and waiting callbacks: the      *)
(* types, the agreement of Client.connected with the link, and the end of  *)
(* the QR codes.                                                           *)
(***************************************************************************)
EXTENDS ClientSession, SequenceTheorems, TLAPS

Waits(i) == i \in 1..Len(events) /\ ~(i = 1 /\ flagged)
OffWaits == \E i \in 1..Len(events) : Waits(i) /\ events[i] # "connected"

\* While the link is up, the last callback that waits reports the login, or none
\* waits and the flag is set.
UpInv ==
    link = "up" =>
        \/ Waits(Len(events)) /\ events[Len(events)] = "connected"
        \/ connected /\ \A i \in 1..Len(events) : ~Waits(i)

\* A QR channel is open only while no device is linked; a link is up only with one.
ChannelsInv ==
    /\ \A k \in Channels : chan[k].open => ~paired
    /\ link = "up" => paired

Off     == link = "down" \/ ~paired
Leaving == \E h \in Handlers : pc[h] = "leave"

\* Once the link is off, what is left of a login is followed by the callback that
\* takes the flag away, or the connection was ended too late.
DownInv ==
    /\ SuccessPending /\ Off => late
    /\ link # "up" /\ ~late =>
           \A i \in 1..Len(events) : Waits(i) /\ events[i] = "connected" =>
               \E j \in 1..Len(events) : i < j /\ events[j] # "connected"
    /\ connected /\ Off => late \/ OffWaits \/ Leaving

DInv == ChannelsInv /\ DownInv

--------------------------------------------------------------------------------
(* Types *)

LEMMA StepLocks ==
    ASSUME TypeOK, NEW h \in Handlers, Step(h)
    PROVE  LocksOK'
<1> USE SessionAssumption DEF Goto, Places, manager
<1>0. LocksOK
  BY DEF TypeOK
<1>1. CASE ConnectBegins(h)
  <2>1. fresh' \in BOOLEAN
    BY <1>1 DEF ConnectBegins
  <2> QED
    BY <1>0, <1>1, <2>1 DEF ConnectBegins, Connecting, Dialing, LocksOK
<1>2. CASE ConnectRefused(h)
  BY <1>0, <1>2 DEF ConnectRefused, Connecting, Dialing, LocksOK
<1>3. CASE DialSucceeds(h)
  BY <1>0, <1>3 DEF DialSucceeds, Dialing, LocksOK
<1>4. CASE DialFails(h)
  BY <1>0, <1>4 DEF DialFails, GivesUp, Dialing, LocksOK
<1>5. CASE Poll(h)
  BY <1>0, <1>5 DEF Poll, Look, Dialing, LocksOK
<1>11. CASE Look(h)
  BY <1>0, <1>11 DEF Look, Dialing, LocksOK
<1>6. CASE DisconnectClient(h)
  BY <1>0, <1>6 DEF DisconnectClient, Disconnect, Dialing, LocksOK
<1>7. CASE Logout(h)
  BY <1>0, <1>7 DEF Logout, Dialing, LocksOK
<1>8. CASE WriteStatus(h)
  BY <1>0, <1>8 DEF WriteStatus, Dialing, LocksOK
<1>9. CASE DeleteInstance(h)
  BY <1>0, <1>9 DEF DeleteInstance, Disconnect, Dialing, LocksOK
<1>10. CASE DeleteRow(h)
  BY <1>0, <1>10 DEF DeleteRow, Dialing, LocksOK
<1> QED
  BY <1>1, <1>2, <1>3, <1>4, <1>5, <1>6, <1>7, <1>8, <1>9, <1>10, <1>11 DEF Step

LEMMA StepTypes ==
    ASSUME TypeOK, NEW h \in Handlers, Step(h)
    PROVE  TypeOK'
<1> USE SessionAssumption
<1>0. LocksOK'
  BY StepLocks
<1>1. ClientOK /\ ReadersOK
  BY DEF TypeOK
<1>2. present' \in BOOLEAN /\ status' \in Statuses
  BY DEF Step, ConnectBegins, ConnectRefused, DialSucceeds, DialFails, Poll, Look,
         DisconnectClient, Logout, WriteStatus, DeleteInstance, DeleteRow,
         UpdateInstanceStatus, manager, TypeOK, Statuses, Event
<1>3. ClientOK'
  <2>1. LoginPending \in BOOLEAN /\ SuccessPending \in BOOLEAN
    BY DEF LoginPending, SuccessPending
  <2>2. CASE Disconnect
    BY <1>1, <2>1, <2>2 DEF Disconnect, ClientOK, callback
  <2>3. CASE Logout(h)
    BY <1>1, <2>1, <2>3 DEF Logout, ClientOK, callback, whatsapp, history
  <2>4. CASE DialSucceeds(h)
    BY <1>1, <2>4 DEF DialSucceeds, ClientOK, callback, history
  <2>5. CASE /\ UNCHANGED <<whatsapp, connected, callback, late, orphaned>>
             /\ overtaken' \in BOOLEAN
    BY <1>1, <2>5 DEF ClientOK, callback, whatsapp
  <2>6. overtaken' \in BOOLEAN
    BY <1>1 DEF Step, ConnectBegins, ConnectRefused, DialSucceeds, DialFails, Poll, Look,
                DisconnectClient, Disconnect, Logout, WriteStatus, DeleteInstance, DeleteRow,
                history, ReadersKeepUp, ClientOK
  <2> QED
    BY <2>2, <2>3, <2>4, <2>5, <2>6
       DEF Step, ConnectBegins, ConnectRefused, DialFails, Poll, Look, DisconnectClient,
           WriteStatus, DeleteInstance, DeleteRow, history
<1>4. ReadersOK'
  <2>1. CASE ConnectBegins(h)
    <3>1. CASE paired /\ fresh' = FALSE /\ UNCHANGED <<qrChan, chan, overtaken>>
      BY <1>1, <2>1, <3>1 DEF ConnectBegins, ReadersOK
    <3>2. ASSUME NEW k \in Channels, qrChan' = k,
                 chan' = [chan EXCEPT ![k] = [open |-> TRUE, items |-> <<>>]]
          PROVE  ReadersOK'
      <4>1. chan' \in [Channels -> QRChannel]
        BY <1>1, <3>2 DEF ReadersOK, QRChannel
      <4> QED
        BY <1>1, <2>1, <3>2, <4>1 DEF ConnectBegins, ReadersOK
    <3> QED
      BY <2>1, <3>1, <3>2 DEF ConnectBegins
  <2>2. CASE DialSucceeds(h)
    <3>1. CASE fresh
      <4>1. qrChan \in Channels /\ Starting \in Reader
        BY <1>1, <3>1 DEF ReadersOK, Starting, Reader
      <4> QED
        BY <1>1, <2>2, <3>1, <4>1 DEF DialSucceeds, ReadersOK, Starting
    <3>2. CASE ~fresh
      BY <1>1, <2>2, <3>2 DEF DialSucceeds, ReadersOK
    <3> QED BY <3>1, <3>2
  <2>3. CASE UNCHANGED qrVars /\ (fresh' => fresh)
    BY <1>1, <2>3 DEF ReadersOK, qrVars
  <2> QED
    BY <2>1, <2>2, <2>3
       DEF Step, ConnectRefused, DialFails, GivesUp, Poll, Look, DisconnectClient, Disconnect,
           Logout, WriteStatus, DeleteInstance, DeleteRow
<1> QED BY <1>0, <1>2, <1>3, <1>4 DEF TypeOK

LEMMA RequestTypes ==
    ASSUME TypeOK, NEW h \in Handlers, Start(h) \/ Delete(h) \/ Sending(h)
    PROVE  TypeOK'
<1>1. LocksOK'
  <2>1. LocksOK
    BY DEF TypeOK
  <2> QED
    BY <2>1, SessionAssumption DEF Start, Delete, Sending, ResolveMedia, Upload,
        SendMessage, Goto, Dialing, Places, LocksOK, manager
<1>2. UNCHANGED <<present, fresh, whatsapp, connected, qrVars, callback, status, history>>
  BY DEF Start, Delete, Sending, ResolveMedia, Upload, SendMessage, manager
<1> QED
  BY <1>1, <1>2 DEF TypeOK, ClientOK, ReadersOK, whatsapp, qrVars, callback, history

LEMMA ReaderTypes ==
    ASSUME TypeOK, NEW k \in Channels,
           ReaderStarts(k) \/ Receive(k) \/ HandleItem(k)
    PROVE  TypeOK'
<1> USE SessionAssumption
<1>0. ReadersOK /\ reader[k] \in Reader
  BY DEF TypeOK, ReadersOK
<1>1. ReadersOK'
  <2>1. CASE ReaderStarts(k)
    <3>1. /\ qrChan \in Channels
          /\ [at |-> "reading", from |-> qrChan, item |-> "none"] \in Reader
      BY <1>0, <2>1 DEF ReaderStarts, ReadersOK, Reader
    <3> QED
      BY <1>0, <2>1, <3>1 DEF ReaderStarts, ReadersOK
  <2>2. CASE Receive(k)
    <3> DEFINE c == reader[k].from
    <3>1. c \in Channels /\ chan[c] \in QRChannel
      BY <1>0, <2>2 DEF Receive, ReadersOK, Reader
    <3>2. CASE /\ chan[c].items # <<>>
               /\ reader' = [reader EXCEPT ![k].item = Head(chan[c].items)]
               /\ chan' = [chan EXCEPT ![c].items = Tail(@)]
      <4>1. Head(chan[c].items) \in {"code"} \cup Last
        BY <3>1, <3>2 DEF QRChannel
      <4>2. [chan[c] EXCEPT !.items = Tail(@)] \in QRChannel
        <5>1. Tail(chan[c].items) \in Seq({"code"} \cup Last)
          BY <3>1, <3>2 DEF QRChannel
        <5> QED BY <3>1, <5>1 DEF QRChannel
      <4>3. [reader[k] EXCEPT !.item = Head(chan[c].items)] \in Reader
        BY <1>0, <4>1 DEF Reader
      <4>4. chan' \in [Channels -> QRChannel] /\ reader' \in [Channels -> Reader]
        BY <1>0, <3>1, <3>2, <4>2, <4>3 DEF ReadersOK
      <4>5. \A j \in Channels : reader'[j].at = reader[j].at /\ reader'[j].from = reader[j].from
        BY <1>0, <3>2 DEF ReadersOK, Reader
      <4>6. \A j \in Channels : j # k => reader'[j] = reader[j]
        BY <1>0, <3>2 DEF ReadersOK
      <4> QED
        BY <1>0, <2>2, <4>4, <4>5, <4>6 DEF Receive, ReadersOK
    <3>3. CASE UNCHANGED chan /\ reader' = [reader EXCEPT ![k] = NoReader]
      <4>1. NoReader \in Reader
        BY DEF NoReader, Reader
      <4> QED
        BY <1>0, <2>2, <3>3, <4>1 DEF Receive, ReadersOK, NoReader
    <3> QED BY <2>2, <3>2, <3>3 DEF Receive
  <2>3. CASE HandleItem(k)
    <3>1. reader[k].from \in Channels /\ reader[k].item \in {"code"} \cup Last
      BY <1>0, <2>3 DEF HandleItem, ReadersOK, Reader
    <3>2. qr' \in Channels \cup {NoCode}
      BY <1>0, <2>3, <3>1 DEF HandleItem, CodeAfter, ReadersOK, Last
    <3>3. [reader[k] EXCEPT !.item = "none"] \in Reader
      BY <1>0 DEF Reader
    <3>4. reader' \in [Channels -> Reader]
      BY <1>0, <2>3, <3>3 DEF HandleItem, ReadersOK
    <3>5. \A j \in Channels : /\ reader'[j].at = reader[j].at /\ reader'[j].from = reader[j].from
                              /\ j # k => reader'[j] = reader[j]
                              /\ reader'[k].item = "none"
      BY <1>0, <2>3 DEF HandleItem, ReadersOK, Reader
    <3> QED
      BY <1>0, <2>3, <3>2, <3>4, <3>5 DEF HandleItem, ReadersOK
  <2> QED BY <2>1, <2>2, <2>3
<1>2. LocksOK'
  BY DEF TypeOK, LocksOK, Dialing, ReaderStarts, Receive, HandleItem, manager
<1>3. ClientOK'
  <2>1. connected' \in BOOLEAN
    BY DEF ReaderStarts, Receive, HandleItem, FlagAfterItem, TypeOK, ClientOK
  <2> QED
    BY <2>1 DEF ReaderStarts, Receive, HandleItem, TypeOK, ClientOK, whatsapp, callback,
                history
<1> QED
  BY <1>1, <1>2, <1>3 DEF TypeOK, ReaderStarts, Receive, HandleItem, manager

LEMMA CallbackTypes ==
    ASSUME TypeOK, SetFlag \/ HandleEvent
    PROVE  TypeOK'
<1>1. LocksOK' /\ ReadersOK' /\ present' \in BOOLEAN
  BY DEF SetFlag, HandleEvent, TypeOK, LocksOK, Dialing, ReadersOK, manager, qrVars
<1>2. CASE SetFlag
  BY <1>1, <1>2 DEF SetFlag, FlagAfter, TypeOK, ClientOK, whatsapp, history
<1>3. CASE HandleEvent
  <2>1. events # <<>> /\ Head(events) \in Event
    BY <1>3 DEF HandleEvent, TypeOK, ClientOK
  <2>2. events' \in Seq(Event) /\ Len(events') <= MaxEvents
    BY <1>3, <2>1, SessionAssumption DEF HandleEvent, TypeOK, ClientOK
  <2>3. status' \in Statuses
    BY <1>3, <2>1 DEF HandleEvent, UpdateInstanceStatus, TypeOK, Statuses
  <2> QED
    BY <1>1, <1>3, <2>2, <2>3 DEF HandleEvent, TypeOK, ClientOK, whatsapp, history
<1> QED BY <1>2, <1>3

LEMMA WhatsAppTypes ==
    ASSUME TypeOK,
           \/ \E k \in Channels : SendCode(k) \/ EndChannel(k)
           \/ Scan \/ Login \/ Drop \/ Redial \/ Unlinked
    PROVE  TypeOK'
<1>1. LocksOK' /\ present' \in BOOLEAN /\ status' \in Statuses
  BY DEF SendCode, EndChannel, Scan, Login, Drop, Redial, Unlinked,
         TypeOK, LocksOK, Dialing, manager
<1>2. ReadersOK'
  <2>1. ASSUME NEW k \in Channels, NEW item \in {"code"} \cup Last
        PROVE  Sent(k, item) \in QRChannel
    <3>1. chan[k].items \in Seq({"code"} \cup Last)
      BY DEF TypeOK, ReadersOK, QRChannel
    <3>2. Append(chan[k].items, item) \in Seq({"code"} \cup Last)
      BY <3>1
    <3> QED BY <3>2 DEF Sent, QRChannel
  <2>2. CASE \E k \in Channels : SendCode(k) \/ EndChannel(k)
    <3>1. PICK k \in Channels, item \in {"code"} \cup Last : SendItem(k, item)
      BY <2>2 DEF SendCode, EndChannel, Last
    <3>2. chan' \in [Channels -> QRChannel]
      BY <2>1, <3>1 DEF SendItem, TypeOK, ReadersOK
    <3> QED
      BY <2>2, <3>2 DEF SendCode, EndChannel, TypeOK, ReadersOK
  <2>3. CASE Scan
    <3>1. chan' \in [Channels -> QRChannel]
      BY <2>1, <2>3 DEF Scan, Last, TypeOK, ReadersOK
    <3> QED BY <2>3, <3>1 DEF Scan, TypeOK, ReadersOK
  <2>4. CASE Login \/ Drop \/ Redial \/ Unlinked
    BY <2>4 DEF Login, Drop, Redial, Unlinked, TypeOK, ReadersOK, qrVars
  <2> QED BY <2>2, <2>3, <2>4
<1>3. ClientOK'
  <2>1. ClientOK
    BY DEF TypeOK
  <2>2. ASSUME NEW e \in Event, Report(e)
        PROVE  /\ events' \in Seq(Event) /\ Len(events') <= MaxEvents /\ events' # <<>>
               /\ flagged' = flagged
    BY <2>1, <2>2, SessionAssumption DEF Report, ClientOK
  <2>3. CASE Login
    <3>1. Report("connected") /\ "connected" \in Event
      BY <2>3 DEF Login, Event
    <3> QED BY <2>1, <2>2, <2>3, <3>1 DEF Login, ClientOK
  <2>4. CASE Drop
    <3>1. Report("disconnected") /\ "disconnected" \in Event
      BY <2>4 DEF Drop, Event
    <3>2. late' \in BOOLEAN
      BY <2>4 DEF Drop, SuccessPending
    <3> QED BY <2>1, <2>2, <2>4, <3>1, <3>2 DEF Drop, ClientOK
  <2>5. CASE Unlinked
    <3>1. Report("logged_out") /\ "logged_out" \in Event
      BY <2>5 DEF Unlinked, Event
    <3>2. late' \in BOOLEAN
      BY <2>5 DEF Unlinked, SuccessPending
    <3> QED BY <2>1, <2>2, <2>5, <3>1, <3>2 DEF Unlinked, ClientOK
  <2>6. CASE Redial \/ Scan \/ \E k \in Channels : SendCode(k) \/ EndChannel(k)
    <3>1. /\ link' \in {"down", "open", "up"} /\ retrying' \in BOOLEAN /\ paired' \in BOOLEAN
          /\ UNCHANGED <<connected, events, flagged, late, orphaned>>
          /\ overtaken' \in BOOLEAN
      BY <2>1, <2>6 DEF Redial, Scan, SendCode, EndChannel, ClientOK, whatsapp, callback,
                        history, ReadersKeepUp
    <3> QED BY <2>1, <3>1 DEF ClientOK
  <2> QED BY <2>3, <2>4, <2>5, <2>6
<1> QED BY <1>1, <1>2, <1>3 DEF TypeOK

LEMMA InitTypes == Init => TypeOK
<1> SUFFICES ASSUME Init PROVE TypeOK
  OBVIOUS
<1> USE SessionAssumption
<1>1. Quiet /\ present = TRUE
  BY DEF Init, Created, Restored
<1>2. LocksOK
  <2>1. pc \in [Handlers -> {"idle", "reconnect"}]
    BY DEF Init, Created, Restored
  <2> QED BY <1>1, <2>1 DEF Quiet, LocksOK, Places, Dialing
<1>3. ClientOK
  <2>1. paired \in BOOLEAN
    BY DEF Init, Created, Restored
  <2>2. events \in Seq(Event) /\ Len(events) <= MaxEvents
    BY <1>1 DEF Quiet
  <2> QED BY <1>1, <2>1, <2>2 DEF Quiet, ClientOK
<1>4. ReadersOK
  <2>1. Unused \in QRChannel /\ NoReader \in Reader
    BY DEF Unused, QRChannel, NoReader, Reader
  <2> QED BY <1>1, <2>1 DEF Quiet, ReadersOK, NoReader
<1>5. status \in Statuses
  BY DEF Init, Created, Restored, Statuses, Event
<1> QED BY <1>1, <1>2, <1>3, <1>4, <1>5 DEF TypeOK

LEMMA NextTypes == TypeOK /\ [Next]_vars => TypeOK'
<1> SUFFICES ASSUME TypeOK, [Next]_vars PROVE TypeOK'
  OBVIOUS
<1>1. CASE UNCHANGED vars
  BY <1>1 DEF vars, manager, whatsapp, qrVars, callback, history, TypeOK, LocksOK, ClientOK,
              ReadersOK, Dialing
<1> QED
  BY <1>1, StepTypes, RequestTypes, ReaderTypes, CallbackTypes, WhatsAppTypes DEF Next

\* The types hold in every state: Client.mu and Manager.mu are held by the request
\* that dials and the request that deletes, and by nobody else.
THEOREM TypeCorrect == Spec => []TypeOK
BY InitTypes, NextTypes, PTL DEF Spec

--------------------------------------------------------------------------------
(* The locks *)

\* A request that waits for another takes no step of its own.
LEMMA WaitersWait ==
    ASSUME NEW h \in Handlers, NEW g \in Handlers, WaitsFor(h, g)
    PROVE  ~Start(h) /\ ~Delete(h) /\ ~Sending(h) /\ ~Step(h)
<1> USE SessionAssumption
<1>1. CASE NeedsClient(h) /\ mu = g
  BY <1>1 DEF NeedsClient, Start, Delete, Sending, ResolveMedia, Upload, SendMessage, Step,
              ConnectBegins, ConnectRefused, DialSucceeds, DialFails, Dialing, Poll, Look,
              DisconnectClient, Disconnect, Logout, WriteStatus, DeleteInstance, DeleteRow
<1>2. CASE pc[h] = "idle" /\ managerMu = g
  BY <1>2 DEF Start, Delete, Sending, ResolveMedia, Upload, SendMessage, Step, ConnectBegins,
              ConnectRefused, Connecting, DialSucceeds, DialFails, Dialing, Poll, Look,
              DisconnectClient, Logout, WriteStatus, DeleteInstance, DeleteRow
<1> QED
  BY <1>1, <1>2 DEF WaitsFor

\* However many requests share the client, no wait for its lock or the manager's
\* closes a circle: the request that dials waits for nobody, and the one that
\* deletes at most for it.
THEOREM LocksNeverCircular == Spec => []LocksInOrder
<1>1. TypeOK => LocksInOrder
  <2> SUFFICES ASSUME TypeOK, NEW h \in Handlers, NEW g \in Handlers, WaitsFor(h, g)
               PROVE  /\ g # h
                      /\ \A f, e \in Handlers : WaitsFor(g, f) => ~WaitsFor(f, e)
    BY DEF LocksInOrder
  <2>1. ASSUME NEW e \in Handlers, mu = e
        PROVE  /\ ~NeedsClient(e)
               /\ \A f \in Handlers : ~WaitsFor(e, f)
    BY <2>1 DEF TypeOK, LocksOK, Dialing, NeedsClient, WaitsFor
  <2>2. CASE mu = g
    BY <2>1, <2>2 DEF WaitsFor, TypeOK, LocksOK, Dialing
  <2>3. CASE managerMu = g /\ pc[h] = "idle"
    <3>1. pc[g] = "delete"
      BY <2>3 DEF TypeOK, LocksOK
    <3>2. \A f \in Handlers : WaitsFor(g, f) => mu = f
      BY <3>1 DEF WaitsFor
    <3> QED
      BY <2>1, <2>3, <3>1, <3>2
  <2> QED
    BY <2>2, <2>3 DEF WaitsFor
<1> QED
  BY <1>1, InitTypes, NextTypes, PTL DEF Spec

--------------------------------------------------------------------------------
(* A deleted instance *)

LEMMA NextSilent == DeletedIsSilent /\ [Next]_vars => DeletedIsSilent'
<1> SUFFICES ASSUME DeletedIsSilent, [Next]_vars PROVE DeletedIsSilent'
  OBVIOUS
<1> USE DEF DeletedIsSilent
<1>1. ASSUME NEW h \in Handlers, DialSucceeds(h) PROVE DeletedIsSilent'
  BY <1>1 DEF DialSucceeds, manager
<1>2. ASSUME NEW h \in Handlers, DisconnectClient(h) \/ DeleteInstance(h)
      PROVE  DeletedIsSilent'
  BY <1>2 DEF DisconnectClient, DeleteInstance, Disconnect
<1>3. ASSUME NEW h \in Handlers, Logout(h) PROVE DeletedIsSilent'
  BY <1>3 DEF Logout, manager, whatsapp, history
<1>4. CASE \/ Scan \/ Login \/ Drop \/ Redial \/ Unlinked
           \/ \E k \in Channels : EndChannel(k)
  BY <1>4 DEF Scan, Login, Drop, Redial, Unlinked, EndChannel, manager, history
<1>5. CASE UNCHANGED <<present, link, retrying, orphaned>>
  BY <1>5
<1>6. ASSUME NEW h \in Handlers,
             \/ Start(h) \/ Delete(h) \/ Sending(h) \/ ConnectBegins(h) \/ ConnectRefused(h)
             \/ DialFails(h) \/ Poll(h) \/ Look(h) \/ WriteStatus(h) \/ DeleteRow(h)
      PROVE  UNCHANGED <<present, link, retrying, orphaned>>
  BY <1>6 DEF Start, Delete, Sending, ResolveMedia, Upload, SendMessage, ConnectBegins,
              ConnectRefused, DialFails, Poll, Look, WriteStatus, DeleteRow, manager,
              whatsapp, history
<1>7. ASSUME \/ SetFlag \/ HandleEvent
             \/ \E k \in Channels : ReaderStarts(k) \/ Receive(k) \/ HandleItem(k) \/ SendCode(k)
      PROVE  UNCHANGED <<present, link, retrying, orphaned>>
  BY <1>7 DEF SetFlag, HandleEvent, ReaderStarts, Receive, HandleItem, SendCode, manager,
              whatsapp, history
<1>8. CASE UNCHANGED vars
  BY <1>5, <1>8 DEF vars, manager, whatsapp, history
<1> QED
  BY <1>1, <1>2, <1>3, <1>4, <1>5, <1>6, <1>7, <1>8 DEF Next, Step

\* After a deletion the client has no connection and whatsmeow makes none, whatever
\* was under way; only a request that had looked it up before may connect it.
THEOREM DeletionSilences == Spec => []DeletedIsSilent
<1>1. Init => DeletedIsSilent
  BY DEF Init, Created, Restored, DeletedIsSilent
<1> QED
  BY <1>1, NextSilent, PTL DEF Spec

--------------------------------------------------------------------------------
(* A link that is up is seen *)

LEMMA InitUp == Init => UpInv
BY DEF Init, Created, Restored, Quiet, UpInv

\* No step but a callback or whatsmeow's reports can end the wait for a login.
LEMMA QuietUp ==
    ASSUME UpInv, UNCHANGED callback, link' = "up" => link = "up", connected => connected'
    PROVE  UpInv'
BY DEF UpInv, Waits, callback

LEMMA NextUp == TypeOK /\ UpInv /\ [Next]_vars => UpInv'
<1> SUFFICES ASSUME TypeOK, UpInv, [Next]_vars PROVE UpInv'
  OBVIOUS
<1>0. /\ events \in Seq(Event) /\ Len(events) \in Nat
      /\ flagged \in BOOLEAN /\ (flagged => events # <<>>)
  BY DEF TypeOK, ClientOK
<1>1. ASSUME NEW h \in Handlers, Start(h) \/ Delete(h) \/ Sending(h) \/ Step(h) PROVE UpInv'
  <2>1. CASE Disconnect
    BY <2>1 DEF Disconnect, UpInv
  <2>2. CASE Logout(h)
    <3>1. UNCHANGED <<callback, connected>> /\ (link' = "up" => link = "up")
      BY <2>2 DEF Logout, whatsapp
    <3> QED BY <3>1, QuietUp
  <2>3. CASE DialSucceeds(h)
    BY <2>3 DEF DialSucceeds, UpInv
  <2>4. CASE UNCHANGED <<link, connected, callback>>
    BY <2>4, QuietUp
  <2> QED
    BY <1>1, <2>1, <2>2, <2>3, <2>4
       DEF Start, Delete, Sending, ResolveMedia, Upload, SendMessage, Step,
           ConnectBegins, ConnectRefused, DialFails, Poll, Look,
           DisconnectClient, WriteStatus, DeleteInstance, DeleteRow, whatsapp
<1>2. ASSUME NEW k \in Channels,
             \/ ReaderStarts(k) \/ Receive(k) \/ HandleItem(k)
             \/ SendCode(k) \/ EndChannel(k)
      PROVE  UpInv'
  <2>1. UNCHANGED callback /\ (link' = "up" => link = "up")
    BY <1>2 DEF ReaderStarts, Receive, HandleItem, SendCode, EndChannel, whatsapp
  <2>2. connected' = connected \/ connected' = (connected \/ reader[k].item = "success")
    BY <1>2 DEF ReaderStarts, Receive, HandleItem, FlagAfterItem, SendCode, EndChannel
  <2>3. connected => connected'
    BY <2>2, Zenon
  <2> QED BY <2>1, <2>3, QuietUp
<1>3. CASE SetFlag
  <2>1. /\ link' = link /\ events' = events /\ flagged' = TRUE /\ ~flagged
        /\ events # <<>>
    BY <1>3 DEF SetFlag, whatsapp
  <2>0. connected' = (events[1] = "connected")
    BY <1>0, <1>3 DEF SetFlag, FlagAfter
  <2>2. Len(events) = 1 \/ Len(events) > 1
    <3>1. Len(events) \in Nat /\ Len(events) # 0
      BY <1>0, <2>1
    <3> QED BY <3>1
  <2>3. CASE Len(events) = 1
    <3>1. link' = "up" => events[1] = "connected"
      BY <2>1, <2>3 DEF UpInv, Waits
    <3>2. \A i \in 1..Len(events') : ~Waits(i)'
      BY <2>1, <2>3 DEF Waits
    <3>3. link' = "up" => connected'
      BY <2>0, <3>1, Zenon
    <3> QED BY <3>2, <3>3 DEF UpInv
  <2>4. CASE Len(events) > 1
    BY <1>0, <2>1, <2>2, <2>4 DEF UpInv, Waits
  <2> QED BY <2>2, <2>3, <2>4
<1>4. CASE HandleEvent
  <2>1. /\ link' = link /\ connected' = connected /\ flagged /\ flagged' = FALSE
        /\ events' = Tail(events) /\ events # <<>>
    BY <1>0, <1>4 DEF HandleEvent, whatsapp
  <2>2. /\ Len(events') = Len(events) - 1
        /\ \A i \in 1..Len(events') : events'[i] = events[i + 1]
    BY <1>0, <2>1
  <2>3. CASE Len(events) = 1
    BY <1>0, <2>1, <2>2, <2>3 DEF UpInv, Waits
  <2>4. CASE Len(events) > 1
    <3>1. Waits(Len(events)) /\ Waits(Len(events))'
      BY <1>0, <2>1, <2>2, <2>4 DEF Waits
    <3> QED
      BY <1>0, <2>1, <2>2, <2>4, <3>1 DEF UpInv, Waits
  <2>5. Len(events) = 1 \/ Len(events) > 1
    <3>1. Len(events) \in Nat /\ Len(events) # 0
      BY <1>0, <2>1
    <3> QED BY <3>1
  <2> QED BY <2>5, <2>3, <2>4
<1>5. CASE Login
  <2>1. events' = Append(events, "connected") /\ flagged' = flagged
    BY <1>5 DEF Login, Report
  <2>2. Len(events') = Len(events) + 1 /\ events'[Len(events')] = "connected"
    BY <1>0, <2>1
  <2> QED BY <1>0, <2>1, <2>2 DEF UpInv, Waits
<1>6. CASE Scan \/ Redial
  BY <1>6, QuietUp DEF Scan, Redial, callback
<1>7. CASE Drop \/ Unlinked
  BY <1>7 DEF Drop, Unlinked, UpInv
<1>8. CASE UNCHANGED vars
  BY <1>8, QuietUp DEF vars, whatsapp, callback
<1> QED
  BY <1>1, <1>2, <1>3, <1>4, <1>5, <1>6, <1>7, <1>8 DEF Next

\* A link that is up is reported connected, or will be by a callback that waits, for
\* any number of requests, QR logins and callbacks.
THEOREM LoginsAreSeen == Spec => []UpIsSeen
<1>1. TypeOK /\ UpInv => UpIsSeen
  BY DEF TypeOK, ClientOK, UpInv, UpIsSeen, Waits, LoginPending
<1> QED
  BY <1>1, InitTypes, NextTypes, InitUp, NextUp, PTL DEF Spec

--------------------------------------------------------------------------------
(* A client that is down is seen *)

LEMMA InitDown == Init => DInv
<1> SUFFICES ASSUME Init PROVE DInv
  OBVIOUS
<1>1. Quiet /\ ~SuccessPending
  <2>1. Quiet
    BY DEF Init, Created, Restored
  <2> QED BY <2>1 DEF Quiet, SuccessPending, Unused, NoReader
<1> QED
  BY <1>1 DEF Quiet, DInv, ChannelsInv, DownInv, Unused, Off

\* A login that succeeded becomes known to a QR channel only when the code is scanned.
LEMMA NoNewSuccess ==
    ASSUME TypeOK, Next, ~Scan
    PROVE  SuccessPending' => SuccessPending
<1>1. ReadersOK /\ NoChannel \notin Channels
  BY SessionAssumption DEF TypeOK
<1>2. CASE UNCHANGED <<chan, reader>>
  BY <1>2 DEF SuccessPending
<1>3. ASSUME NEW h \in Handlers, ConnectBegins(h) PROVE SuccessPending' => SuccessPending
  <2>1. CASE UNCHANGED <<chan, reader>>
    BY <2>1 DEF SuccessPending
  <2>2. ASSUME NEW k \in Channels, UNCHANGED reader,
               chan' = [chan EXCEPT ![k] = [open |-> TRUE, items |-> <<>>]]
        PROVE  SuccessPending' => SuccessPending
    BY <1>1, <2>2 DEF SuccessPending, ReadersOK
  <2> QED BY <1>3, <2>1, <2>2 DEF ConnectBegins
<1>4. ASSUME NEW h \in Handlers, DialSucceeds(h) PROVE SuccessPending' => SuccessPending
  <2>1. UNCHANGED chan /\ \A k \in Channels : reader'[k].item \in {"none", reader[k].item}
    BY <1>1, <1>4 DEF DialSucceeds, Starting, ReadersOK
  <2> QED BY <2>1 DEF SuccessPending
<1>5. ASSUME NEW k \in Channels, ReaderStarts(k) \/ HandleItem(k)
      PROVE  SuccessPending' => SuccessPending
  <2>1. UNCHANGED chan /\ \A j \in Channels : reader'[j].item \in {"none", reader[j].item}
    BY <1>1, <1>5 DEF ReaderStarts, HandleItem, ReadersOK, Reader
  <2> QED BY <2>1 DEF SuccessPending
<1>6. ASSUME NEW k \in Channels, Receive(k) PROVE SuccessPending' => SuccessPending
  <2> DEFINE c == reader[k].from
  <2>1. c \in Channels /\ chan[c] \in QRChannel
    BY <1>1, <1>6 DEF Receive, ReadersOK, Reader
  <2>2. CASE /\ chan[c].items # <<>>
             /\ reader' = [reader EXCEPT ![k].item = Head(chan[c].items)]
             /\ chan' = [chan EXCEPT ![c].items = Tail(@)]
    <3>1. /\ chan[c].items \in Seq({"code"} \cup Last)
          /\ Len(chan[c].items) \in Nat /\ Len(chan[c].items) # 0
      BY <2>1, <2>2 DEF QRChannel
    <3>2. Head(chan[c].items) = chan[c].items[1] /\ 1 \in 1..Len(chan[c].items)
      BY <3>1
    <3>3. \A i \in 1..Len(Tail(chan[c].items)) :
             /\ i + 1 \in 1..Len(chan[c].items)
             /\ Tail(chan[c].items)[i] = chan[c].items[i + 1]
      BY <3>1
    <3>4. \A j \in Channels : \/ reader'[j].item = reader[j].item
                              \/ reader'[j].item = chan[c].items[1]
      BY <1>1, <2>2, <3>2 DEF ReadersOK, Reader
    <3>5. \A j \in Channels : \/ chan'[j].items = chan[j].items
                              \/ j = c /\ chan'[j].items = Tail(chan[c].items)
      BY <1>1, <2>1, <2>2 DEF ReadersOK, QRChannel
    <3>6. CASE \E j \in Channels : reader'[j].item = "success"
      BY <2>1, <3>2, <3>4, <3>6 DEF SuccessPending
    <3>7. ASSUME NEW j \in Channels, NEW i \in 1..Len(chan'[j].items),
                 chan'[j].items[i] = "success"
          PROVE  SuccessPending
      <4>1. CASE chan'[j].items = chan[j].items
        BY <3>7, <4>1 DEF SuccessPending
      <4>2. CASE j = c /\ chan'[j].items = Tail(chan[c].items)
        BY <2>1, <3>3, <3>7, <4>2 DEF SuccessPending
      <4> QED BY <3>5, <4>1, <4>2
    <3> QED BY <3>6, <3>7 DEF SuccessPending
  <2>3. CASE UNCHANGED chan /\ reader' = [reader EXCEPT ![k] = NoReader]
    <3>1. \A j \in Channels : reader'[j].item \in {"none", reader[j].item}
      BY <1>1, <2>3 DEF ReadersOK, NoReader
    <3> QED BY <2>3, <3>1 DEF SuccessPending
  <2> QED BY <1>6, <2>2, <2>3 DEF Receive
<1>7. ASSUME NEW k \in Channels, NEW item \in {"code", "timeout", "other"},
             SendItem(k, item), UNCHANGED reader
      PROVE  SuccessPending' => SuccessPending
  <2>1. chan[k].items = <<>> /\ chan' = [chan EXCEPT ![k] = Sent(k, item)]
    BY <1>7 DEF SendItem
  <2>2. Len(Sent(k, item).items) = 1 /\ Sent(k, item).items[1] = item
    BY <2>1 DEF Sent
  <2>3. \A j \in Channels : chan'[j] = IF j = k THEN Sent(k, item) ELSE chan[j]
    BY <1>1, <2>1 DEF ReadersOK
  <2> QED BY <1>7, <2>2, <2>3 DEF SuccessPending
<1> QED
  BY <1>2, <1>3, <1>4, <1>5, <1>6, <1>7
     DEF Next, Start, Delete, Sending, ResolveMedia, Upload, SendMessage, Step,
         ConnectRefused, DialFails, Poll, Look, DisconnectClient,
         Disconnect, Logout, WriteStatus, DeleteInstance, DeleteRow, SendCode, EndChannel,
         SetFlag, HandleEvent, Login, Drop, Redial, Unlinked, qrVars

LEMMA NextChannels == TypeOK /\ ChannelsInv /\ [Next]_vars => ChannelsInv'
<1> SUFFICES ASSUME TypeOK, ChannelsInv, [Next]_vars PROVE ChannelsInv'
  OBVIOUS
<1>1. ReadersOK /\ NoChannel \notin Channels
  BY SessionAssumption DEF TypeOK
<1>2. CASE UNCHANGED chan /\ (paired' => paired) /\ (link' = "up" => paired')
  BY <1>2 DEF ChannelsInv
<1>3. ASSUME NEW h \in Handlers, ConnectBegins(h) PROVE ChannelsInv'
  BY <1>1, <1>3 DEF ConnectBegins, ChannelsInv, ReadersOK, whatsapp
<1>4. ASSUME NEW k \in Channels, Receive(k) PROVE ChannelsInv'
  <2> DEFINE c == reader[k].from
  <2>1. c \in Channels
    BY <1>1, <1>4 DEF Receive, ReadersOK, Reader
  <2>2. chan' = chan \/ chan' = [chan EXCEPT ![c].items = Tail(@)]
    BY <1>4 DEF Receive
  <2>3. \A j \in Channels : chan'[j].open = chan[j].open
    <3>1. chan \in [Channels -> QRChannel] /\ chan[c] \in QRChannel
      BY <1>1, <2>1 DEF ReadersOK
    <3>2. [chan[c] EXCEPT !.items = Tail(@)].open = chan[c].open
      BY <3>1 DEF QRChannel
    <3> QED BY <2>1, <2>2, <3>1, <3>2
  <2> QED BY <1>4, <2>3 DEF Receive, ChannelsInv, whatsapp
<1>5. ASSUME NEW k \in Channels, SendCode(k) \/ EndChannel(k) PROVE ChannelsInv'
  <2>1. PICK item \in {"code", "timeout", "other"} : SendItem(k, item)
    BY <1>5 DEF SendCode, EndChannel
  <2>2. \A j \in Channels : chan'[j].open => chan[j].open
    BY <1>1, <2>1 DEF SendItem, Sent, ReadersOK
  <2>3. paired' = paired /\ (link' = "up" => link = "up")
    BY <1>5 DEF SendCode, EndChannel, whatsapp
  <2> QED BY <2>2, <2>3 DEF ChannelsInv
<1>6. CASE Scan
  BY <1>6 DEF Scan, Sent, ChannelsInv
<1>7. CASE UNCHANGED vars
  BY <1>7, <1>2 DEF vars, whatsapp, qrVars, ChannelsInv
<1> QED
  BY <1>2, <1>3, <1>4, <1>5, <1>6, <1>7
     DEF Next, Start, Delete, Sending, ResolveMedia, Upload, SendMessage, Step,
         ConnectRefused, DialSucceeds, DialFails, Poll, Look,
         DisconnectClient, Disconnect, Logout, WriteStatus, DeleteInstance, DeleteRow,
         ReaderStarts, HandleItem, SetFlag, HandleEvent, Login, Drop, Redial, Unlinked,
         qrVars, whatsapp, ChannelsInv

\* A step that ends no connection late, adds no callback, loses no link and takes no
\* request out of its Logout keeps what is known of a client that is down.
LEMMA QuietDown ==
    ASSUME DownInv, SuccessPending' => SuccessPending, Off' => Off,
           link' # "up" => link # "up",
           UNCHANGED <<connected, callback, late>>, Leaving => Leaving'
    PROVE  DownInv'
<1>1. UNCHANGED <<connected, events, flagged, late>>
  BY DEF callback
<1>2. OffWaits' = OffWaits
  BY <1>1 DEF OffWaits, Waits
<1> QED
  BY <1>1, <1>2 DEF DownInv, Leaving, Waits

\* A connection that is ended without a report is ended late, or no sign of its login
\* was left.
LEMMA EndedDown ==
    ASSUME SuccessPending' => SuccessPending, UNCHANGED callback,
           late' = (LoginPending \/ SuccessPending), ~connected' \/ Leaving'
    PROVE  DownInv'
<1>1. late' => LoginPending \/ SuccessPending
  OBVIOUS
<1>2. LoginPending \/ SuccessPending => late'
  OBVIOUS
<1>3. ~LoginPending => \A i \in 1..Len(events') : ~(Waits(i)' /\ events'[i] = "connected")
  BY DEF LoginPending, Waits, callback
<1> QED
  BY <1>2, <1>3 DEF DownInv, Leaving

\* A report that the link is off is the last that waits.
LEMMA ReportedDown ==
    ASSUME TypeOK, SuccessPending' => SuccessPending, late' = SuccessPending,
           NEW e \in {"disconnected", "logged_out"}, Report(e)
    PROVE  DownInv'
<1>1. /\ events \in Seq(Event) /\ Len(events) \in Nat
      /\ flagged \in BOOLEAN /\ (flagged => events # <<>>)
  BY DEF TypeOK, ClientOK
<1>2. /\ events' = Append(events, e) /\ flagged' = flagged
      /\ Len(events') = Len(events) + 1 /\ events'[Len(events')] = e
  BY <1>1 DEF Report, Event
<1>3. /\ Len(events') \in 1..Len(events') /\ e # "connected"
      /\ ~(Len(events') = 1 /\ flagged')
  <2>1. flagged => Len(events) # 0
    BY <1>1
  <2> QED BY <1>1, <1>2, <2>1
<1>4. OffWaits'
  BY <1>2, <1>3 DEF OffWaits, Waits
<1>5. \A i \in 1..Len(events') : events'[i] = "connected" => i < Len(events')
  BY <1>1, <1>2, <1>3
<1>6. SuccessPending' => late'
  OBVIOUS
<1> QED
  BY <1>2, <1>3, <1>4, <1>5, <1>6 DEF DownInv

LEMMA NextDown == TypeOK /\ DInv /\ [Next]_vars => DownInv'
<1> SUFFICES ASSUME TypeOK, DInv, [Next]_vars PROVE DownInv'
  OBVIOUS
<1>0. /\ DownInv /\ ChannelsInv
      /\ events \in Seq(Event) /\ Len(events) \in Nat
      /\ flagged \in BOOLEAN /\ (flagged => events # <<>>)
      /\ pc \in [Handlers -> Places]
  BY DEF TypeOK, ClientOK, LocksOK, DInv
<1>1. ASSUME NEW h \in Handlers, Start(h) \/ Delete(h) \/ Sending(h) \/ Step(h) PROVE DownInv'
  <2>1. Next /\ ~Scan /\ (SuccessPending' => SuccessPending)
    <3>1. Next
      BY <1>1 DEF Next
    <3>2. ~Scan
      BY <1>1 DEF Start, Delete, Sending, ResolveMedia, Upload, SendMessage, Step,
          ConnectBegins, ConnectRefused, DialSucceeds, DialFails,
          Poll, Look, DisconnectClient, Disconnect, Logout, WriteStatus, DeleteInstance,
          DeleteRow, Scan, whatsapp
    <3> QED BY <3>1, <3>2, NoNewSuccess
  <2>2. CASE Disconnect
    BY <2>1, <2>2, EndedDown DEF Disconnect
  <2> DEFINE Unlinks == /\ Logout(h)
                        /\ link' = "down" /\ pc' = [pc EXCEPT ![h] = "leave"]
                        /\ late' = (LoginPending \/ SuccessPending)
  <2>3. CASE Unlinks
    <3>1. Leaving'
      BY <1>0, <2>3 DEF Leaving
    <3>2. UNCHANGED callback
      BY <2>3 DEF Logout
    <3> QED BY <2>1, <2>3, <3>1, <3>2, EndedDown
  <2>4. CASE ~Disconnect /\ ~Unlinks
    <3>1. /\ UNCHANGED <<connected, callback, late, paired>>
          /\ link' # "up" => link # "up"
          /\ link' = "down" => link = "down"
      BY <1>1, <2>4 DEF Start, Delete, Sending, ResolveMedia, Upload, SendMessage, Step,
          ConnectBegins, ConnectRefused, DialSucceeds,
          DialFails, Poll, Look, DisconnectClient, Logout, WriteStatus, DeleteInstance,
          DeleteRow, Goto, whatsapp, history
    <3>2. /\ pc[h] # "leave"
          /\ pc' = pc \/ \E l \in Places : pc' = [pc EXCEPT ![h] = l]
      BY <1>1, <2>4 DEF Start, Delete, Sending, ResolveMedia, Upload, SendMessage, Step,
          ConnectBegins, ConnectRefused, DialSucceeds,
          DialFails, GivesUp, Poll, Look, DisconnectClient, Logout, WriteStatus,
          DeleteInstance, DeleteRow, Goto, Connecting, Dialing, Places
    <3>3. Leaving => Leaving'
      BY <1>0, <3>2 DEF Leaving
    <3>4. Off' => Off
      BY <3>1 DEF Off
    <3> QED BY <1>0, <2>1, <3>1, <3>3, <3>4, QuietDown
  <2> QED BY <2>2, <2>3, <2>4
<1>2. CASE UNCHANGED vars
  <2>1. UNCHANGED <<connected, callback, late, link, paired, pc, chan, reader>>
    BY <1>2 DEF vars, whatsapp, qrVars, history
  <2>2. SuccessPending' = SuccessPending /\ Off' = Off /\ Leaving' = Leaving
    BY <2>1 DEF SuccessPending, Off, Leaving
  <2> QED BY <1>0, <2>1, <2>2, QuietDown
<1>3. ASSUME NEW k \in Channels,
             ReaderStarts(k) \/ Receive(k) \/ SendCode(k) \/ EndChannel(k)
      PROVE  DownInv'
  <2>1. Next /\ ~Scan
    <3>1. Next
      BY <1>3 DEF Next
    <3>2. ~Scan
      BY <1>0, <1>3 DEF ReaderStarts, Receive, SendCode, EndChannel, Scan, ChannelsInv, whatsapp
    <3> QED BY <3>1, <3>2
  <2>2. SuccessPending' => SuccessPending
    BY <2>1, NoNewSuccess
  <2>3. /\ UNCHANGED <<connected, callback, late, paired, pc>>
        /\ link' # "up" => link # "up"
    BY <1>3 DEF ReaderStarts, Receive, SendCode, EndChannel, whatsapp, history
  <2>4. Off' => Off
    <3>1. CASE link' = link
      BY <2>3, <3>1 DEF Off
    <3>2. CASE link' # link
      <4>1. chan[k].open
        BY <1>3, <3>2 DEF ReaderStarts, Receive, SendCode, EndChannel, SendItem, whatsapp
      <4> QED BY <1>0, <4>1 DEF Off, ChannelsInv
    <3> QED BY <3>1, <3>2
  <2>5. Leaving => Leaving'
    BY <2>3 DEF Leaving
  <2> QED BY <1>0, <2>2, <2>3, <2>4, <2>5, QuietDown
<1>4. ASSUME NEW k \in Channels, HandleItem(k) PROVE DownInv'
  <2>1. Next /\ (SuccessPending' => SuccessPending)
    <3>1. Next /\ ~Scan
      BY <1>4 DEF Next, HandleItem, Scan, whatsapp
    <3> QED BY <3>1, NoNewSuccess
  <2>2. UNCHANGED <<link, paired, events, flagged, late, pc>>
    BY <1>4 DEF HandleItem, whatsapp, callback, history
  <2>3. Off' = Off /\ OffWaits' = OffWaits
    BY <2>2 DEF Off, OffWaits, Waits
  <2>4. connected' => connected \/ SuccessPending
    BY <1>4 DEF HandleItem, FlagAfterItem, SuccessPending
  <2> QED BY <1>0, <2>1, <2>2, <2>3, <2>4 DEF DownInv, Leaving, Waits
<1>5. CASE Login
  <2>1. link' = "up" /\ paired' /\ ~Off'
    BY <1>5 DEF Login, Off
  <2> QED BY <2>1 DEF DownInv
<1>6. CASE Drop \/ Unlinked
  <2>1. SuccessPending' => SuccessPending
    BY <1>6, NoNewSuccess DEF Next, Drop, Unlinked, Scan
  <2>2. \E e \in {"disconnected", "logged_out"} : Report(e)
    BY <1>6 DEF Drop, Unlinked
  <2>3. late' = SuccessPending
    BY <1>6 DEF Drop, Unlinked
  <2> QED BY <2>1, <2>2, <2>3, ReportedDown
<1>7. CASE Scan
  <2>1. UNCHANGED <<link, connected, callback, late>> /\ ~Off'
    BY <1>7 DEF Scan, Off
  <2> QED BY <1>0, <2>1 DEF DownInv, Waits, callback
<1>8. CASE Redial
  <2>1. UNCHANGED <<chan, reader, pc, paired, connected, callback, late>> /\ link # "up"
    BY <1>8 DEF Redial, qrVars, history
  <2>2. SuccessPending' = SuccessPending /\ Leaving' = Leaving
    BY <2>1 DEF SuccessPending, Leaving
  <2>3. Off' => Off
    BY <1>8 DEF Redial, Off
  <2> QED BY <1>0, <2>1, <2>2, <2>3, QuietDown
<1>9. CASE SetFlag
  <2>1. /\ UNCHANGED <<link, paired, events, chan, reader, late, pc>>
        /\ ~flagged /\ flagged' = TRUE /\ events # <<>>
    BY <1>9 DEF SetFlag, whatsapp, qrVars, history
  <2>2. connected' = (events[1] = "connected")
    BY <1>0, <1>9 DEF SetFlag, FlagAfter
  <2>3. SuccessPending' = SuccessPending /\ Off' = Off
    BY <2>1 DEF SuccessPending, Off
  <2>4. 1 \in 1..Len(events)
    <3>1. Len(events) # 0
      BY <1>0, <2>1
    <3> QED BY <1>0, <3>1
  <2>5. ASSUME Off, ~late, events[1] = "connected" PROVE OffWaits'
    <3>1. link # "up"
      BY <1>0, <2>5 DEF Off, ChannelsInv
    <3>2. PICK j \in 1..Len(events) : 1 < j /\ events[j] # "connected"
      BY <1>0, <2>1, <2>4, <2>5, <3>1 DEF DownInv, Waits
    <3> QED BY <1>0, <2>1, <3>2 DEF OffWaits, Waits
  <2>6. connected' /\ Off' => late' \/ OffWaits'
    BY <2>1, <2>2, <2>3, <2>5, Zenon
  <2>7. SuccessPending' /\ Off' => late'
    BY <1>0, <2>1, <2>3 DEF DownInv
  <2>8. ASSUME link' # "up", ~late', NEW i \in 1..Len(events'),
               Waits(i)', events'[i] = "connected"
        PROVE  \E j \in 1..Len(events') : i < j /\ events'[j] # "connected"
    BY <1>0, <2>1, <2>8 DEF DownInv, Waits
  <2> QED BY <2>6, <2>7, <2>8 DEF DownInv
<1>10. CASE HandleEvent
  <2>1. /\ UNCHANGED <<link, paired, connected, chan, reader, late, pc>>
        /\ flagged /\ flagged' = FALSE /\ events # <<>> /\ events' = Tail(events)
    BY <1>0, <1>10 DEF HandleEvent, whatsapp, qrVars, history
  <2>2. SuccessPending' = SuccessPending /\ Off' = Off
    BY <2>1 DEF SuccessPending, Off
  <2>3. /\ Len(events') = Len(events) - 1
        /\ \A i \in 1..Len(events') : events'[i] = events[i + 1]
    BY <1>0, <2>1
  <2>4. SuccessPending' /\ Off' => late'
    BY <1>0, <2>1, <2>2 DEF DownInv
  <2>5. ASSUME link' # "up", ~late', NEW i \in 1..Len(events'), events'[i] = "connected"
        PROVE  \E j \in 1..Len(events') : i < j /\ events'[j] # "connected"
    <3>1. i + 1 \in 1..Len(events) /\ events[i + 1] = "connected" /\ ~(i + 1 = 1)
      BY <1>0, <2>3, <2>5
    <3>2. PICK j \in 1..Len(events) : i + 1 < j /\ events[j] # "connected"
      BY <1>0, <2>1, <2>5, <3>1 DEF DownInv, Waits
    <3>3. j - 1 \in 1..Len(events') /\ i < j - 1 /\ events'[j - 1] # "connected"
      BY <1>0, <2>3, <3>2
    <3> QED BY <3>3
  <2>6. OffWaits => OffWaits'
    <3> SUFFICES ASSUME NEW i \in 1..Len(events), ~(i = 1), events[i] # "connected"
                 PROVE  OffWaits'
      BY <2>1 DEF OffWaits, Waits
    <3>1. i - 1 \in 1..Len(events') /\ events'[i - 1] # "connected"
      BY <1>0, <2>3
    <3> QED BY <2>1, <3>1 DEF OffWaits, Waits
  <2> QED BY <1>0, <2>1, <2>2, <2>4, <2>5, <2>6 DEF DownInv, Leaving
<1> QED
  BY <1>1, <1>2, <1>3, <1>4, <1>5, <1>6, <1>7, <1>8, <1>9, <1>10 DEF Next

\* A client reported connected with its link down is one whose callback waits, whose
\* Logout is under way, or whose connection was ended late, whatever the requests did
\* and failed to do.
THEOREM DisconnectionsAreSeen == Spec => []DownIsSeen
<1>1. DInv => DownIsSeen
  BY DEF DInv, DownInv, DownIsSeen, Off, OffWaits, Waits, Leaving
<1>2. TypeOK /\ DInv /\ [Next]_vars => DInv'
  BY NextChannels, NextDown DEF DInv
<1> QED
  BY <1>1, <1>2, InitTypes, NextTypes, InitDown, PTL DEF Spec

--------------------------------------------------------------------------------
(* No code once a device is linked. The argument: the scan tells every login    *)
(* still open that it succeeded, behind the code it may have been sent before;  *)
(* and the login whose code was scanned has a reader, if none was overtaken.    *)

ItemsInv == \A k \in Channels :
    chan[k].items \in IF chan[k].open THEN {<<>>, <<"code">>}
                      ELSE {<<>>, <<"code", "success">>} \cup {<<e>> : e \in Last}

\* Without a device the link is opened by the Connect that began a login.
DialInv ==
    /\ fresh => link = "down" /\ ~paired
    /\ mu # Nobody /\ ~fresh => \A k \in Channels : ~chan[k].open

OwnChannel ==
    \A k \in Channels : /\ reader[k].at = "reading" => reader[k].from = k
                        /\ reader[k].at = "starting" => k = qrChan

ScannedIsRead ==
    link = "open" /\ ~paired /\ qrChan \in Channels /\ chan[qrChan].open
        => reader[qrChan].at # "none"

WillClear(k) ==
    /\ reader[k].at = "reading"
    /\ \/ reader[k].item = "success"
       \/ chan[k].items \in {<<"success">>, <<"code", "success">>}

CodeIsCleared ==
    /\ \A k \in Channels : paired /\ reader[k].item = "code" => chan[k].items = <<"success">>
    /\ paired /\ qr # NoCode => \E k \in Channels : WillClear(k)

CodeInv ==
    /\ TypeOK /\ ChannelsInv /\ ItemsInv /\ DialInv
    /\ ~overtaken => OwnChannel /\ ScannedIsRead /\ CodeIsCleared

\* The items of a channel, received one by one, and after a scan.
LEMMA ItemByItem ==
    /\ Tail(<<"code", "success">>) = <<"success">>
    /\ \A e, f : Head(<<e, f>>) = e /\ Head(<<e>>) = e /\ Tail(<<e>>) = <<>>
OBVIOUS

LEMMA ItemsScanned ==
    /\ Append(<<>>, "success") = <<"success">>
    /\ Append(<<"code">>, "success") = <<"code", "success">>
<1> DEFINE s == Append(<<"code">>, "success")
           t == <<"code", "success">>
<1>1. s \in Seq({"code", "success"}) /\ Len(s) = 2 /\ s[1] = "code" /\ s[2] = "success"
  OBVIOUS
<1>2. t \in Seq({"code", "success"}) /\ Len(t) = 2 /\ t[1] = "code" /\ t[2] = "success"
  OBVIOUS
<1>3. \A i \in 1..Len(s) : s[i] = t[i]
  <2>1. \A i \in 1..2 : i = 1 \/ i = 2
    OBVIOUS
  <2> QED BY <1>1, <1>2, <2>1
<1>4. s = t
  <2> HIDE DEF s, t
  <2> QED BY <1>1, <1>2, <1>3, SeqEqual
<1> QED BY <1>4

LEMMA InitCode == Init => CodeInv
<1> SUFFICES ASSUME Init PROVE CodeInv
  OBVIOUS
<1>1. Quiet
  BY DEF Init, Created, Restored
<1>2. TypeOK /\ ChannelsInv
  BY InitTypes, InitDown DEF DInv
<1> QED
  BY <1>1, <1>2 DEF Quiet, CodeInv, ItemsInv, DialInv, OwnChannel, ScannedIsRead,
                    CodeIsCleared, Unused, NoReader

\* What a step that touches neither codes nor channels nor readers keeps.
LEMMA QuietCode ==
    ASSUME CodeInv, (TypeOK /\ ChannelsInv)', UNCHANGED qrVars,
           paired' => paired, overtaken => overtaken',
           link' = "open" /\ ~paired' => link = "open" /\ ~paired,
           fresh' => fresh /\ (link = "down" /\ ~paired => link' = "down" /\ ~paired'),
           mu' # Nobody /\ ~fresh' => mu # Nobody /\ ~fresh
    PROVE  CodeInv'
<1>1. UNCHANGED <<qr, qrChan, chan, reader>>
  BY DEF qrVars
<1>2. ItemsInv' /\ DialInv'
  BY <1>1 DEF CodeInv, ItemsInv, DialInv
<1>3. ~overtaken' => (OwnChannel /\ ScannedIsRead /\ CodeIsCleared)'
  BY <1>1 DEF CodeInv, OwnChannel, ScannedIsRead, CodeIsCleared, WillClear
<1> QED
  BY <1>2, <1>3 DEF CodeInv

LEMMA RequestCode ==
    ASSUME CodeInv, (TypeOK /\ ChannelsInv)', NEW h \in Handlers,
           Start(h) \/ Delete(h) \/ Sending(h) \/ Step(h)
    PROVE  CodeInv'
<1>0. /\ ReadersOK /\ NoChannel \notin Channels
      /\ mu = Nobody => ~fresh
      /\ Dialing(h) => mu # Nobody
  BY SessionAssumption DEF CodeInv, TypeOK, LocksOK
<1>1. CASE ConnectBegins(h)
  <2>1. CASE paired /\ fresh' = FALSE /\ UNCHANGED <<qrChan, chan, overtaken>>
    <3>1. UNCHANGED <<link, paired, qr, qrChan, chan, reader, overtaken>>
      BY <1>1, <2>1 DEF ConnectBegins, whatsapp
    <3>2. ItemsInv' /\ DialInv'
      BY <2>1, <3>1 DEF CodeInv, ChannelsInv, ItemsInv, DialInv
    <3>3. ~overtaken' => (OwnChannel /\ ScannedIsRead /\ CodeIsCleared)'
      BY <3>1 DEF CodeInv, OwnChannel, ScannedIsRead, CodeIsCleared, WillClear
    <3> QED BY <3>2, <3>3 DEF CodeInv
  <2>2. ASSUME NEW k \in Channels, ~paired, link = "down", fresh' = TRUE,
               overtaken' = (overtaken \/ ~ReadersKeepUp),
               qrChan' = k, chan' = [chan EXCEPT ![k] = [open |-> TRUE, items |-> <<>>]]
        PROVE  CodeInv'
    <3>1. UNCHANGED <<link, paired, qr, reader>>
      BY <1>1 DEF ConnectBegins, whatsapp
    <3>2. ItemsInv' /\ DialInv'
      BY <1>0, <2>2, <3>1 DEF CodeInv, ItemsInv, DialInv, ReadersOK
    <3>3. ~overtaken' => (OwnChannel /\ ScannedIsRead /\ CodeIsCleared)'
      BY <2>2, <3>1 DEF CodeInv, ReadersKeepUp, OwnChannel, ScannedIsRead, CodeIsCleared
    <3> QED BY <3>2, <3>3 DEF CodeInv
  <2> QED BY <1>1, <2>1, <2>2 DEF ConnectBegins
<1>2. CASE DialSucceeds(h)
  <2>1. UNCHANGED <<paired, qr, qrChan, chan, overtaken>> /\ mu # Nobody /\ mu' = Nobody
        /\ fresh' = FALSE
    BY <1>0, <1>2 DEF DialSucceeds, history
  <2>2. ItemsInv' /\ DialInv'
    BY <2>1 DEF CodeInv, ItemsInv, DialInv
  <2>3. CASE fresh
    <3>1. /\ qrChan \in Channels /\ ~paired
          /\ reader' = [reader EXCEPT ![qrChan] = Starting]
      BY <1>0, <1>2, <2>3 DEF DialSucceeds, ReadersOK, CodeInv, DialInv
    <3>2. \A j \in Channels : IF j = qrChan THEN reader'[j].at = "starting"
                              ELSE reader'[j] = reader[j]
      BY <1>0, <3>1 DEF ReadersOK, Starting
    <3>3. ~overtaken' => (OwnChannel /\ ScannedIsRead /\ CodeIsCleared)'
      BY <2>1, <3>1, <3>2 DEF CodeInv, OwnChannel, ScannedIsRead, CodeIsCleared
    <3> QED BY <2>2, <3>3 DEF CodeInv
  <2>4. CASE ~fresh
    <3>1. reader' = reader /\ \A k \in Channels : ~chan[k].open
      BY <1>2, <2>1, <2>4 DEF DialSucceeds, CodeInv, DialInv
    <3>2. ~overtaken' => (OwnChannel /\ ScannedIsRead /\ CodeIsCleared)'
      BY <2>1, <3>1 DEF CodeInv, OwnChannel, ScannedIsRead, CodeIsCleared, WillClear
    <3> QED BY <2>2, <3>2 DEF CodeInv
  <2> QED BY <2>3, <2>4
<1>3. CASE Disconnect
  <2>1. ~fresh /\ ~fresh' /\ mu' = Nobody /\ link' = "down"
        /\ UNCHANGED <<paired, qrVars, overtaken>>
    BY <1>0, <1>3 DEF Disconnect
  <2> QED BY <2>1, QuietCode
<1>4. CASE Logout(h)
  <2>1. /\ UNCHANGED <<qrVars, mu, fresh, overtaken>>
        /\ paired' => paired
        /\ UNCHANGED <<link, paired>> \/ (link = "up" /\ link' = "down")
    BY <1>4 DEF Logout, whatsapp, history
  <2> QED BY <2>1, QuietCode DEF CodeInv, DialInv
<1>5. CASE DialFails(h)
  BY <1>5, QuietCode DEF DialFails, GivesUp, whatsapp, history
<1>6. CASE UNCHANGED <<mu, fresh, link, paired, qrVars, overtaken>>
  BY <1>6, QuietCode
<1> QED
  BY <1>1, <1>2, <1>3, <1>4, <1>5, <1>6
     DEF Start, Delete, Sending, ResolveMedia, Upload, SendMessage, Step, ConnectRefused,
         Poll, Look, DisconnectClient,
         WriteStatus, DeleteInstance, DeleteRow, whatsapp, history

LEMMA StartsCode ==
    ASSUME CodeInv, (TypeOK /\ ChannelsInv)', NEW k \in Channels, ReaderStarts(k)
    PROVE  CodeInv'
<1>1. /\ UNCHANGED <<link, paired, mu, fresh, qr, qrChan, chan, overtaken>>
      /\ reader[k].at = "starting"
      /\ reader' = [reader EXCEPT ![k] = [at |-> "reading", from |-> qrChan, item |-> "none"]]
  BY DEF ReaderStarts, whatsapp, history
<1>2. /\ reader'[k].at = "reading" /\ reader'[k].from = qrChan /\ reader'[k].item = "none"
      /\ \A j \in Channels \ {k} : reader'[j] = reader[j]
  BY <1>1 DEF CodeInv, TypeOK, ReadersOK
<1>3. ItemsInv' /\ DialInv'
  BY <1>1 DEF CodeInv, ItemsInv, DialInv
<1>4. ASSUME ~overtaken' PROVE (OwnChannel /\ ScannedIsRead)'
  BY <1>1, <1>2, <1>4 DEF CodeInv, OwnChannel, ScannedIsRead
<1>5. ASSUME ~overtaken' PROVE CodeIsCleared'
  BY <1>1, <1>2, <1>5 DEF CodeInv, CodeIsCleared, WillClear
<1> QED BY <1>3, <1>4, <1>5 DEF CodeInv

LEMMA ReceiveCode ==
    ASSUME CodeInv, (TypeOK /\ ChannelsInv)', NEW k \in Channels, Receive(k)
    PROVE  CodeInv'
<1> DEFINE c == reader[k].from
<1>0. /\ UNCHANGED <<link, paired, mu, fresh, qr, qrChan, overtaken>>
      /\ reader[k].at = "reading" /\ reader[k].item = "none"
      /\ c \in Channels
      /\ ~overtaken => c = k
      /\ ReadersOK
  BY DEF Receive, whatsapp, history, CodeInv, TypeOK, ReadersOK, Reader, OwnChannel
<1>1. CASE /\ chan[c].items # <<>>
           /\ reader' = [reader EXCEPT ![k].item = Head(chan[c].items)]
           /\ chan' = [chan EXCEPT ![c].items = Tail(@)]
  <2>1. /\ chan'[c].open = chan[c].open /\ chan'[c].items = Tail(chan[c].items)
        /\ \A j \in Channels \ {c} : chan'[j] = chan[j]
    BY <1>0, <1>1 DEF ReadersOK, QRChannel
  <2>2. /\ reader'[k].at = "reading" /\ reader'[k].from = c
        /\ reader'[k].item = Head(chan[c].items)
        /\ \A j \in Channels \ {k} : reader'[j] = reader[j]
    BY <1>0, <1>1 DEF ReadersOK, Reader
  <2>3. chan[c].items \in IF chan[c].open THEN {<<"code">>}
                          ELSE {<<"code", "success">>} \cup {<<e>> : e \in Last}
    BY <1>0, <1>1 DEF CodeInv, ItemsInv
  <2>4. \/ chan[c].items = <<"code">> /\ Head(chan[c].items) = "code" /\ chan'[c].items = <<>>
           /\ chan[c].open
        \/ /\ chan[c].items = <<"code", "success">> /\ Head(chan[c].items) = "code"
           /\ chan'[c].items = <<"success">> /\ ~chan[c].open
        \/ \E e \in Last : /\ chan[c].items = <<e>> /\ Head(chan[c].items) = e
                           /\ chan'[c].items = <<>> /\ ~chan[c].open
    BY <2>1, <2>3, ItemByItem
  <2>5. ItemsInv'
    BY <1>0, <2>1, <2>4 DEF CodeInv, ItemsInv, Last
  <2>6. DialInv'
    BY <1>0, <2>1 DEF CodeInv, DialInv
  <2>7. ASSUME ~overtaken' PROVE (OwnChannel /\ ScannedIsRead)'
    BY <1>0, <2>1, <2>2, <2>7 DEF CodeInv, OwnChannel, ScannedIsRead
  <2>8. ASSUME ~overtaken', paired PROVE CodeIsCleared'
    <3>1. c = k /\ ~chan[k].open
      BY <1>0, <2>8 DEF CodeInv, ChannelsInv
    <3>2. WillClear(k) => WillClear(k)'
      <4>1. CASE chan[k].items = <<"success">>
        <5>1. Head(chan[k].items) = "success"
          BY <4>1
        <5> QED BY <2>2, <3>1, <5>1 DEF WillClear
      <4>2. CASE chan[k].items = <<"code", "success">>
        <5>1. chan'[k].items = <<"success">>
          BY <2>1, <3>1, <4>2
        <5> QED BY <2>2, <5>1 DEF WillClear
      <4> QED BY <1>0, <4>1, <4>2 DEF WillClear
    <3>3. \A j \in Channels \ {k} : WillClear(j) => WillClear(j)'
      BY <2>1, <2>2, <3>1 DEF WillClear
    <3>4. reader'[k].item = "code" => chan'[k].items = <<"success">>
      BY <2>2, <2>4, <3>1 DEF Last
    <3> QED BY <1>0, <2>1, <2>2, <2>8, <3>1, <3>2, <3>3, <3>4 DEF CodeInv, CodeIsCleared
  <2>9. ~paired => CodeIsCleared'
    BY <1>0 DEF CodeIsCleared
  <2> QED BY <1>0, <2>5, <2>6, <2>7, <2>8, <2>9 DEF CodeInv
<1>2. CASE /\ chan[c].items = <<>> /\ ~chan[c].open
           /\ reader' = [reader EXCEPT ![k] = NoReader]
           /\ UNCHANGED chan
  <2>1. /\ reader'[k].at = "none" /\ reader'[k].item = "none"
        /\ \A j \in Channels \ {k} : reader'[j] = reader[j]
    BY <1>0, <1>2 DEF ReadersOK, NoReader
  <2>2. ItemsInv' /\ DialInv'
    BY <1>0, <1>2 DEF CodeInv, ItemsInv, DialInv
  <2>3. ASSUME ~overtaken' PROVE (OwnChannel /\ ScannedIsRead)'
    BY <1>0, <1>2, <2>1, <2>3 DEF CodeInv, OwnChannel, ScannedIsRead
  <2>4. ASSUME ~overtaken' PROVE CodeIsCleared'
    <3>1. ~WillClear(k)
      BY <1>0, <1>2, <2>4 DEF WillClear
    <3>2. \A j \in Channels \ {k} : WillClear(j) => WillClear(j)'
      BY <1>2, <2>1 DEF WillClear
    <3> QED BY <1>0, <1>2, <2>1, <2>4, <3>1, <3>2 DEF CodeInv, CodeIsCleared
  <2> QED BY <2>2, <2>3, <2>4 DEF CodeInv
<1> QED BY <1>1, <1>2 DEF Receive

LEMMA HandleCode ==
    ASSUME CodeInv, (TypeOK /\ ChannelsInv)', NEW k \in Channels, HandleItem(k)
    PROVE  CodeInv'
<1>1. /\ UNCHANGED <<link, paired, mu, fresh, qrChan, chan, overtaken>>
      /\ reader[k].item \in {"code"} \cup Last
      /\ reader[k].at = "reading" /\ ReadersOK
      /\ qr' = CodeAfter(reader[k].item, reader[k].from)
  BY DEF HandleItem, whatsapp, history, CodeInv, TypeOK, ReadersOK, Reader
<1>2. /\ reader'[k].at = "reading" /\ reader'[k].from = reader[k].from
      /\ reader'[k].item = "none"
      /\ \A j \in Channels \ {k} : reader'[j] = reader[j]
  BY <1>1 DEF HandleItem, ReadersOK, Reader
<1>3. ItemsInv' /\ DialInv'
  BY <1>1 DEF CodeInv, ItemsInv, DialInv
<1>4. ASSUME ~overtaken' PROVE (OwnChannel /\ ScannedIsRead)'
  BY <1>1, <1>2, <1>4 DEF CodeInv, OwnChannel, ScannedIsRead
<1>5. ASSUME ~overtaken', paired PROVE CodeIsCleared'
  <2>1. CASE reader[k].item = "code"
    <3>1. chan'[k].items = <<"success">>
      BY <1>1, <1>5, <2>1 DEF CodeInv, CodeIsCleared
    <3>2. WillClear(k)'
      BY <1>2, <3>1 DEF WillClear
    <3> QED BY <1>1, <1>2, <1>5, <3>2 DEF CodeInv, CodeIsCleared
  <2>2. CASE reader[k].item \in {"success", "timeout"}
    <3>1. qr' = NoCode
      BY <1>1, <2>2 DEF CodeAfter
    <3> QED BY <1>1, <1>2, <1>5, <3>1 DEF CodeInv, CodeIsCleared
  <2>3. CASE reader[k].item = "other"
    <3>1. qr' = qr
      BY <1>1, <2>3 DEF CodeAfter
    <3>2. \A j \in Channels : WillClear(j) => WillClear(j)'
      BY <1>1, <1>2, <2>3 DEF WillClear
    <3> QED BY <1>1, <1>2, <1>5, <3>1, <3>2 DEF CodeInv, CodeIsCleared
  <2> QED BY <1>1, <2>1, <2>2, <2>3 DEF Last
<1>6. ~paired => CodeIsCleared'
  BY <1>1 DEF CodeIsCleared
<1> QED BY <1>3, <1>4, <1>5, <1>6 DEF CodeInv

LEMMA SendCodes ==
    ASSUME CodeInv, (TypeOK /\ ChannelsInv)', NEW k \in Channels, SendCode(k) \/ EndChannel(k)
    PROVE  CodeInv'
<1>1. PICK item \in {"code", "timeout", "other"} : SendItem(k, item)
  BY DEF SendCode, EndChannel
<1>2. /\ chan[k].open /\ ~paired
      /\ chan'[k].items = <<item>> /\ chan'[k].open = (item = "code")
      /\ \A j \in Channels \ {k} : chan'[j] = chan[j]
  BY <1>1 DEF SendItem, Sent, CodeInv, ChannelsInv, TypeOK, ReadersOK
<1>3. /\ UNCHANGED <<paired, mu, fresh, qr, qrChan, reader, overtaken>>
      /\ link' \in {link, "down"}
  BY DEF SendCode, EndChannel, whatsapp, history
<1>4. ItemsInv'
  <2>1. <<item>> \in IF item = "code" THEN {<<>>, <<"code">>}
                     ELSE {<<>>, <<"code", "success">>} \cup {<<e>> : e \in Last}
    BY <1>1 DEF Last
  <2> QED BY <1>2, <2>1 DEF CodeInv, ItemsInv
<1>5. DialInv'
  BY <1>2, <1>3 DEF CodeInv, DialInv
<1>6. ~overtaken' => (OwnChannel /\ ScannedIsRead /\ CodeIsCleared)'
  BY <1>2, <1>3 DEF CodeInv, OwnChannel, ScannedIsRead, CodeIsCleared
<1> QED BY <1>4, <1>5, <1>6 DEF CodeInv

LEMMA ScanCode ==
    ASSUME CodeInv, (TypeOK /\ ChannelsInv)', Scan
    PROVE  CodeInv'
<1>1. /\ link = "open" /\ link' = link /\ ~paired /\ paired'
      /\ qr = qrChan /\ qrChan \in Channels /\ chan[qrChan].open
      /\ UNCHANGED <<mu, fresh, qr, qrChan, reader>>
      /\ ~overtaken' => ~overtaken /\ ReadersKeepUp
  BY SessionAssumption DEF Scan, CodeInv, TypeOK, ReadersOK
<1>2. \A k \in Channels : /\ ~chan'[k].open
                          /\ ~chan[k].open => chan'[k] = chan[k]
                          /\ chan[k].open => chan'[k].items = Append(chan[k].items, "success")
  BY DEF Scan, Sent, CodeInv, TypeOK, ReadersOK
<1>3. \A k \in Channels : chan[k].open =>
          chan'[k].items \in {<<"success">>, <<"code", "success">>}
  <2> SUFFICES ASSUME NEW k \in Channels, chan[k].open
               PROVE  chan'[k].items \in {<<"success">>, <<"code", "success">>}
    OBVIOUS
  <2>1. chan[k].items = <<>> \/ chan[k].items = <<"code">>
    BY DEF CodeInv, ItemsInv
  <2> QED BY <1>2, <2>1, ItemsScanned
<1>4. ItemsInv'
  BY <1>2, <1>3 DEF CodeInv, ItemsInv, Last
<1>5. DialInv'
  BY <1>1, <1>2 DEF CodeInv, DialInv
<1>6. ASSUME ~overtaken' PROVE (OwnChannel /\ ScannedIsRead)'
  BY <1>1, <1>6 DEF CodeInv, OwnChannel, ScannedIsRead
<1>7. ASSUME ~overtaken' PROVE CodeIsCleared'
  <2>1. reader[qrChan].at = "reading"
    BY <1>1, <1>7 DEF CodeInv, ScannedIsRead, ReadersKeepUp, TypeOK, ReadersOK, Reader
  <2>2. WillClear(qrChan)'
    BY <1>1, <1>3, <2>1 DEF WillClear
  <2>3. \A k \in Channels : reader'[k].item = "none"
    BY <1>1, <1>7 DEF ReadersKeepUp
  <2> QED BY <1>1, <2>2, <2>3 DEF CodeIsCleared
<1> QED BY <1>4, <1>5, <1>6, <1>7 DEF CodeInv

LEMMA NextCode == CodeInv /\ [Next]_vars => CodeInv'
<1> SUFFICES ASSUME CodeInv, [Next]_vars PROVE CodeInv'
  OBVIOUS
<1>0. (TypeOK /\ ChannelsInv)'
  BY NextTypes, NextChannels DEF CodeInv
<1>1. CASE SetFlag \/ HandleEvent \/ Login \/ Drop \/ Redial \/ Unlinked
  <2>1. UNCHANGED <<mu, fresh, qrVars, overtaken>> /\ (paired' => paired)
    BY <1>1 DEF SetFlag, HandleEvent, Login, Drop, Redial, Unlinked, whatsapp, history
  <2>2. /\ link' = "open" /\ ~paired' => link = "open" /\ ~paired
        /\ fresh' => fresh /\ (link = "down" /\ ~paired => link' = "down" /\ ~paired')
    BY <1>1, <2>1 DEF SetFlag, HandleEvent, Login, Drop, Redial, Unlinked, whatsapp
  <2> QED BY <1>0, <2>1, <2>2, QuietCode
<1>2. CASE UNCHANGED vars
  BY <1>0, <1>2, QuietCode DEF vars, whatsapp, history
<1> QED
  BY <1>0, <1>1, <1>2, RequestCode, StartsCode, ReceiveCode, HandleCode, SendCodes, ScanCode
     DEF Next

\* Once a device is linked and the readers have returned, no code is left to show,
\* for any number of requests and logins, unless people overtook a reader.
THEOREM CodesAreCleared == Spec => []NoCodeOncePaired
<1>1. CodeInv => NoCodeOncePaired
  BY DEF CodeInv, CodeIsCleared, WillClear, NoCodeOncePaired, NoReader
<1> QED
  BY <1>1, InitCode, NextCode, PTL DEF Spec

================================================================================
