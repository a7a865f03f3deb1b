------------------------ MODULE InstanceLifecycleProofs ------------------------
(***************************************************************************)
(* What InstanceLifecycle guarantees for every set of ids and handlers, and *)
(* until which faults.                                                     *)
(***************************************************************************)
EXTENDS InstanceLifecycle, TLAPS

Creating(h)  == op[h].kind = "client"
Inserting(h) == op[h].kind = "insert"
Deleting(h)  == op[h].kind = "deleteRow"

\* Requests are served only while main serves, and the loops of main are over.
\* Only a creation makes a file or a row, and the row is its last step.
Phases ==
    /\ files \subseteq used
    /\ rows \cup deleted \subseteq acked
    /\ main = "files" => todo \subseteq files
    /\ main = "rows" => todo \subseteq rows
    /\ main \in {"serving", "down"} => todo = {}
    /\ main # "serving" => \A h \in Handlers : op[h] = NoOp

\* A creation in progress owns its id: the instance has neither a row nor an answer,
\* and until a deletion comes for it, from then on a client.
Requests ==
    /\ \A h \in Handlers : Creating(h) => op[h].id \in used \ (files \cup acked)
    /\ \A h \in Handlers : Inserting(h) =>
           op[h].id \in (used \cap (clients \cup touched)) \ acked
    /\ \A g, h \in Handlers :
           /\ Creating(g) \/ Inserting(g)
           /\ Creating(h) \/ Inserting(h)
           /\ op[g].id = op[h].id
           => g = h
    /\ \A h \in Handlers : Deleting(h) => op[h].id \in touched
    /\ \A g, h \in Handlers :
           Creating(g) /\ Deleting(h) /\ op[g].id = op[h].id => op[g].id \in undercut
    /\ \A h \in Handlers : Creating(h) /\ op[h].id \in touched => op[h].id \in undercut

Base == TypeOK /\ Phases /\ Requests

--------------------------------------------------------------------------------
\* Each step keeps the types and the ownership of the requests in progress.
LEMMA BaseStep ==
    ASSUME Base, [Next]_vars
    PROVE  Base'
<1> USE DEF Base, TypeOK, Phases, Requests, Creating, Inserting, Deleting, NoOp, Op, Works, Fails
<1>1. ASSUME NEW id \in Ids, RestoreFile(id) PROVE Base'
  BY <1>1 DEF RestoreFile, OpenSession, OpenSessionFails, history
<1>2. ASSUME NEW id \in Ids, RestoreRow(id) PROVE Base'
  BY <1>2 DEF RestoreRow, OpenSession, OpenSessionFails, history
<1>3. CASE ListRows \/ ListRowsFails \/ Serve
  BY <1>3 DEF ListRows, RowsToRestore, ListRowsFails, Serve, stores, history
<1>4. CASE Kill
  BY <1>4 DEF Kill, history
<1>5. CASE Restart
  BY <1>5 DEF Restart, FilesToRestore, stores, history
<1>6. ASSUME NEW h \in Handlers, NEW id \in Ids, Create(h, id) PROVE Base'
  <2>1. /\ main = "serving" /\ op[h] = NoOp /\ id \notin used
        /\ used' = used \cup {id}
        /\ op'[h] = [kind |-> "client", id |-> id]
        /\ \A g \in Handlers : g # h => op'[g] = op[g]
        /\ UNCHANGED <<main, todo, clients, files, rows, acked, touched, deleted, undercut>>
    BY <1>6 DEF Create, Idle, stores
  <2>2. TypeOK' /\ Phases'
    BY <1>6, <2>1 DEF Create
  <2>3. \A g \in Handlers : Creating(g) \/ Inserting(g) \/ Deleting(g) => op[g].id # id
    BY <2>1
  <2>4. id \notin files
    BY <2>1
  <2>5. Requests'
    BY <2>1, <2>3, <2>4
  <2> QED BY <2>2, <2>5
<1>7. ASSUME NEW h \in Handlers, CreateClient(h) PROVE Base'
  <2>1. /\ op[h].kind = "client" /\ op[h].id \in Ids
        /\ \A g \in Handlers : g # h => op'[g] = op[g]
        /\ UNCHANGED <<main, todo, rows, used, acked, touched, deleted, undercut>>
    BY <1>7 DEF CreateClient, history
  <2>2. CASE OpenSession(op[h].id) /\ op' = [op EXCEPT ![h].kind = "insert"]
    <3>1. op'[h] = [kind |-> "insert", id |-> op[h].id]
      BY <2>1, <2>2
    <3>2. TypeOK' /\ Phases'
      BY <2>1, <2>2, <3>1 DEF OpenSession
    <3>3. Requests'
      BY <2>1, <2>2, <3>1 DEF OpenSession
    <3> QED BY <3>2, <3>3
  <2>3. CASE OpenSessionFails(op[h].id) /\ op' = [op EXCEPT ![h] = NoOp]
    <3>1. TypeOK' /\ Phases'
      BY <2>1, <2>3 DEF OpenSessionFails
    <3>2. Requests'
      BY <2>1, <2>3 DEF OpenSessionFails
    <3> QED BY <3>1, <3>2
  <2> QED BY <1>7, <2>2, <2>3 DEF CreateClient
<1>8. ASSUME NEW h \in Handlers, CreateRow(h) PROVE Base'
  <2>1. TypeOK' /\ Phases'
    BY <1>8 DEF CreateRow, RowInserted
  <2>2. Requests'
    BY <1>8 DEF CreateRow, RowInserted
  <2> QED BY <2>1, <2>2
<1>9. ASSUME NEW h \in Handlers, NEW id \in Ids, DeleteClient(h, id) PROVE Base'
  <2>1. TypeOK' /\ Phases'
    BY <1>9 DEF DeleteClient, DeleteInstance, Idle
  <2>2. /\ touched' = touched \cup {id} /\ undercut \subseteq undercut'
        /\ Undercuts(id) => id \in undercut'
        /\ op[h] = NoOp /\ op'[h] = [kind |-> "deleteRow", id |-> id]
        /\ \A g \in Handlers : g # h => op'[g] = op[g]
        /\ clients' \in {clients, clients \ {id}} /\ files' \subseteq files
        /\ UNCHANGED <<rows, used, acked, deleted>>
    BY <1>9 DEF DeleteClient, DeleteInstance, Idle
  <2>3. \A g \in Handlers : Creating(g) /\ op[g].id = id => id \in undercut'
    <3> SUFFICES ASSUME NEW g \in Handlers, Creating(g), op[g].id = id PROVE Undercuts(id)
      BY <2>2
    <3>1. op[g] \in [kind : {"client", "insert", "deleteRow"}, id : Ids]
      OBVIOUS
    <3> QED BY <3>1 DEF Undercuts
  <2>4. Requests'
    BY <2>2, <2>3
  <2> QED BY <2>1, <2>4
<1>10. ASSUME NEW h \in Handlers, DeleteRow(h) PROVE Base'
  BY <1>10 DEF DeleteRow
<1>11. CASE UNCHANGED vars
  BY <1>11 DEF vars
<1> QED BY <1>1, <1>2, <1>3, <1>4, <1>5, <1>6, <1>7, <1>8, <1>9, <1>10, <1>11 DEF Next

\* The base of the other proofs.
LEMMA BaseInvariance == Spec => []Base
<1>1. Init => Base
  BY DEF Init, Base, TypeOK, Phases, Requests, Creating, Inserting, Deleting, NoOp, Op
<1> QED BY <1>1, BaseStep, PTL DEF Spec

\* The types of the variables, and the inclusions between the stores.
THEOREM TypeCorrect == Spec => []TypeOK
<1>1. Base => TypeOK
  BY DEF Base
<1> QED BY <1>1, BaseInvariance, PTL

--------------------------------------------------------------------------------
(* One theorem for each promise, until the faults that would break it. *)

\* After a restart every row nobody asked to delete is on its way to a client.
RowsOnTheirWay ==
    /\ failed \cap {"session", "select"} = {} /\ main = "rows" =>
           rows \ touched \subseteq clients \cup todo
    /\ RowsAreServed

\* So is every session file, and an answered creation has one.
FilesOnTheirWay ==
  failed \cap {"session", "readdir", "storage"} = {} =>
    /\ main = "files" => files \ touched \subseteq clients \cup todo
    /\ main \in {"rows", "serving"} => files \ touched \subseteq clients
    /\ acked \ touched \subseteq files

\* The rows there are and those a creation in progress is about to insert.
RowsToBe == rows \cup {op[g].id : g \in {h \in Handlers : Inserting(h)}}

\* While the server listens, an id with a file and such a row has a client; therefore
\* a deletion that has come to the row has removed the file, unless the client was
\* made after it.
NoFileBehind ==
  failed \cap {"session", "remove"} = {} /\ ~({"readdir", "select"} \subseteq failed) =>
    /\ main = "files" /\ "readdir" \notin failed => files \subseteq clients \cup todo
    /\ main = "rows" => files \cap rows \subseteq clients \cup todo
    /\ main = "serving" => files \cap RowsToBe \subseteq clients
    /\ \A h \in Handlers : Deleting(h) /\ op[h].id \in RowsToBe \ undercut => op[h].id \notin files
    /\ DeletedIsGone

\* A listed instance is served, until a session database does not open or the rows
\* are not read when the process starts.
THEOREM ListedAreServed == Spec => []RowsAreServed
<1>1. Init => RowsOnTheirWay
  BY DEF Init, RowsOnTheirWay, RowsAreServed
<1>2. Base /\ RowsOnTheirWay /\ [Next]_vars => RowsOnTheirWay'
  <2> SUFFICES ASSUME Base, RowsOnTheirWay, [Next]_vars PROVE RowsOnTheirWay'
    OBVIOUS
  <2> USE DEF Base, TypeOK, Phases, Requests, Creating, Inserting, Deleting, NoOp, Op, Works, Fails,
              RowsOnTheirWay, RowsAreServed
  <2>1. ASSUME NEW id \in Ids, RestoreFile(id) PROVE RowsOnTheirWay'
    BY <2>1 DEF RestoreFile, OpenSession, OpenSessionFails, history
  <2>2. ASSUME NEW id \in Ids, RestoreRow(id) PROVE RowsOnTheirWay'
    BY <2>2 DEF RestoreRow, OpenSession, OpenSessionFails, history
  <2>3. CASE ListRows \/ ListRowsFails \/ Serve
    BY <2>3 DEF ListRows, RowsToRestore, ListRowsFails, Serve, stores, history
  <2>4. CASE Kill \/ Restart
    BY <2>4 DEF Kill, Restart, FilesToRestore, stores, history
  <2>5. ASSUME NEW h \in Handlers, NEW id \in Ids, Create(h, id) PROVE RowsOnTheirWay'
    BY <2>5 DEF Create, Idle, stores
  <2>6. ASSUME NEW h \in Handlers, CreateClient(h) PROVE RowsOnTheirWay'
    BY <2>6 DEF CreateClient, OpenSession, OpenSessionFails, history
  <2>7. ASSUME NEW h \in Handlers, CreateRow(h) PROVE RowsOnTheirWay'
    BY <2>7 DEF CreateRow, RowInserted
  <2>8. ASSUME NEW h \in Handlers, NEW id \in Ids, DeleteClient(h, id) PROVE RowsOnTheirWay'
    BY <2>8 DEF DeleteClient, DeleteInstance, Idle
  <2>9. ASSUME NEW h \in Handlers, DeleteRow(h) PROVE RowsOnTheirWay'
    BY <2>9 DEF DeleteRow
  <2>10. CASE UNCHANGED vars
    BY <2>10 DEF vars
  <2> QED BY <2>1, <2>2, <2>3, <2>4, <2>5, <2>6, <2>7, <2>8, <2>9, <2>10 DEF Next
<1>3. RowsOnTheirWay => RowsAreServed
  BY DEF RowsOnTheirWay, RowsAreServed
<1> QED BY <1>1, <1>2, <1>3, BaseInvariance, PTL DEF Spec

\* An acknowledged instance is kept, until the storage directory is lost or not read,
\* or a session database does not open.
THEOREM CreatedAreKept == Spec => []CreatedIsKept
<1>1. Init => FilesOnTheirWay
  BY DEF Init, FilesOnTheirWay, CreatedIsKept
<1>2. Base /\ FilesOnTheirWay /\ [Next]_vars => FilesOnTheirWay'
  <2> SUFFICES ASSUME Base, FilesOnTheirWay, [Next]_vars PROVE FilesOnTheirWay'
    OBVIOUS
  <2> USE DEF Base, TypeOK, Phases, Requests, Creating, Inserting, Deleting, NoOp, Op, Works, Fails,
              FilesOnTheirWay, CreatedIsKept
  <2>1. ASSUME NEW id \in Ids, RestoreFile(id) PROVE FilesOnTheirWay'
    BY <2>1 DEF RestoreFile, OpenSession, OpenSessionFails, history
  <2>2. ASSUME NEW id \in Ids, RestoreRow(id) PROVE FilesOnTheirWay'
    BY <2>2 DEF RestoreRow, OpenSession, OpenSessionFails, history
  <2>3. CASE ListRows \/ ListRowsFails \/ Serve
    BY <2>3 DEF ListRows, RowsToRestore, ListRowsFails, Serve, stores, history
  <2>4. CASE Kill \/ Restart
    BY <2>4 DEF Kill, Restart, FilesToRestore, stores, history
  <2>5. ASSUME NEW h \in Handlers, NEW id \in Ids, Create(h, id) PROVE FilesOnTheirWay'
    BY <2>5 DEF Create, Idle, stores
  <2>6. ASSUME NEW h \in Handlers, CreateClient(h) PROVE FilesOnTheirWay'
    BY <2>6 DEF CreateClient, OpenSession, OpenSessionFails, history
  <2>7. ASSUME NEW h \in Handlers, CreateRow(h) PROVE FilesOnTheirWay'
    BY <2>7 DEF CreateRow, RowInserted
  <2>8. ASSUME NEW h \in Handlers, NEW id \in Ids, DeleteClient(h, id) PROVE FilesOnTheirWay'
    BY <2>8 DEF DeleteClient, DeleteInstance, Idle
  <2>9. ASSUME NEW h \in Handlers, DeleteRow(h) PROVE FilesOnTheirWay'
    BY <2>9 DEF DeleteRow
  <2>10. CASE UNCHANGED vars
    BY <2>10 DEF vars
  <2> QED BY <2>1, <2>2, <2>3, <2>4, <2>5, <2>6, <2>7, <2>8, <2>9, <2>10 DEF Next
<1>3. FilesOnTheirWay => CreatedIsKept
  BY DEF FilesOnTheirWay, CreatedIsKept
<1> QED BY <1>1, <1>2, <1>3, BaseInvariance, PTL DEF Spec

\* An acknowledged instance is listed, until an INSERT fails.
THEOREM CreatedAreListed == Spec => []CreatedIsListed
<1>1. Init => CreatedIsListed
  BY DEF Init, CreatedIsListed
<1>2. Base /\ CreatedIsListed /\ [Next]_vars => CreatedIsListed'
  <2> SUFFICES ASSUME Base, CreatedIsListed, [Next]_vars PROVE CreatedIsListed'
    OBVIOUS
  <2> USE DEF Base, TypeOK, Phases, Requests, Creating, Inserting, Deleting, NoOp, Op, Works, Fails,
              CreatedIsListed
  <2>1. ASSUME NEW id \in Ids, RestoreFile(id) PROVE CreatedIsListed'
    BY <2>1 DEF RestoreFile, OpenSession, OpenSessionFails, history
  <2>2. ASSUME NEW id \in Ids, RestoreRow(id) PROVE CreatedIsListed'
    BY <2>2 DEF RestoreRow, OpenSession, OpenSessionFails, history
  <2>3. CASE ListRows \/ ListRowsFails \/ Serve
    BY <2>3 DEF ListRows, RowsToRestore, ListRowsFails, Serve, stores, history
  <2>4. CASE Kill \/ Restart
    BY <2>4 DEF Kill, Restart, FilesToRestore, stores, history
  <2>5. ASSUME NEW h \in Handlers, NEW id \in Ids, Create(h, id) PROVE CreatedIsListed'
    BY <2>5 DEF Create, Idle, stores
  <2>6. ASSUME NEW h \in Handlers, CreateClient(h) PROVE CreatedIsListed'
    BY <2>6 DEF CreateClient, OpenSession, OpenSessionFails, history
  <2>7. ASSUME NEW h \in Handlers, CreateRow(h) PROVE CreatedIsListed'
    BY <2>7 DEF CreateRow, RowInserted
  <2>8. ASSUME NEW h \in Handlers, NEW id \in Ids, DeleteClient(h, id) PROVE CreatedIsListed'
    BY <2>8 DEF DeleteClient, DeleteInstance, Idle
  <2>9. ASSUME NEW h \in Handlers, DeleteRow(h) PROVE CreatedIsListed'
    BY <2>9 DEF DeleteRow
  <2>10. CASE UNCHANGED vars
    BY <2>10 DEF vars
  <2> QED BY <2>1, <2>2, <2>3, <2>4, <2>5, <2>6, <2>7, <2>8, <2>9, <2>10 DEF Next
<1> QED BY <1>1, <1>2, BaseInvariance, PTL DEF Spec

\* A deleted instance is gone for good, unless its deletion came before its client was
\* made, and until a session database does not open or a file cannot be removed, or
\* both the directory and the rows have once not been read.
THEOREM DeletedAreGone == Spec => []DeletedIsGone
<1>1. Init => NoFileBehind
  BY DEF Init, NoFileBehind, DeletedIsGone
<1>2. Base /\ NoFileBehind /\ [Next]_vars => NoFileBehind'
  <2> SUFFICES ASSUME Base, NoFileBehind, [Next]_vars PROVE NoFileBehind'
    OBVIOUS
  <2> USE DEF Base, TypeOK, Phases, Requests, Creating, Inserting, Deleting, NoOp, Op, Works, Fails,
              NoFileBehind, DeletedIsGone, RowsToBe
  <2>1. ASSUME NEW id \in Ids, RestoreFile(id) PROVE NoFileBehind'
    BY <2>1 DEF RestoreFile, OpenSession, OpenSessionFails, history
  <2>2. ASSUME NEW id \in Ids, RestoreRow(id) PROVE NoFileBehind'
    BY <2>2 DEF RestoreRow, OpenSession, OpenSessionFails, history
  <2>3. CASE ListRows \/ ListRowsFails \/ Serve
    BY <2>3 DEF ListRows, RowsToRestore, ListRowsFails, Serve, stores, history
  <2>4. CASE Kill \/ Restart
    BY <2>4 DEF Kill, Restart, FilesToRestore, stores, history
  <2>5. ASSUME NEW h \in Handlers, NEW id \in Ids, Create(h, id) PROVE NoFileBehind'
    BY <2>5 DEF Create, Idle, stores
  <2>6. ASSUME NEW h \in Handlers, CreateClient(h) PROVE NoFileBehind'
    BY <2>6 DEF CreateClient, OpenSession, OpenSessionFails, history
  <2>7. ASSUME NEW h \in Handlers, CreateRow(h) PROVE NoFileBehind'
    BY <2>7 DEF CreateRow, RowInserted
  <2>8. ASSUME NEW h \in Handlers, NEW id \in Ids, DeleteClient(h, id) PROVE NoFileBehind'
    BY <2>8 DEF DeleteClient, DeleteInstance, Idle
  <2>9. ASSUME NEW h \in Handlers, DeleteRow(h) PROVE NoFileBehind'
    BY <2>9 DEF DeleteRow
  <2>10. CASE UNCHANGED vars
    BY <2>10 DEF vars
  <2> QED BY <2>1, <2>2, <2>3, <2>4, <2>5, <2>6, <2>7, <2>8, <2>9, <2>10 DEF Next
<1>3. NoFileBehind => DeletedIsGone
  BY DEF NoFileBehind, DeletedIsGone
<1> QED BY <1>1, <1>2, <1>3, BaseInvariance, PTL DEF Spec
================================================================================
