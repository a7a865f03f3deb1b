--------------------------- MODULE InstanceLifecycle ---------------------------
(***************************************************************************)
(* The three places that know which instances exist, and what keeps them   *)
(* in step across requests, I/O errors and restarts of the process:        *)
(*   - the clients map of whatsapp.Manager, in memory;                     *)
(*   - the session files <id>.db in the storage directory;                 *)
(*   - the table instances of PostgreSQL.                                  *)
(* POST /instance/create and DELETE /instance/:id write them one after the *)
(* other (internal/handlers/instance.go); main restores the map from the   *)
(* files and then from the rows before it serves requests.                 *)
(*                                                                         *)
(* The proxy calls of the two handlers and the connection of a client are  *)
(* left to other modules. The ids are random and never reused.             *)
(***************************************************************************)
EXTENDS Integers, FiniteSets

CONSTANTS Ids,       \* the ids generateID may return
          Handlers,  \* the goroutines that serve requests
          Faults     \* the I/O that may fail:
                     \*   "session": opening a session database,
                     \*   "remove": os.Remove of a session file,
                     \*   "readdir": os.ReadDir of the storage directory,
                     \*   "insert", "select", "delete": SQL on instances,
                     \*   "storage": the directory is lost with the process
                     \*      (a container without the volume)

ASSUME FaultsAssumption ==
    Faults \subseteq {"session", "remove", "readdir", "insert", "select",
                      "delete", "storage"}

VARIABLES main,     \* "files": in RestoreAll; "rows": in the loop over the
                    \* rows; "serving"; "down"
          todo,     \* the entries that loop has still to look at
          clients,  \* the keys of Manager.clients
          files,    \* the ids with a session file
          rows,     \* the ids with a row in instances
          op,       \* op[h]: the request handler h is serving
          used,     \* the ids generated so far
          acked,    \* those whose creation was answered 201
          touched,  \* those a DELETE request reached the manager for
          deleted,  \* those whose deletion was answered 200
          undercut, \* those a DELETE request came for before their own creation
                    \* had got to the manager
          failed    \* the kinds of I/O that have failed so far

vars == <<main, todo, clients, files, rows, op, used, acked, touched, deleted, undercut,
          failed>>

stores  == <<clients, files, rows>>
history == <<used, acked, touched, deleted, undercut>>

NoOp == [kind |-> "none"]
Op   == {NoOp} \cup [kind : {"client", "insert", "deleteRow"}, id : Ids]

Init ==
    /\ main = "files"
    /\ todo = {}
    /\ clients = {} /\ files = {} /\ rows = {}
    /\ op = [h \in Handlers |-> NoOp]
    /\ used = {} /\ acked = {} /\ touched = {} /\ deleted = {} /\ undercut = {}
    /\ failed = {}

Works       == UNCHANGED failed
Fails(kind) == kind \in Faults /\ failed' = failed \cup {kind}

--------------------------------------------------------------------------------
(* Manager *)

\* CreateInstance when the id has no client: it opens, and so creates, the
\* session file under the lock of the manager. An error may leave the file behind.
OpenSession(id) ==
    /\ files' = files \cup {id}
    /\ clients' = clients \cup {id}
    /\ Works

OpenSessionFails(id) ==
    /\ Fails("session")
    /\ files' \in {files, files \cup {id}}
    /\ UNCHANGED clients

ForgetClient(id) ==
    /\ clients' = clients \ {id}
    /\ UNCHANGED <<files, failed>>
ForgetFile(id) ==
    /\ files' = files \ {id}
    /\ UNCHANGED <<clients, failed>>

\* DeleteInstance. Without a client it returns before it gets to the file.
DeleteInstance(id) ==
    \/ /\ id \notin clients
       /\ UNCHANGED <<clients, files>>
       /\ Works
    \/ /\ id \in clients
       /\ clients' = clients \ {id}
       /\ files' = files \ {id}
       /\ Works
    \/ /\ id \in clients
       /\ clients' = clients \ {id}
       /\ UNCHANGED files
       /\ Fails("remove")

--------------------------------------------------------------------------------
(* main: RestoreAll, the loop over the rows, the process going down and up. *)

RestoreFile(id) ==
    /\ main = "files"
    /\ id \in todo
    /\ todo' = todo \ {id}
    /\ OpenSession(id) \/ OpenSessionFails(id)
    /\ UNCHANGED <<main, rows, op, history>>

RowsWithFiles == rows \cap files
RowsToRestore == rows

ListRows ==
    /\ main = "files"
    /\ todo = {}
    /\ main' = "rows"
    /\ todo' = RowsToRestore
    /\ Works
    /\ UNCHANGED <<stores, op, history>>

\* db.ListInstances failed: the loop over the rows is skipped.
ListRowsFails ==
    /\ Fails("select")
    /\ main = "files"
    /\ todo = {}
    /\ main' = "rows"
    /\ UNCHANGED <<todo, stores, op, history>>

RestoreRow(id) ==
    /\ main = "rows"
    /\ id \in todo
    /\ todo' = todo \ {id}
    /\ \/ id \in clients /\ UNCHANGED <<clients, files>> /\ Works
       \/ id \notin clients /\ (OpenSession(id) \/ OpenSessionFails(id))
    /\ UNCHANGED <<main, rows, op, history>>

Serve ==
    /\ main = "rows"
    /\ todo = {}
    /\ main' = "serving"
    /\ Works
    /\ UNCHANGED <<todo, stores, op, history>>

\* At any time: the map and the requests being served are gone. A graceful
\* shutdown leaves no more behind.
Kill ==
    /\ main # "down"
    /\ main' = "down"
    /\ todo' = {}
    /\ clients' = {}
    /\ \/ UNCHANGED files /\ Works
       \/ files' = {} /\ Fails("storage")
    /\ op' = [h \in Handlers |-> NoOp]
    /\ UNCHANGED <<rows, history>>

ListedFilesOnly == files \cap rows
FilesToRestore == files

\* os.ReadDir, or its error, which RestoreAll passes over in silence.
Restart ==
    /\ main = "down"
    /\ main' = "files"
    /\ \/ todo' = FilesToRestore /\ Works
       \/ todo' = {} /\ Fails("readdir")
    /\ UNCHANGED <<stores, op, history>>

--------------------------------------------------------------------------------
(* POST /instance/create *)

Idle(h) == main = "serving" /\ op[h] = NoOp

\* The id is generated, and AssignProxy makes it known outside.
Create(h, id) ==
    /\ Idle(h)
    /\ id \notin used
    /\ used' = used \cup {id}
    /\ op' = [op EXCEPT ![h] = [kind |-> "client", id |-> id]]
    /\ Works
    /\ UNCHANGED <<main, todo, stores, acked, touched, deleted, undercut>>

CreateClient(h) ==
    /\ op[h].kind = "client"
    /\ \/ /\ OpenSession(op[h].id)
          /\ op' = [op EXCEPT ![h].kind = "insert"]
       \/ /\ OpenSessionFails(op[h].id)
          /\ op' = [op EXCEPT ![h] = NoOp]
    /\ UNCHANGED <<main, todo, rows, history>>

RowMayBeLost(id) == rows' \in {rows, rows \cup {id}} /\ Works

\* The error of db.CreateInstance is logged: the answer is 201 all the same.
RowInserted(id) ==
    \/ rows' = rows \cup {id} /\ Works
    \/ UNCHANGED rows /\ Fails("insert")

CreateRow(h) ==
    /\ op[h].kind = "insert"
    /\ RowInserted(op[h].id)
    /\ acked' = acked \cup {op[h].id}
    /\ op' = [op EXCEPT ![h] = NoOp]
    /\ UNCHANGED <<main, todo, clients, files, used, touched, deleted, undercut>>

--------------------------------------------------------------------------------
(* DELETE /instance/:id *)

Undercuts(id) == \E g \in Handlers : op[g] = [kind |-> "client", id |-> id]

\* Any id will do, also one whose creation is under way; one nobody generated is
\* in none of the stores.
DeleteClient(h, id) ==
    /\ Idle(h)
    /\ id \in used
    /\ DeleteInstance(id)
    /\ touched' = touched \cup {id}
    /\ undercut' = IF Undercuts(id) THEN undercut \cup {id} ELSE undercut
    /\ op' = [op EXCEPT ![h] = [kind |-> "deleteRow", id |-> id]]
    /\ UNCHANGED <<main, todo, rows, used, acked, deleted>>

\* 200 when the row was there; 500 when it was not, or when the statement failed.
DeleteRow(h) ==
    /\ op[h].kind = "deleteRow"
    /\ op' = [op EXCEPT ![h] = NoOp]
    /\ \/ /\ op[h].id \in rows
          /\ rows' = rows \ {op[h].id}
          /\ deleted' = deleted \cup {op[h].id}
          /\ Works
       \/ /\ UNCHANGED <<rows, deleted>>
          /\ (op[h].id \notin rows /\ Works) \/ Fails("delete")
    /\ UNCHANGED <<main, todo, clients, files, used, acked, touched, undercut>>

--------------------------------------------------------------------------------
Next ==
    \/ \E id \in Ids : RestoreFile(id) \/ RestoreRow(id)
    \/ ListRows \/ ListRowsFails \/ Serve \/ Kill \/ Restart
    \/ \E h \in Handlers :
          \/ \E id \in Ids : Create(h, id) \/ DeleteClient(h, id)
          \/ CreateClient(h) \/ CreateRow(h)
          \/ DeleteRow(h)

Spec == Init /\ [][Next]_vars

--------------------------------------------------------------------------------
(* Properties *)

\* Each variable has its type. Every client has its session file; only a known id
\* has a row or was answered for; only a request can have deleted an instance.
TypeOK ==
    /\ main \in {"files", "rows", "serving", "down"}
    /\ todo \subseteq Ids
    /\ files \subseteq Ids
    /\ clients \subseteq files
    /\ op \in [Handlers -> Op]
    /\ used \subseteq Ids
    /\ rows \subseteq used /\ acked \subseteq used /\ touched \subseteq used
    /\ deleted \subseteq touched /\ undercut \subseteq touched
    /\ failed \subseteq Faults

\* Once the server listens, every row nobody asked to delete has a client: no
\* request for a listed instance is answered "not found" (main:63-83), whatever
\* was interrupted before and even if the session files were lost. It holds until
\* a session database does not open or the list of rows is not read.
RowsAreServed ==
    failed \cap {"session", "select"} = {} /\ main = "serving" =>
        rows \ touched \subseteq clients

\* An instance whose creation was answered 201 and that nobody asked to delete
\* keeps its session file, and has a client whenever the server listens, also
\* when its row could not be inserted. It holds until the storage directory is
\* lost or not read, or a session database does not open.
CreatedIsKept ==
    failed \cap {"session", "readdir", "storage"} = {} =>
        /\ acked \ touched \subseteq files
        /\ main = "serving" => acked \ touched \subseteq clients

\* An instance whose creation was answered 201 "created" is listed until somebody
\* asks to delete it. It holds until an INSERT fails.
CreatedIsListed == "insert" \notin failed => acked \ touched \subseteq rows

\* An instance whose deletion was answered 200 "deleted" is gone from the map,
\* the storage directory and the table, and does not come back with a restart. The
\* exception is a deletion that came to the manager before the creation of its
\* instance did (instance.go:46-56): the client made afterwards stays. It holds
\* until a session database does not open or a file cannot be removed, or both the
\* directory and the rows have once not been read.
DeletedIsGone ==
    failed \cap {"session", "remove"} = {} /\ ~({"readdir", "select"} \subseteq failed) =>
        (deleted \ undercut) \cap (clients \cup files \cup rows) = {}
================================================================================
