------------------------------- MODULE Session -------------------------------
(***************************************************************************)
(* A connection and its dedicated MariaDB session (mariadb.go, the         *)
(* connection's options and transactions; connection.go, catalogs, driver  *)
(* info and table schema; the queries of GetObjects and GetStatistics).    *)
(*                                                                         *)
(* The application makes one call at a time.  Every call first closes the  *)
(* result that an earlier query left pending (ClearPending), then makes    *)
(* its round trips: the command is sent, the server executes or refuses    *)
(* it, the reply is received.  The connection may be lost at any moment (a *)
(* cancelled context closes it, too); the server then still has the        *)
(* command, and may execute it before it ends the session.                 *)
(***************************************************************************)
EXTENDS MariaDBServer, Sequences

CONSTANTS
  Calls,              (* the calls the application makes                   *)
  Catalogs,           (* databases of the server                           *)
  Levels,             (* values tried for the isolation level option       *)
  GlobalIsolation,    (* the server's default isolation level              *)
  None

ASSUME GlobalIsolationAssumption ==
  GlobalIsolation \in {"READ UNCOMMITTED", "READ COMMITTED", "REPEATABLE READ", "SERIALIZABLE"}

VARIABLES
  store,      (* the rows and the mode of the server session               *)
  settings,   (* the session's isolation level and database                *)
  inflight,   (* the command sent and not executed yet                     *)
  reply,      (* the reply of the server to the call                       *)
  linked,     (* c.Conn still works                                        *)
  wire,       (* the result set that occupies the connection               *)
  call,       (* the call in progress                                      *)
  mode,       (* driverbase's autocommit flag                              *)
  version,    (* c.version is cached                                       *)
  journal,    (* history: what the application was told                    *)
  asked,      (* history: the isolation level set last                     *)
  answer      (* history: what a GetIsolationLevel just returned           *)

server == <<store, settings, inflight>>
client == <<wire, call, mode, version, asked, answer>>
vars   == <<store, settings, inflight, reply, linked, wire, call, mode, version,
            journal, asked, answer>>

IdleCall  == [op |-> "idle", pc |-> "idle", arg |-> None, todo |-> <<>>]
NoAnswer  == [status |-> "none", value |-> None]
NoReply   == [status |-> "none", value |-> None]
NoCommand == [name |-> "none", arg |-> "none"]

Idle    == call.pc = "idle"
Command == [name |-> Head(call.todo), arg |-> call.arg]

(* What the call asks for, in terms of transactions.                       *)
Asked ==
  CASE call.op = "ExecuteUpdate" -> [name |-> "WRITE", arg |-> call.arg]
    [] call.op = "SetAutocommit" -> [name |-> "SET autocommit", arg |-> call.arg]
    [] call.op = "Commit"        -> [name |-> "COMMIT", arg |-> "none"]
    [] call.op = "Rollback"      -> [name |-> "ROLLBACK", arg |-> "none"]
    [] call.op = "ExecuteQuery"  -> [name |-> "SELECT", arg |-> "none"]
    [] OTHER                     -> [name |-> "OTHER", arg |-> "none"]

(* Results the driver reads row by row.                                    *)
RowsNames == {"COLUMNS", "CHECKS", "OBJECTS", "CONSTRAINTS", "TABLES", "INDEXES"}

-----------------------------------------------------------------------------
(* Isolation levels: the standard option values, the words of the          *)
(* statement, and what @@SESSION.transaction_isolation shows (external).   *)
SupportedLevels == {"default", "read_uncommitted", "read_committed",
                    "repeatable_read", "serializable"}
RefusedLevels   == {"snapshot", "linearizable"}

IsolationWords(value) ==
  CASE value = "default"          -> GlobalIsolation
    [] value = "read_uncommitted" -> "READ UNCOMMITTED"
    [] value = "read_committed"   -> "READ COMMITTED"
    [] value = "repeatable_read"  -> "REPEATABLE READ"
    [] value = "serializable"     -> "SERIALIZABLE"

Shown(words) ==
  CASE words = "READ UNCOMMITTED" -> "READ-UNCOMMITTED"
    [] words = "READ COMMITTED"   -> "READ-COMMITTED"
    [] words = "REPEATABLE READ"  -> "REPEATABLE-READ"
    [] words = "SERIALIZABLE"     -> "SERIALIZABLE"

(* Mutant: two levels are swapped.                                         *)
IsolationOptionSwapped(shown) ==
  CASE shown = "READ-UNCOMMITTED" -> "read_committed"
    [] shown = "READ-COMMITTED"   -> "read_uncommitted"
    [] shown = "REPEATABLE-READ"  -> "repeatable_read"
    [] shown = "SERIALIZABLE"     -> "serializable"

IsolationOption(shown) ==
  CASE shown = "READ-UNCOMMITTED" -> "read_uncommitted"
    [] shown = "READ-COMMITTED"   -> "read_committed"
    [] shown = "REPEATABLE-READ"  -> "repeatable_read"
    [] shown = "SERIALIZABLE"     -> "serializable"

-----------------------------------------------------------------------------
(* The call returns.                                                       *)
Returns(op, status, value) ==
  /\ call' = IdleCall
  /\ answer' = IF op = "GetIsolationLevel" THEN [status |-> status, value |-> value] ELSE NoAnswer

(* The connection is lost.                                                 *)
Severed == linked' = FALSE /\ journal' = Doubted(journal)

(***************************************************************************)
(* Every call starts with ClearPending (sqlwrapper, external): it closes   *)
(* the result an ExecuteQuery left open, which may fail, with or without   *)
(* the loss of the connection.  Then the call sends the commands of todo,  *)
(* or returns status at once.                                              *)
(***************************************************************************)
ClearPending(op, arg, todo, status) ==
  /\ Idle /\ op \in Calls
  /\ wire' = "free"
  /\ \/ /\ todo # <<>>
        /\ call' = [op |-> op, pc |-> "send", arg |-> arg, todo |-> todo]
        /\ UNCHANGED <<linked, journal, answer>>
     \/ /\ todo = <<>>
        /\ Returns(op, status, None)
        /\ UNCHANGED <<linked, journal>>
     \/ /\ wire = "stream"
        /\ Severed \/ UNCHANGED <<linked, journal>>
        /\ Returns(op, "IO", None)
  /\ UNCHANGED <<server, reply, mode, version, asked>>

(* Mutant: the command is sent while a result is pending.                  *)
CommandWithoutClearing(op, arg, name) ==
  /\ Idle /\ op \in Calls
  /\ call' = [op |-> op, pc |-> "send", arg |-> arg, todo |-> <<name>>]
  /\ UNCHANGED <<server, reply, linked, journal, wire, mode, version, asked, answer>>

(* COMMIT and ROLLBACK: driverbase (external) refuses them while its       *)
(* autocommit flag is set.                                                 *)
EndTransaction(op, name) ==
  \/ /\ Idle /\ op \in Calls /\ mode
     /\ Returns(op, "INVALID_STATE", None)
     /\ UNCHANGED <<server, reply, linked, journal, wire, mode, version, asked>>
  \/ ~mode /\ ClearPending(op, "none", <<name>>, "OK")

(* Mutant: Commit without ClearPending.                                    *)
CommitWithoutClearing == ~mode /\ CommandWithoutClearing("Commit", "none", "COMMIT")

Commit == EndTransaction("Commit", "COMMIT")

(* Mutant: Rollback sends the wrong statement.                             *)
RollbackCommits == EndTransaction("Rollback", "COMMIT")

Rollback == EndTransaction("Rollback", "ROLLBACK")

SetAutocommit(on) ==
  ClearPending("SetAutocommit", IF on THEN "1" ELSE "0", <<"SET autocommit">>, "OK")

(* The pending result is closed before the value is looked at.             *)
setIsolationLevel(value) ==
  CASE value \in SupportedLevels ->
         ClearPending("SetIsolationLevel", value, <<"SET ISOLATION">>, "OK")
    [] value \in RefusedLevels ->
         ClearPending("SetIsolationLevel", value, <<>>, "NOT_IMPLEMENTED")
    [] OTHER ->
         ClearPending("SetIsolationLevel", value, <<>>, "INVALID_ARGUMENT")

GetIsolationLevel == ClearPending("GetIsolationLevel", "none", <<"ISOLATION">>, "OK")

GetCurrentCatalog == ClearPending("GetCurrentCatalog", "none", <<"DATABASE">>, "OK")

SetCurrentCatalog(catalog) == ClearPending("SetCurrentCatalog", catalog, <<"USE">>, "OK")

PrepareDriverInfo ==
  ClearPending("PrepareDriverInfo", "none", IF version THEN <<>> ELSE <<"VERSION">>, "OK")

(* Without a catalog, GetCurrentCatalog is called (its ClearPending finds  *)
(* nothing) before the columns and the check constraints are queried.      *)
GetTableSchema(given) ==
  ClearPending("GetTableSchema", "none",
    IF given THEN <<"COLUMNS", "CHECKS">> ELSE <<"DATABASE", "COLUMNS", "CHECKS">>, "OK")

(* Constraints are queried for the depths with tables, if there are any.   *)
GetObjects(withTables) ==
  ClearPending("GetObjects", "none",
    IF withTables THEN <<"OBJECTS", "CONSTRAINTS">> ELSE <<"OBJECTS">>, "OK")

(* A non-empty schema has no statistics.                                   *)
GetStatistics(schema) ==
  ClearPending("GetStatistics", "none",
    IF schema THEN <<>> ELSE <<"TABLES", "INDEXES">>, "OK")

(* sqlwrapper's statements, external: a query leaves its result open.  The *)
(* application writes a row once.                                          *)
ExecuteQuery == ClearPending("ExecuteQuery", "none", <<"SELECT">>, "OK")

ExecuteUpdate(r) ==
  /\ r \notin store.durable \cup store.tentative \cup journal.gone
  /\ ClearPending("ExecuteUpdate", r, <<"WRITE">>, "OK")

-----------------------------------------------------------------------------
(* The network and the server.                                             *)

Send ==
  /\ call.pc = "send" /\ linked
  /\ inflight' = Command
  /\ reply' = NoReply
  /\ call' = [call EXCEPT !.pc = "wait"]
  /\ UNCHANGED <<store, settings, linked, wire, mode, version, journal, asked, answer>>

(* What a QueryRow command returns.                                        *)
Value(c) ==
  CASE c.name = "DATABASE"  -> settings.catalog
    [] c.name = "ISOLATION" -> Shown(settings.isolation)
    [] OTHER                -> None

ServerExecutes ==
  /\ inflight.name # "none"
  /\ store' = Effect(inflight, store)
  /\ settings' = CASE inflight.name = "SET ISOLATION" ->
                        [settings EXCEPT !.isolation = IsolationWords(inflight.arg)]
                   [] inflight.name = "USE" ->
                        [settings EXCEPT !.catalog = inflight.arg]
                   [] OTHER -> settings
  /\ reply' = [status |-> "ok", value |-> Value(inflight)]
  /\ inflight' = NoCommand
  /\ UNCHANGED <<linked, client, journal>>

ServerRefuses ==
  /\ inflight.name # "none"
  /\ \/ store' = store
     \/ MayAbort(inflight) /\ store' = RolledBack(store)
  /\ reply' = [status |-> "error", value |-> None]
  /\ inflight' = NoCommand
  /\ UNCHANGED <<settings, linked, client, journal>>

(* The connection is lost: the network, a cancelled context or the server. *)
LoseConnection ==
  /\ linked
  /\ Severed
  /\ UNCHANGED <<server, reply, client>>

(* The server ends the session of a lost connection.                       *)
ServerEnds ==
  /\ ~linked
  /\ store' = RolledBack(store)
  /\ inflight' = NoCommand
  /\ UNCHANGED <<settings, reply, linked, client, journal>>

-----------------------------------------------------------------------------
(* Back in the driver.                                                     *)

(* The call goes on with its next command, or returns.                     *)
Proceed(value) ==
  IF Tail(call.todo) = <<>>
    THEN Returns(call.op, "OK", value)
    ELSE call' = [call EXCEPT !.pc = "send", !.todo = Tail(call.todo)] /\ UNCHANGED answer

(* ExecContext and QueryRowContext return.                                 *)
Receive ==
  /\ call.pc = "wait" /\ linked /\ reply.status = "ok"
  /\ Command.name \notin RowsNames
  /\ CASE Command.name = "DATABASE" /\ reply.value = None ->   (* Scan of NULL fails *)
            Returns(call.op, "IO", None)
       [] Command.name = "ISOLATION" -> Proceed(IsolationOption(reply.value))
       [] OTHER -> Proceed(reply.value)
  /\ wire' = IF Command.name = "SELECT" THEN "stream" ELSE wire
  /\ mode' = ModeAfter(Asked, mode)
  /\ version' = (version \/ Command.name = "VERSION")
  /\ asked' = IF call.op = "SetIsolationLevel" THEN call.arg ELSE asked
  /\ journal' = Acknowledged(Asked, mode, journal)
  /\ UNCHANGED <<server, reply, linked>>

(* QueryContext returns rows: they occupy the connection until closed.     *)
ReceiveRows ==
  /\ call.pc = "wait" /\ linked /\ reply.status = "ok"
  /\ Command.name \in RowsNames
  /\ wire' = "rows"
  /\ call' = [call EXCEPT !.pc = "read"]
  /\ UNCHANGED <<server, reply, linked, mode, version, journal, asked, answer>>

(* All rows are read and closed.  Without columns the table does not       *)
(* exist, without tables there are no constraints to ask for.              *)
ReadRows ==
  /\ call.pc = "read" /\ linked
  /\ wire' = "free"
  /\ \/ Proceed(None)
     \/ Command.name = "COLUMNS" /\ Returns(call.op, "NOT_FOUND", None)
     \/ Command.name = "OBJECTS" /\ Returns(call.op, "OK", None)
  /\ UNCHANGED <<server, reply, linked, mode, version, journal, asked>>

(* A row cannot be read, or the rows end with an error: they are closed on *)
(* every return.                                                           *)
ReadRowsFails ==
  /\ call.pc = "read"
  /\ wire' = "free"
  /\ Returns(call.op, "IO", None)
  /\ UNCHANGED <<server, reply, linked, mode, version, journal, asked>>

(* A command fails: refused by the server or lost with the connection.     *)
(* GetTableSchema goes on without the check constraints.                   *)
Failure ==
  /\ Returns(call.op, IF Command.name = "CHECKS" THEN "OK" ELSE "IO", None)
  /\ UNCHANGED <<server, reply, linked, wire, mode, version, asked>>

(* Mutant: the error of a command is ignored.                              *)
ReceiveErrorIgnored ==
  /\ call.pc = "wait" /\ linked /\ reply.status = "error"
  /\ Returns(call.op, "OK", None)
  /\ mode' = ModeAfter(Asked, mode)
  /\ journal' = Acknowledged(Asked, mode, journal)
  /\ UNCHANGED <<server, reply, linked, wire, version, asked>>

ReceiveError ==
  /\ call.pc = "wait" /\ linked /\ reply.status = "error"
  /\ Failure
  /\ journal' = IF MayAbort(Asked) THEN Doubted(journal) ELSE journal

(* Mutant: a call that waits does not notice that the connection is lost.  *)
ConnectionLostIgnored ==
  /\ call.pc = "send" /\ ~linked
  /\ Failure
  /\ UNCHANGED journal

ConnectionLost ==
  /\ call.pc \in {"send", "wait"} /\ ~linked
  /\ Failure
  /\ UNCHANGED journal

-----------------------------------------------------------------------------
(* The driver does not ask a new session for its mode: it takes            *)
(* autocommit, the server's default, for granted.                          *)
Init ==
  /\ store = FreshStore(TRUE)
  /\ settings \in [isolation : {GlobalIsolation}, catalog : Catalogs \cup {None}]
  /\ inflight = NoCommand
  /\ reply = NoReply
  /\ linked = TRUE
  /\ wire = "free"
  /\ call = IdleCall
  /\ mode = TRUE
  /\ version = FALSE
  /\ journal = NoJournal
  /\ asked = "default"
  /\ answer = NoAnswer

Application ==
  \/ Commit \/ Rollback \/ GetIsolationLevel \/ GetCurrentCatalog \/ PrepareDriverInfo
  \/ ExecuteQuery
  \/ \E on \in BOOLEAN : SetAutocommit(on) \/ GetTableSchema(on) \/ GetObjects(on)
                           \/ GetStatistics(on)
  \/ \E value \in Levels : setIsolationLevel(value)
  \/ \E catalog \in Catalogs : SetCurrentCatalog(catalog)
  \/ \E r \in Rows : ExecuteUpdate(r)

Driver == Send \/ Receive \/ ReceiveRows \/ ReadRows \/ ReadRowsFails \/ ReceiveError
            \/ ConnectionLost

Next == Application \/ Driver \/ ServerExecutes \/ ServerRefuses \/ LoseConnection \/ ServerEnds

Spec == Init /\ [][Next]_vars

(* The driver goes on with a call in progress, and a server that is        *)
(* reached answers.                                                        *)
FairSpec == Spec /\ WF_vars(Driver) /\ WF_vars(ServerExecutes \/ ServerRefuses)
-----------------------------------------------------------------------------
(* Refinement: the command sent, or the reply received, is the request.    *)
SentRequest ==
  IF inflight.name \in {"WRITE", "SET autocommit", "COMMIT", "ROLLBACK", "SELECT"}
    THEN inflight ELSE [name |-> "OTHER", arg |-> "none"]

RequestPhase ==
  CASE inflight.name # "none" -> IF linked THEN "issued" ELSE "abandoned"
    [] inflight.name = "none" /\ linked /\ call.pc = "wait" ->
         IF reply.status = "ok" THEN "performed" ELSE "refused"
    [] OTHER -> "none"

Request ==
  CASE RequestPhase \in {"issued", "abandoned"}  -> [phase |-> RequestPhase, cmd |-> SentRequest]
    [] RequestPhase \in {"performed", "refused"} -> [phase |-> RequestPhase, cmd |-> Asked]
    [] OTHER -> [phase |-> "none", cmd |-> NoCommand]

Transactions == INSTANCE AdbcTransactions WITH request <- Request

-----------------------------------------------------------------------------
TypeOK ==
  /\ store \in Store /\ journal \in Journal
  /\ linked \in BOOLEAN /\ mode \in BOOLEAN /\ version \in BOOLEAN
  /\ settings.isolation \in {IsolationWords(v) : v \in SupportedLevels}
  /\ settings.catalog \in Catalogs \cup {None}
  /\ reply.status \in {"none", "ok", "error"}
  /\ wire \in {"free", "stream", "rows"}
  /\ call.pc \in {"idle", "send", "wait", "read"}
  /\ asked \in SupportedLevels

(* No command is sent while a result occupies the connection (the protocol *)
(* has no room for it), and no call leaves the rows it queried open.       *)
WireDiscipline ==
  /\ call.pc \in {"send", "wait"} /\ linked => wire = "free"
  /\ Idle => wire # "rows"

(* Between calls the flag that decides whether Commit and Rollback are     *)
(* allowed is the mode the session is in, whatever failed before, unless   *)
(* the connection is lost.                                                 *)
ModesAgree == Idle /\ linked => mode = store.autocommit

(* Rows the application was told are committed are durable; rows it was    *)
(* told are rolled back never become durable.                              *)
Promises == Transactions!Promises

(* The isolation level read is the one set last, or the server's default:  *)
(* the statement sent, the server's spelling and the mapping back agree.   *)
IsolationReported ==
  answer.status = "OK" => IsolationWords(answer.value) = IsolationWords(asked)

(* Every call returns, whatever the server and the network do.             *)
EveryCallReturns == ~Idle ~> Idle

(* The connection keeps what AdbcTransactions promises.                    *)
ImplementsTransactions == Transactions!Spec
=============================================================================
