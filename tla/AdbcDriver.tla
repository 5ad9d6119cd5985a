------------------------------ MODULE AdbcDriver ------------------------------
(***************************************************************************)
(* The C ABI of the driver (pkg/driver.go): the AdbcDatabase,              *)
(* AdbcConnection, AdbcStatement and ArrowArrayStream structs an           *)
(* application owns, the cgo handles their private_data fields hold, the   *)
(* Go objects behind those handles, and the global poison flag.            *)
(*                                                                         *)
(* Several application threads are inside the driver at once.  A call that *)
(* reaches the database is two steps: the entry (the checks, and whatever  *)
(* the function does before it calls into the Go driver) and the return,   *)
(* where the Go driver succeeds, fails or panics.  A call the checks       *)
(* refuse is one step that changes nothing: its effect on the caller's     *)
(* AdbcError is the subject of module AdbcErrors.                          *)
(*                                                                         *)
(* The application keeps to the threading rules of adbc.h: calls on one    *)
(* object are serialized, except that GetOption and Cancel may overlap     *)
(* them, and nothing overlaps the Init or the Release of an object.        *)
(***************************************************************************)
EXTENDS Integers

CONSTANTS
  Threads,      (* application threads                                      *)
  Databases,    (* AdbcDatabase structs                                     *)
  Connections,  (* AdbcConnection structs                                   *)
  Statements,   (* AdbcStatement structs                                    *)
  Streams,      (* ArrowArrayStream structs                                 *)
  Keys,         (* option keys                                              *)
  StringVals,   (* option values set with SetOption                         *)
  TypedVals,    (* option values set with SetOptionInt, -Double or -Bytes   *)
  MaxHandles,   (* bound on the cgo handles a behaviour creates             *)
  Null

Slots   == Databases \cup Connections \cup Statements \cup Streams
Handles == 1 .. MaxHandles
Vals    == StringVals \cup TypedVals

ASSUME ConstantsAssumption ==
  /\ MaxHandles \in Nat
  /\ Null \notin Slots \cup Handles \cup Vals
  /\ StringVals \cap TypedVals = {}
  /\ Databases \cap Connections = {}
  /\ (Databases \cup Connections) \cap (Statements \cup Streams) = {}
  /\ Statements \cap Streams = {}

VARIABLES
  poisoned,     (* globalPoison                                             *)
  privateData,  (* private_data of every struct: a handle or Null           *)
  nextHandle,   (* the global counter of cgo.NewHandle                      *)
  live,         (* handles not deleted yet                                  *)
  initialized,  (* cdb.db, conn.cnxn, st.stmt or cStream.rdr is not nil     *)
  buffered,     (* cdb.opts and conn.initArgs                               *)
  call,         (* what every thread is executing inside the driver         *)
  outstanding,  (* history: Go objects opened through a handle, not closed  *)
  delivered,    (* history: options the Go object accepted                  *)
  asked,        (* history: options a SetOption call returned OK for        *)
  initOK,       (* history: handles whose Init returned OK                  *)
  lateOK        (* history: kinds of call entered after a panic, returned OK *)

objVars  == <<privateData, nextHandle, live, initialized, outstanding>>
optVars  == <<buffered, delivered, asked, initOK>>
vars     == <<poisoned, objVars, optVars, call, lateOK>>

NoOpts == [k \in Keys |-> Null]

IdleCall == [op |-> "idle", slot |-> Null, obj |-> Null, peer |-> Null, late |-> FALSE]

ReleaseOps   == {"DatabaseRelease", "ConnectionRelease", "StatementRelease"}
LifecycleOps == ReleaseOps \cup {"DatabaseInit", "ConnectionInit", "StatementNew"}
SharedOps    == {"DatabaseGetOption", "ConnectionGetOption", "StatementGetOption",
                 "StatementCancel"}
WorkOps      == {"DatabaseSetOption", "ConnectionSetOption", "ConnectionSetTypedOption",
                 "ConnectionOp", "ConnectionMetadata", "StatementOp", "StatementExecuteQuery"}
StreamOps    == {"StreamRead", "StreamGetLastError", "StreamRelease"}
Ops          == LifecycleOps \cup SharedOps \cup WorkOps \cup StreamOps
                  \cup {"DatabaseNew", "ConnectionNew", "ConnectionCancel", "DriverInit"}

Kinds    == {"object", "stream", "driver"}
Kind(op) == CASE op \in StreamOps -> "stream"
              [] op = "DriverInit" -> "driver"
              [] OTHER -> "object"

-----------------------------------------------------------------------------
(***************************************************************************)
(* The application's side of the contract.                                 *)
(***************************************************************************)
Idle(t) == call[t].op = "idle"

Uses(t, s) == call[t].slot = s \/ call[t].peer = s

(* Nobody else is in a call that touches s: New, Init and Release.         *)
Quiescent(s) == \A u \in Threads : ~Uses(u, s)

(* Nobody but GetOption and Cancel overlaps an ordinary call on s.         *)
Serialized(s) == \A u \in Threads : Uses(u, s) => call[u].op \in SharedOps

(* GetOption, Cancel and the opening of a connection overlap ordinary      *)
(* calls on s, not its Init and not its Release.                           *)
Shareable(s) ==
  \A u \in Threads : call[u].slot = s => call[u].op \notin LifecycleOps

-----------------------------------------------------------------------------
(***************************************************************************)
(* The checks every function starts with.                                  *)
(***************************************************************************)
(* Mutants: a check that forgets the poison flag or the nil test.          *)
checkDBAllocPoisoned(d)   == privateData[d] # Null
checkConnAllocPoisoned(c) == privateData[c] # Null
checkDBInitNil(d)         == ~poisoned /\ privateData[d] # Null

checkDBAlloc(d)   == ~poisoned /\ privateData[d] # Null
checkDBInit(d)    == checkDBAlloc(d) /\ initialized[privateData[d]]
checkConnAlloc(c) == ~poisoned /\ privateData[c] # Null
checkConnInit(c)  == checkConnAlloc(c) /\ initialized[privateData[c]]
checkStmtAlloc(s) == ~poisoned /\ privateData[s] # Null
checkStmtInit(s)  == checkStmtAlloc(s) /\ initialized[privateData[s]]

(* A function that returns an error before it has done anything.           *)
Refuse == UNCHANGED vars

(* The entry of a call: obj is the Go object the handle resolves to, which *)
(* the call keeps even if the handle is deleted.                           *)
Enter(t, op, s, p) ==
  call' = [call EXCEPT ![t] = [op |-> op, slot |-> s, obj |-> privateData[s],
                               peer |-> p, late |-> poisoned]]

RecordOK(op, late) == lateOK' = IF late THEN lateOK \cup {Kind(op)} ELSE lateOK

(* The return of a call.                                                   *)
ReturnOK(t) ==
  /\ call' = [call EXCEPT ![t] = IdleCall]
  /\ RecordOK(call[t].op, call[t].late)

ReturnError(t) ==
  /\ call' = [call EXCEPT ![t] = IdleCall]
  /\ UNCHANGED lateOK

(* The deferred recover() of every exported function of an object: it sets *)
(* the poison flag and returns INTERNAL.                                   *)
poison(t) ==
  /\ poisoned' = TRUE
  /\ ReturnError(t)

(* cgo.NewHandle and createHandle for an object whose Go object exists     *)
(* already (open) or is created by a later Init.                           *)
NewObject(s, open) ==
  /\ nextHandle <= MaxHandles
  /\ nextHandle' = nextHandle + 1
  /\ live' = live \cup {nextHandle}
  /\ privateData' = [privateData EXCEPT ![s] = nextHandle]
  /\ initialized' = [initialized EXCEPT ![nextHandle] = open]
  /\ outstanding' = [outstanding EXCEPT ![nextHandle] = IF open THEN 1 ELSE 0]

(* Mutant: the handle is not deleted.                                      *)
DropHandleLeaks(s) ==
  /\ privateData' = [privateData EXCEPT ![s] = Null]
  /\ UNCHANGED live

(* The start of every Release: private_data is cleared and the handle      *)
(* deleted before the Go object is closed.                                 *)
DropHandle(s) ==
  /\ privateData' = [privateData EXCEPT ![s] = Null]
  /\ live' = live \ {privateData[s]}

(* Open returned a Go object, which the Go side of handle h now holds.     *)
Opened(h) ==
  /\ initialized' = [initialized EXCEPT ![h] = TRUE]
  /\ outstanding' = [outstanding EXCEPT ![h] = @ + 1]

(* Close is called on the Go object behind h, if there is one.             *)
Closed(h) ==
  outstanding' = [outstanding EXCEPT ![h] = IF initialized[h] THEN @ - 1 ELSE @]

-----------------------------------------------------------------------------
(***************************************************************************)
(* Databases.                                                              *)
(***************************************************************************)
DatabaseNew(t, d) ==
  /\ Idle(t) /\ Quiescent(d)
  /\ \/ /\ ~poisoned /\ privateData[d] = Null
        /\ NewObject(d, FALSE)
        /\ RecordOK("DatabaseNew", poisoned)
        /\ UNCHANGED <<poisoned, optVars, call>>
     \/ ~(~poisoned /\ privateData[d] = Null) /\ Refuse

(* The four SetOption functions: before Init the value is kept in          *)
(* cdb.opts, replacing one of any type; afterwards the Go database takes it.*)
DatabaseSetOption(t, d) ==
  /\ Idle(t) /\ Serialized(d)
  /\ \/ /\ checkDBAlloc(d) /\ ~initialized[privateData[d]]
        /\ \E k \in Keys, v \in Vals :
             /\ buffered' = [buffered EXCEPT ![privateData[d]][k] = v]
             /\ asked' = [asked EXCEPT ![privateData[d]][k] = v]
        /\ RecordOK("DatabaseSetOption", poisoned)
        /\ UNCHANGED <<poisoned, objVars, delivered, initOK, call>>
     \/ /\ checkDBInit(d)
        /\ Enter(t, "DatabaseSetOption", d, Null)
        /\ UNCHANGED <<poisoned, objVars, optVars, lateOK>>
     \/ ~checkDBAlloc(d) /\ Refuse

DatabaseGetOption(t, d) ==
  /\ Idle(t) /\ Shareable(d)
  /\ \/ /\ checkDBInit(d)
        /\ Enter(t, "DatabaseGetOption", d, Null)
        /\ UNCHANGED <<poisoned, objVars, optVars, lateOK>>
     \/ ~checkDBInit(d) /\ Refuse

(* Mutant: a second Init is not refused.                                   *)
DatabaseInitTwice(t, d) ==
  /\ Idle(t) /\ Quiescent(d)
  /\ \/ /\ checkDBAlloc(d)
        /\ Enter(t, "DatabaseInit", d, Null)
        /\ UNCHANGED <<poisoned, objVars, optVars, lateOK>>
     \/ ~checkDBAlloc(d) /\ Refuse

DatabaseInit(t, d) ==
  /\ Idle(t) /\ Quiescent(d)
  /\ \/ /\ checkDBAlloc(d) /\ ~initialized[privateData[d]]
        /\ Enter(t, "DatabaseInit", d, Null)
        /\ UNCHANGED <<poisoned, objVars, optVars, lateOK>>
     \/ ~(checkDBAlloc(d) /\ ~initialized[privateData[d]]) /\ Refuse

TypedKeys(h) == {k \in Keys : buffered[h][k] \in TypedVals}

(* Mutant: the string options are not passed on.                           *)
DeliverTypedOptsOnly(h, done) ==
  delivered' = [delivered EXCEPT ![h] =
    [k \in Keys |-> IF k \in done THEN buffered[h][k] ELSE Null]]

(* String options go into NewDatabaseWithContext; the loop over the map    *)
(* then sets the typed ones in an arbitrary order, so that any subset of   *)
(* them may have been set when one fails.                                  *)
DeliverDatabaseOpts(h, done) ==
  delivered' = [delivered EXCEPT ![h] =
    [k \in Keys |-> IF buffered[h][k] \in StringVals \/ k \in done
                    THEN buffered[h][k] ELSE Null]]

DatabaseInitReturns(t) ==
  LET h == call[t].obj IN
  /\ call[t].op = "DatabaseInit"
  /\ \/ \* NewDatabaseWithContext fails or panics
        /\ ReturnError(t)
        /\ poisoned' \in {poisoned, TRUE}
        /\ UNCHANGED <<objVars, optVars>>
     \/ \* a typed option is refused, or panics: cdb.db stays set
        \E done \in SUBSET TypedKeys(h) :
          /\ done # TypedKeys(h)
          /\ Opened(h) /\ DeliverDatabaseOpts(h, done)
          /\ ReturnError(t)
          /\ poisoned' \in {poisoned, TRUE}
          /\ UNCHANGED <<privateData, nextHandle, live, buffered, asked, initOK>>
     \/ /\ Opened(h) /\ DeliverDatabaseOpts(h, TypedKeys(h))
        /\ initOK' = initOK \cup {h}
        /\ ReturnOK(t)
        /\ UNCHANGED <<poisoned, privateData, nextHandle, live, buffered, asked>>

DatabaseRelease(t, d) ==
  /\ Idle(t) /\ Quiescent(d)
  /\ \/ /\ checkDBAlloc(d)
        /\ DropHandle(d)
        /\ Enter(t, "DatabaseRelease", d, Null)
        /\ UNCHANGED <<poisoned, nextHandle, initialized, outstanding, optVars, lateOK>>
     \/ ~checkDBAlloc(d) /\ Refuse

(* The error of db.Close is dropped.  A panic leaves the fields of the     *)
(* unreachable cDatabase as they are.                                      *)
DatabaseReleaseReturns(t) ==
  LET h == call[t].obj IN
  /\ call[t].op = "DatabaseRelease"
  /\ Closed(h)
  /\ \/ /\ initialized' = [initialized EXCEPT ![h] = FALSE]
        /\ buffered' = [buffered EXCEPT ![h] = NoOpts]
        /\ ReturnOK(t)
        /\ UNCHANGED poisoned
     \/ /\ initialized[h] /\ poison(t)
        /\ UNCHANGED <<initialized, buffered>>
  /\ UNCHANGED <<privateData, nextHandle, live, delivered, asked, initOK>>

-----------------------------------------------------------------------------
(***************************************************************************)
(* Connections.                                                            *)
(***************************************************************************)
ConnectionNew(t, c) ==
  /\ Idle(t) /\ Quiescent(c)
  /\ \/ /\ ~poisoned /\ privateData[c] = Null
        /\ NewObject(c, FALSE)
        /\ RecordOK("ConnectionNew", poisoned)
        /\ UNCHANGED <<poisoned, optVars, call>>
     \/ ~(~poisoned /\ privateData[c] = Null) /\ Refuse

(* Before Init only string options can be set; they wait in conn.initArgs. *)
ConnectionSetOption(t, c) ==
  /\ Idle(t) /\ Serialized(c)
  /\ \/ /\ checkConnAlloc(c) /\ ~initialized[privateData[c]]
        /\ \E k \in Keys, v \in StringVals :
             /\ buffered' = [buffered EXCEPT ![privateData[c]][k] = v]
             /\ asked' = [asked EXCEPT ![privateData[c]][k] = v]
        /\ RecordOK("ConnectionSetOption", poisoned)
        /\ UNCHANGED <<poisoned, objVars, delivered, initOK, call>>
     \/ /\ checkConnInit(c)
        /\ Enter(t, "ConnectionSetOption", c, Null)
        /\ UNCHANGED <<poisoned, objVars, optVars, lateOK>>
     \/ ~checkConnAlloc(c) /\ Refuse

(* SetOptionBytes, SetOptionDouble and SetOptionInt.                       *)
ConnectionSetTypedOption(t, c) ==
  /\ Idle(t) /\ Serialized(c)
  /\ \/ /\ checkConnInit(c)
        /\ Enter(t, "ConnectionSetTypedOption", c, Null)
        /\ UNCHANGED <<poisoned, objVars, optVars, lateOK>>
     \/ ~checkConnInit(c) /\ Refuse

ConnectionGetOption(t, c) ==
  /\ Idle(t) /\ Shareable(c)
  /\ \/ /\ checkConnInit(c)
        /\ Enter(t, "ConnectionGetOption", c, Null)
        /\ UNCHANGED <<poisoned, objVars, optVars, lateOK>>
     \/ ~checkConnInit(c) /\ Refuse

ConnectionInit(t, c, d) ==
  /\ Idle(t) /\ Quiescent(c) /\ Shareable(d)
  /\ \/ /\ checkConnAlloc(c) /\ ~initialized[privateData[c]] /\ checkDBInit(d)
        /\ Enter(t, "ConnectionInit", c, d)
        /\ UNCHANGED <<poisoned, objVars, optVars, lateOK>>
     \/ /\ ~(checkConnAlloc(c) /\ ~initialized[privateData[c]] /\ checkDBInit(d))
        /\ Refuse

BufferedKeys(h) == {k \in Keys : buffered[h][k] # Null}

(* conn.cnxn is set before the buffered options are applied, in the order  *)
(* of the map: when one of them fails the connection stays initialized and *)
(* initArgs is kept.                                                       *)
ConnectionInitReturns(t) ==
  LET h == call[t].obj IN
  /\ call[t].op = "ConnectionInit"
  /\ \/ \* Open fails or panics
        /\ ReturnError(t)
        /\ poisoned' \in {poisoned, TRUE}
        /\ UNCHANGED <<objVars, optVars>>
     \/ \E done \in SUBSET BufferedKeys(h) :
          /\ done # BufferedKeys(h)
          /\ Opened(h)
          /\ delivered' = [delivered EXCEPT ![h] =
                             [k \in Keys |-> IF k \in done THEN buffered[h][k] ELSE Null]]
          /\ ReturnError(t)
          /\ poisoned' \in {poisoned, TRUE}
          /\ UNCHANGED <<privateData, nextHandle, live, buffered, asked, initOK>>
     \/ /\ Opened(h)
        /\ delivered' = [delivered EXCEPT ![h] = buffered[h]]
        /\ buffered' = [buffered EXCEPT ![h] = NoOpts]
        /\ initOK' = initOK \cup {h}
        /\ ReturnOK(t)
        /\ UNCHANGED <<poisoned, privateData, nextHandle, live, asked>>

ConnectionRelease(t, c) ==
  /\ Idle(t) /\ Quiescent(c)
  /\ \/ /\ checkConnAlloc(c)
        /\ DropHandle(c)
        /\ Enter(t, "ConnectionRelease", c, Null)
        /\ UNCHANGED <<poisoned, nextHandle, initialized, outstanding, optVars, lateOK>>
     \/ ~checkConnAlloc(c) /\ Refuse

(* The deferred function clears conn.cnxn whatever Close does; the error   *)
(* of Close is returned.                                                   *)
ConnectionReleaseReturns(t) ==
  LET h == call[t].obj IN
  /\ call[t].op = "ConnectionRelease"
  /\ Closed(h)
  /\ initialized' = [initialized EXCEPT ![h] = FALSE]
  /\ \/ ReturnOK(t) /\ UNCHANGED poisoned
     \/ initialized[h] /\ ReturnError(t) /\ poisoned' \in {poisoned, TRUE}
  /\ UNCHANGED <<privateData, nextHandle, live, optVars>>

(* CancelContext and an unconditional OK.                                  *)
ConnectionCancel(t, c) ==
  /\ Idle(t) /\ Shareable(c)
  /\ \/ /\ checkConnInit(c)
        /\ RecordOK("ConnectionCancel", poisoned)
        /\ UNCHANGED <<poisoned, objVars, optVars, call>>
     \/ ~checkConnInit(c) /\ Refuse

(* GetInfo, GetObjects, GetStatistics, GetStatisticNames, GetTableTypes    *)
(* and ReadPartition: they export a reader into out.  The trampolines zero *)
(* out first, so the caller passes a stream it has released.               *)
ConnectionMetadata(t, c, out) ==
  /\ Idle(t) /\ Serialized(c) /\ Quiescent(out) /\ privateData[out] = Null
  /\ \/ /\ checkConnInit(c)
        /\ Enter(t, "ConnectionMetadata", c, out)
        /\ UNCHANGED <<poisoned, objVars, optVars, lateOK>>
     \/ ~checkConnInit(c) /\ Refuse

(* GetTableSchema, Commit and Rollback.                                    *)
ConnectionOp(t, c) ==
  /\ Idle(t) /\ Serialized(c)
  /\ \/ /\ checkConnInit(c)
        /\ Enter(t, "ConnectionOp", c, Null)
        /\ UNCHANGED <<poisoned, objVars, optVars, lateOK>>
     \/ ~checkConnInit(c) /\ Refuse

-----------------------------------------------------------------------------
(***************************************************************************)
(* Statements.                                                             *)
(***************************************************************************)
StatementNew(t, st, c) ==
  /\ Idle(t) /\ Quiescent(st) /\ Serialized(c)
  /\ \/ /\ privateData[st] = Null /\ checkConnInit(c)
        /\ Enter(t, "StatementNew", st, c)
        /\ UNCHANGED <<poisoned, objVars, optVars, lateOK>>
     \/ ~(privateData[st] = Null /\ checkConnInit(c)) /\ Refuse

StatementNewReturns(t) ==
  /\ call[t].op = "StatementNew"
  /\ \/ /\ NewObject(call[t].slot, TRUE)
        /\ ReturnOK(t)
        /\ UNCHANGED <<poisoned, optVars>>
     \/ /\ ReturnError(t)
        /\ poisoned' \in {poisoned, TRUE}
        /\ UNCHANGED <<objVars, optVars>>

StatementGetOption(t, st) ==
  /\ Idle(t) /\ Shareable(st)
  /\ \/ /\ checkStmtInit(st)
        /\ Enter(t, "StatementGetOption", st, Null)
        /\ UNCHANGED <<poisoned, objVars, optVars, lateOK>>
     \/ ~checkStmtInit(st) /\ Refuse

(* What happens to the running query is the subject of module Cancellation. *)
StatementCancel(t, st) ==
  /\ Idle(t) /\ Shareable(st)
  /\ \/ /\ checkStmtInit(st)
        /\ Enter(t, "StatementCancel", st, Null)
        /\ UNCHANGED <<poisoned, objVars, optVars, lateOK>>
     \/ ~checkStmtInit(st) /\ Refuse

(* Prepare, ExecuteSchema, SetSqlQuery, SetSubstraitPlan, Bind, BindStream, *)
(* GetParameterSchema, SetOption and ExecutePartitions.                    *)
StatementOp(t, st) ==
  /\ Idle(t) /\ Serialized(st)
  /\ \/ /\ checkStmtInit(st)
        /\ Enter(t, "StatementOp", st, Null)
        /\ UNCHANGED <<poisoned, objVars, optVars, lateOK>>
     \/ ~checkStmtInit(st) /\ Refuse

(* out is Null for an update.                                              *)
StatementExecuteQuery(t, st, out) ==
  /\ Idle(t) /\ Serialized(st)
  /\ out # Null => Quiescent(out) /\ privateData[out] = Null
  /\ \/ /\ checkStmtInit(st)
        /\ Enter(t, "StatementExecuteQuery", st, out)
        /\ UNCHANGED <<poisoned, objVars, optVars, lateOK>>
     \/ ~checkStmtInit(st) /\ Refuse

StatementRelease(t, st) ==
  /\ Idle(t) /\ Quiescent(st)
  /\ \/ /\ checkStmtAlloc(st)
        /\ DropHandle(st)
        /\ Enter(t, "StatementRelease", st, Null)
        /\ UNCHANGED <<poisoned, nextHandle, initialized, outstanding, optVars, lateOK>>
     \/ ~checkStmtAlloc(st) /\ Refuse

StatementReleaseReturns(t) ==
  LET h == call[t].obj IN
  /\ call[t].op = "StatementRelease"
  /\ Closed(h)
  /\ initialized' = [initialized EXCEPT ![h] = FALSE]
  /\ \/ ReturnOK(t) /\ UNCHANGED poisoned
     \/ initialized[h] /\ ReturnError(t) /\ poisoned' \in {poisoned, TRUE}
  /\ UNCHANGED <<privateData, nextHandle, live, optVars>>

-----------------------------------------------------------------------------
(***************************************************************************)
(* The returns shared by the calls above.                                  *)
(***************************************************************************)

(* A call that fails or panics in the Go driver without effect on objects. *)
CallFails(t) ==
  /\ call[t].op \in WorkOps \cup SharedOps
  /\ ReturnError(t)
  /\ poisoned' \in {poisoned, TRUE}
  /\ UNCHANGED <<objVars, optVars>>

CallSucceeds(t) ==
  /\ \/ call[t].op \in SharedOps \cup {"ConnectionOp", "StatementOp"}
     \/ call[t].op = "StatementExecuteQuery" /\ call[t].peer = Null
  /\ ReturnOK(t)
  /\ UNCHANGED <<poisoned, objVars, optVars>>

(* SetOption on an initialized database or connection.                     *)
SetOptionSucceeds(t) ==
  LET h == call[t].obj IN
  /\ \E k \in Keys, v \in Vals :
       /\ \/ call[t].op = "DatabaseSetOption"
          \/ call[t].op = "ConnectionSetOption" /\ v \in StringVals
          \/ call[t].op = "ConnectionSetTypedOption" /\ v \in TypedVals
       /\ delivered' = [delivered EXCEPT ![h][k] = v]
       /\ asked' = [asked EXCEPT ![h][k] = v]
  /\ ReturnOK(t)
  /\ UNCHANGED <<poisoned, objVars, buffered, initOK>>

(* exportRecordReader: the stream holds the reader; the deferred           *)
(* rdr.Release() gives up the reference of the call itself.                *)
exportRecordReader(t) ==
  /\ \/ call[t].op = "ConnectionMetadata"
     \/ call[t].op = "StatementExecuteQuery" /\ call[t].peer # Null
  /\ NewObject(call[t].peer, TRUE)
  /\ ReturnOK(t)
  /\ UNCHANGED <<poisoned, optVars>>

-----------------------------------------------------------------------------
(***************************************************************************)
(* Streams and the driver entry point: neither looks at the poison flag.   *)
(* A stream that was released keeps its release pointer, and every         *)
(* callback then finds private_data nil.                                   *)
(***************************************************************************)

(* GetNext and GetSchema.                                                  *)
StreamRead(t, s) ==
  /\ Idle(t) /\ Quiescent(s)
  /\ \/ /\ privateData[s] # Null
        /\ Enter(t, "StreamRead", s, Null)
        /\ UNCHANGED <<poisoned, objVars, optVars, lateOK>>
     \/ privateData[s] = Null /\ Refuse

StreamReadReturns(t) ==
  /\ call[t].op = "StreamRead"
  /\ ReturnOK(t) \/ ReturnError(t)
  /\ UNCHANGED <<poisoned, objVars, optVars>>

(* GetLastError and AdbcErrorFromArrayStream.                              *)
StreamGetLastError(t, s) ==
  /\ Idle(t) /\ Quiescent(s)
  /\ \/ /\ privateData[s] # Null
        /\ RecordOK("StreamGetLastError", poisoned)
        /\ UNCHANGED <<poisoned, objVars, optVars, call>>
     \/ privateData[s] = Null /\ Refuse

StreamRelease(t, s) ==
  /\ Idle(t) /\ Quiescent(s)
  /\ \/ /\ privateData[s] # Null
        /\ DropHandle(s)
        /\ Closed(privateData[s])
        /\ RecordOK("StreamRelease", poisoned)
        /\ UNCHANGED <<poisoned, nextHandle, initialized, optVars, call>>
     \/ privateData[s] = Null /\ Refuse

(* AdbcDriverMariadbInit fills a function table.                           *)
DriverInit(t) ==
  /\ Idle(t)
  /\ RecordOK("DriverInit", poisoned)
  /\ UNCHANGED <<poisoned, objVars, optVars, call>>

-----------------------------------------------------------------------------
Init ==
  /\ poisoned = FALSE
  /\ privateData = [s \in Slots |-> Null]
  /\ nextHandle = 1
  /\ live = {}
  /\ initialized = [h \in Handles |-> FALSE]
  /\ buffered = [h \in Handles |-> NoOpts]
  /\ call = [t \in Threads |-> IdleCall]
  /\ outstanding = [h \in Handles |-> 0]
  /\ delivered = [h \in Handles |-> NoOpts]
  /\ asked = [h \in Handles |-> NoOpts]
  /\ initOK = {}
  /\ lateOK = {}

DatabaseStep(t) == \E d \in Databases :
  \/ DatabaseNew(t, d)       \/ DatabaseSetOption(t, d) \/ DatabaseGetOption(t, d)
  \/ DatabaseInit(t, d)      \/ DatabaseRelease(t, d)

ConnectionStep(t) == \E c \in Connections :
  \/ ConnectionNew(t, c)     \/ ConnectionSetOption(t, c) \/ ConnectionSetTypedOption(t, c)
  \/ ConnectionGetOption(t, c) \/ ConnectionRelease(t, c) \/ ConnectionCancel(t, c)
  \/ ConnectionOp(t, c)
  \/ \E d \in Databases : ConnectionInit(t, c, d)
  \/ \E out \in Streams : ConnectionMetadata(t, c, out)

StatementStep(t) == \E st \in Statements :
  \/ StatementGetOption(t, st) \/ StatementCancel(t, st) \/ StatementOp(t, st)
  \/ StatementRelease(t, st)
  \/ \E c \in Connections : StatementNew(t, st, c)
  \/ \E out \in Streams \cup {Null} : StatementExecuteQuery(t, st, out)

StreamStep(t) == \E s \in Streams :
  StreamRead(t, s) \/ StreamGetLastError(t, s) \/ StreamRelease(t, s)

Return(t) ==
  \/ DatabaseInitReturns(t)    \/ DatabaseReleaseReturns(t)
  \/ ConnectionInitReturns(t)  \/ ConnectionReleaseReturns(t)
  \/ StatementNewReturns(t)    \/ StatementReleaseReturns(t)
  \/ StreamReadReturns(t)      \/ exportRecordReader(t)
  \/ CallFails(t) \/ CallSucceeds(t) \/ SetOptionSucceeds(t)

Next == \E t \in Threads :
  \/ DatabaseStep(t) \/ ConnectionStep(t) \/ StatementStep(t) \/ StreamStep(t)
  \/ DriverInit(t) \/ Return(t)

Spec == Init /\ [][Next]_vars

-----------------------------------------------------------------------------
(***************************************************************************)
(* Properties.                                                             *)
(***************************************************************************)
Call == [op : Ops \cup {"idle"}, slot : Slots \cup {Null}, obj : Handles \cup {Null},
         peer : Slots \cup {Null}, late : BOOLEAN]

Options == [Handles -> [Keys -> Vals \cup {Null}]]

(* The values the variables range over.                                    *)
TypeOK ==
  /\ poisoned \in BOOLEAN
  /\ privateData \in [Slots -> Handles \cup {Null}]
  /\ nextHandle \in 1 .. MaxHandles + 1
  /\ live \in SUBSET Handles
  /\ initialized \in [Handles -> BOOLEAN]
  /\ buffered \in Options
  /\ call \in [Threads -> Call]
  /\ outstanding \in [Handles -> Int]
  /\ delivered \in Options
  /\ asked \in Options
  /\ initOK \in SUBSET Handles
  /\ lateOK \in SUBSET Kinds

(* The cgo handle table and the private_data fields always agree: every    *)
(* private_data that is not nil is a handle that was not deleted (so       *)
(* getFromHandle never panics on it), no two structs share one, and every  *)
(* handle in the table is held by some struct, so none is lost.  This has  *)
(* to survive failed and panicking Init, New and Release calls of several  *)
(* threads.                                                                *)
HandlesOwned ==
  /\ \A s \in Slots : privateData[s] # Null => privateData[s] \in live
  /\ \A s1, s2 \in Slots :
       privateData[s1] = privateData[s2] /\ privateData[s1] # Null => s1 = s2
  /\ \A h \in live : \E s \in Slots : privateData[s] = h

(* Close is called exactly once on every Go database, connection,          *)
(* statement and reader the driver opened: one is open exactly while its   *)
(* handle exists or the Release that deleted the handle has not returned,  *)
(* even if Init failed after opening it and even if the driver is poisoned.*)
Releasing(h) == \E t \in Threads : call[t].op \in ReleaseOps /\ call[t].obj = h

OpenedObjectsClosed ==
  \A h \in Handles :
    outstanding[h] = IF initialized[h] /\ (h \in live \/ Releasing(h)) THEN 1 ELSE 0

(* No call works on a Go object that another thread has freed or closed:   *)
(* an ordinary call and the parent of an Init or a StatementNew keep an    *)
(* initialized object behind their struct until they return, an Init keeps *)
(* one that nobody else initializes meanwhile, and a Release is alone with *)
(* the object whose handle it deleted.                                     *)
NoUseAfterRelease ==
  \A t \in Threads :
    LET c == call[t] IN
    /\ c.op \in WorkOps \cup SharedOps \cup {"StreamRead"} =>
         privateData[c.slot] = c.obj /\ c.obj # Null /\ initialized[c.obj]
    /\ c.op \in {"DatabaseInit", "ConnectionInit"} =>
         privateData[c.slot] = c.obj /\ c.obj # Null /\ ~initialized[c.obj]
    /\ c.op \in {"ConnectionInit", "StatementNew"} =>
         privateData[c.peer] # Null /\ initialized[privateData[c.peer]]
    /\ c.op \in ReleaseOps =>
         /\ c.obj # Null /\ c.obj \notin live
         /\ \A u \in Threads \ {t} : call[u].obj # c.obj

(* Every option an application set with success, before or after Init, has *)
(* reached the Go object once Init has returned OK, with the value set     *)
(* last, also when Init had failed before and was repeated.                *)
OptionsDelivered ==
  \A h \in initOK : \A k \in Keys : delivered[h][k] = asked[h][k]

(* A call on a database, a connection or a statement that starts after a   *)
(* panic fails: only the stream callbacks and the driver entry point do    *)
(* not look at globalPoison.                                               *)
PoisonStopsObjects == "object" \notin lateOK

(* driver.go:84 says of globalPoison: "afterwards all calls to driver will *)
(* fail since internal state of driver is unknown".  AdbcDriverMariadbInit *)
(* is excepted: it fills a table and uses nothing of that state.           *)
PoisonStopsEveryCall == lateOK \subseteq {"driver"}

(* After a panic no database, connection or statement is allocated or      *)
(* freed any more, except by a StatementNew that was already running.      *)
PoisonFreezes ==
  [][poisoned => \A s \in Slots \ Streams : privateData'[s] # privateData[s] =>
       \E t \in Threads : call[t].op = "StatementNew" /\ call[t].slot = s /\ ~call[t].late]_vars

-----------------------------------------------------------------------------
(***************************************************************************)
(* The life cycle of the Go objects, without handles and flags: object is  *)
(* what became of the one behind a handle, working what the call of a      *)
(* thread holds, the parent of an Init or a New included.                  *)
(***************************************************************************)
ObjectState(h) ==
  CASE outstanding[h] \notin {0, 1} -> "broken"
    [] outstanding[h] = 1 -> "open"
    [] outstanding[h] = 0 /\ h >= nextHandle -> "unused"
    [] outstanding[h] = 0 /\ h < nextHandle /\ (h \in live \/ Releasing(h)) -> "allocated"
    [] OTHER -> "closed"

ParentOf(t) == IF call[t].peer = Null THEN Null ELSE privateData[call[t].peer]

ObjectStates == [h \in Handles |-> ObjectState(h)]
Working      == [t \in Threads |-> {call[t].obj, ParentOf(t)} \ {Null}]

Lifecycle ==
  INSTANCE ObjectLifecycle WITH
    Structs <- Slots, Objects <- Handles, None <- Null,
    owns <- privateData, object <- ObjectStates, working <- Working

(* Every Go object lives as ObjectLifecycle says: it is opened at most     *)
(* once, is open and owned by its struct while calls of other threads work *)
(* on it, and is closed once, by the call that took it from its struct,    *)
(* through failed Inits and panics alike.                                  *)
ImplementsLifecycle == Lifecycle!Spec
=============================================================================
