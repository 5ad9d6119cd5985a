---------------------------- MODULE SessionProofs ----------------------------
(***************************************************************************)
(* Proofs about Session, for any rows, calls and databases: the connection *)
(* implements AdbcTransactions, and through it keeps Promises; the wire    *)
(* carries one thing at a time; the driver's mode is the session's; the    *)
(* isolation level read is the one set.                                    *)
(***************************************************************************)
EXTENDS Session, TLAPS

T == INSTANCE AdbcTransactionsProofs WITH request <- Request

(* Commands of calls that only read; such a call may send several.         *)
Queries == {"DATABASE", "VERSION", "COLUMNS", "CHECKS", "OBJECTS", "CONSTRAINTS",
            "TABLES", "INDEXES"}

(* The commands left to a call, and the argument they share.               *)
Shape(op, arg, todo) ==
  CASE op = "ExecuteUpdate"     -> todo = <<"WRITE">> /\ arg \in Rows
    [] op = "SetAutocommit"     -> todo = <<"SET autocommit">> /\ arg \in {"0", "1"}
    [] op = "Commit"            -> todo = <<"COMMIT">> /\ arg = "none"
    [] op = "Rollback"          -> todo = <<"ROLLBACK">> /\ arg = "none"
    [] op = "ExecuteQuery"      -> todo = <<"SELECT">> /\ arg = "none"
    [] op = "SetIsolationLevel" -> todo = <<"SET ISOLATION">> /\ arg \in SupportedLevels
    [] op = "GetIsolationLevel" -> todo = <<"ISOLATION">>
    [] op = "SetCurrentCatalog" -> todo = <<"USE">> /\ arg \in Catalogs
    [] OTHER                    -> todo \in Seq(Queries) /\ todo # <<>>

CallInv ==
  /\ call = [op |-> call.op, pc |-> call.pc, arg |-> call.arg, todo |-> call.todo]
  /\ ~Idle => Shape(call.op, call.arg, call.todo)
  /\ settings = [isolation |-> settings.isolation, catalog |-> settings.catalog]

(* While the connection works, a command on its way is that of the call    *)
(* that waits for it, and no old reply can be taken for its reply.         *)
SentInv ==
  /\ inflight = [name |-> inflight.name, arg |-> inflight.arg]
  /\ inflight.name = "WRITE" => inflight.arg \in Rows
  /\ inflight.name = "SET ISOLATION" => inflight.arg \in SupportedLevels
  /\ inflight.name = "USE" => inflight.arg \in Catalogs
  /\ inflight.name # "none" => reply.status = "none"
  /\ linked /\ inflight.name # "none" => call.pc = "wait" /\ inflight = Command
  /\ linked /\ inflight.name = "none" /\ call.pc = "wait" => reply.status \in {"ok", "error"}

(* What was checked when the call was made still holds when it sends.      *)
CheckedInv ==
  /\ linked /\ call.pc = "send" /\ call.op \in {"Commit", "Rollback"} => ~mode
  /\ linked /\ call.pc = "send" /\ call.op = "ExecuteUpdate" =>
       call.arg \notin store.durable \cup store.tentative \cup journal.gone
  /\ ~linked => journal.open = {}

(* Rows are read only by calls that neither set nor report the isolation   *)
(* level.                                                                  *)
WireInv ==
  /\ call.pc \in {"send", "wait"} => wire = "free"
  /\ Idle => wire # "rows"
  /\ call.pc = "read" => call.op \notin {"GetIsolationLevel", "SetIsolationLevel"}

(* The session's isolation level is the one set last, up to a change that  *)
(* is executed and not acknowledged.                                       *)
Executed == call.pc = "wait" /\ inflight.name = "none" /\ reply.status = "ok"

IsolationInv ==
  /\ linked => settings.isolation =
       IsolationWords(IF call.op = "SetIsolationLevel" /\ Executed THEN call.arg ELSE asked)
  /\ linked /\ call.op = "GetIsolationLevel" /\ Executed =>
       reply.value = Shown(settings.isolation)
  /\ IsolationReported

IInv == TypeOK /\ CallInv /\ SentInv /\ CheckedInv /\ WireInv /\ IsolationInv

-----------------------------------------------------------------------------
LEMMA One ==
  ASSUME NEW x
  PROVE  /\ Head(<<x>>) = x /\ Tail(<<x>>) = <<>> /\ <<x>> # <<>>
OBVIOUS

LEMMA Many ==
  ASSUME NEW todo \in Seq(Queries), todo # <<>>
  PROVE  Head(todo) \in Queries /\ Tail(todo) \in Seq(Queries)
OBVIOUS

(* The level set comes back.                                               *)
LEMMA IsolationComesBack ==
  ASSUME NEW v \in SupportedLevels
  PROVE  IsolationWords(IsolationOption(Shown(IsolationWords(v)))) = IsolationWords(v)
<1>1. IsolationWords(v) \in {"READ UNCOMMITTED", "READ COMMITTED", "REPEATABLE READ", "SERIALIZABLE"}
  BY GlobalIsolationAssumption DEF IsolationWords, SupportedLevels
<1> DEFINE w == IsolationWords(v)
<1>2. CASE w = "READ UNCOMMITTED"
  BY <1>2 DEF IsolationOption, Shown, IsolationWords
<1>3. CASE w = "READ COMMITTED"
  BY <1>3 DEF IsolationOption, Shown, IsolationWords
<1>4. CASE w = "REPEATABLE READ"
  BY <1>4 DEF IsolationOption, Shown, IsolationWords
<1>5. CASE w = "SERIALIZABLE"
  BY <1>5 DEF IsolationOption, Shown, IsolationWords
<1> QED
  BY <1>1, <1>2, <1>3, <1>4, <1>5

LEMMA InitHolds == Init => IInv
<1> SUFFICES ASSUME Init PROVE IInv
  OBVIOUS
<1>1. /\ store \in Store /\ journal \in Journal /\ linked = TRUE /\ mode = TRUE /\ version = FALSE
      /\ store.autocommit = TRUE
      /\ settings.isolation = GlobalIsolation /\ settings.catalog \in Catalogs \cup {None}
      /\ settings = [isolation |-> settings.isolation, catalog |-> settings.catalog]
      /\ inflight = NoCommand /\ inflight.name = "none" /\ reply.status = "none"
      /\ wire = "free" /\ call = IdleCall /\ call.pc = "idle" /\ call.op = "idle"
      /\ asked = "default" /\ answer.status = "none"
  BY DEF Init, FreshStore, Store, NoJournal, Journal, NoCommand, NoReply, IdleCall, NoAnswer
<1>2. IsolationWords("default") = GlobalIsolation
  BY DEF IsolationWords
<1>3. TypeOK
  BY <1>1, <1>2 DEF TypeOK, SupportedLevels
<1>4. CallInv /\ SentInv /\ CheckedInv /\ WireInv
  BY <1>1 DEF CallInv, SentInv, CheckedInv, WireInv, Idle, IdleCall, NoCommand
<1>5. IsolationInv
  BY <1>1, <1>2 DEF IsolationInv, IsolationReported, Executed
<1> QED
  BY <1>3, <1>4, <1>5 DEF IInv
-----------------------------------------------------------------------------
(* The fields of a journal in doubt.                                       *)
LEMMA DoubtedIs ==
  ASSUME NEW j \in Journal
  PROVE  /\ Doubted(j) \in Journal /\ Doubted(j).open = {}
         /\ Doubted(j).kept = j.kept /\ Doubted(j).gone = j.gone
BY DEF Doubted, Journal

(* A call that returns.                                                    *)
LEMMA ReturnsIs ==
  ASSUME NEW op, NEW status, NEW value, Returns(op, status, value)
  PROVE  /\ call' = IdleCall /\ call'.pc = "idle" /\ call'.op = "idle" /\ Idle'
         /\ call' = [op |-> call'.op, pc |-> call'.pc, arg |-> call'.arg, todo |-> call'.todo]
         /\ answer'.status = "OK" => op = "GetIsolationLevel" /\ status = "OK" /\ answer'.value = value
BY DEF Returns, IdleCall, Idle, NoAnswer

(* A call that returns disturbs nothing but its own variables, as long as  *)
(* what it answers of the isolation level is right.                        *)
LEMMA ReturnPreserves ==
  ASSUME IInv, NEW op, NEW status, NEW value, Returns(op, status, value),
         (op = "GetIsolationLevel" /\ status = "OK") =>
            IsolationWords(value) = IsolationWords(asked'),
         UNCHANGED <<store, settings, inflight, reply>>,
         ~linked \/ inflight.name = "none",
         linked' \in BOOLEAN, linked' => linked,
         mode' \in BOOLEAN, version' \in BOOLEAN, asked' \in SupportedLevels,
         linked' => settings.isolation = IsolationWords(asked'),
         wire' \in {"free", "stream"},
         journal' \in Journal, ~linked' => journal'.open = {}
  PROVE  IInv'
<1>1. /\ call'.pc = "idle" /\ call'.op = "idle" /\ Idle'
      /\ call' = [op |-> call'.op, pc |-> call'.pc, arg |-> call'.arg, todo |-> call'.todo]
      /\ answer'.status = "OK" => op = "GetIsolationLevel" /\ status = "OK" /\ answer'.value = value
  BY ReturnsIs
<1>2. TypeOK'
  BY <1>1 DEF IInv, TypeOK
<1>3. CallInv'
  BY <1>1 DEF IInv, CallInv
<1>4. SentInv'
  BY <1>1 DEF IInv, SentInv
<1>5. CheckedInv' /\ WireInv'
  BY <1>1 DEF CheckedInv, WireInv, Idle
<1>6. IsolationInv'
  BY <1>1 DEF IsolationInv, IsolationReported, Executed
<1> QED
  BY <1>2, <1>3, <1>4, <1>5, <1>6 DEF IInv

LEMMA ClearPendingPreserves ==
  ASSUME IInv, NEW op, NEW arg, NEW todo, NEW status, ClearPending(op, arg, todo, status),
         todo # <<>> => Shape(op, arg, todo),
         op \in {"Commit", "Rollback"} => ~mode,
         op = "ExecuteUpdate" => arg \notin store.durable \cup store.tentative \cup journal.gone,
         op = "GetIsolationLevel" => todo # <<>>
  PROVE  IInv'
<1>1. /\ Idle /\ wire' = "free" /\ UNCHANGED <<store, settings, inflight, reply, mode, version, asked>>
      /\ linked \in BOOLEAN /\ journal \in Journal /\ (~linked => journal.open = {})
      /\ mode \in BOOLEAN /\ version \in BOOLEAN /\ asked \in SupportedLevels
      /\ ~linked \/ inflight.name = "none"
      /\ linked => settings.isolation = IsolationWords(asked)
  BY DEF ClearPending, server, IInv, TypeOK, CheckedInv, SentInv, IsolationInv, Executed, Idle
<1>2. CASE /\ todo # <<>>
           /\ call' = [op |-> op, pc |-> "send", arg |-> arg, todo |-> todo]
           /\ UNCHANGED <<linked, journal, answer>>
  <2>1. /\ call'.op = op /\ call'.pc = "send" /\ call'.arg = arg /\ call'.todo = todo
        /\ call' = [op |-> call'.op, pc |-> call'.pc, arg |-> call'.arg, todo |-> call'.todo]
    BY <1>2
  <2>2. TypeOK' /\ CallInv'
    BY <1>1, <1>2, <2>1 DEF IInv, TypeOK, CallInv
  <2>3. SentInv'
    BY <1>1, <1>2, <2>1 DEF IInv, SentInv
  <2>4. CheckedInv'
    BY <1>1, <1>2, <2>1 DEF CheckedInv
  <2>5. WireInv' /\ IsolationInv'
    BY <1>1, <1>2, <2>1 DEF IInv, WireInv, IsolationInv, IsolationReported, Executed, Idle
  <2> QED
    BY <2>2, <2>3, <2>4, <2>5 DEF IInv
<1>3. CASE todo = <<>> /\ Returns(op, status, None) /\ UNCHANGED <<linked, journal>>
  BY <1>1, <1>3, ReturnPreserves
<1>4. CASE (Severed \/ UNCHANGED <<linked, journal>>) /\ Returns(op, "IO", None)
  <2>1. /\ linked' \in BOOLEAN /\ (linked' => linked) /\ journal' \in Journal
        /\ ~linked' => journal'.open = {}
    <3>1. CASE Severed
      <4>1. linked' = FALSE /\ journal' = Doubted(journal)
        BY <3>1 DEF Severed
      <4>2. journal' \in Journal /\ journal'.open = {}
        BY <1>1, <4>1, DoubtedIs
      <4> QED
        BY <4>1, <4>2
    <3>2. CASE UNCHANGED <<linked, journal>>
      BY <1>1, <3>2
    <3> QED
      BY <1>4, <3>1, <3>2
  <2> QED
    BY <1>1, <1>4, <2>1, ReturnPreserves
<1> QED
  BY <1>2, <1>3, <1>4 DEF ClearPending

LEMMA ApplicationPreserves == IInv /\ Application => IInv'
<1> SUFFICES ASSUME IInv, Application PROVE IInv'
  OBVIOUS
<1>1. ASSUME NEW op \in {"Commit", "Rollback"}, NEW name,
             name = IF op = "Commit" THEN "COMMIT" ELSE "ROLLBACK",
             EndTransaction(op, name)
      PROVE  IInv'
  <2>1. CASE Idle /\ Returns(op, "INVALID_STATE", None)
             /\ UNCHANGED <<server, reply, linked, journal, wire, mode, version, asked>>
    <3>1. /\ ~linked \/ inflight.name = "none"
          /\ linked \in BOOLEAN /\ mode \in BOOLEAN /\ version \in BOOLEAN
          /\ asked \in SupportedLevels /\ journal \in Journal /\ (~linked => journal.open = {})
          /\ wire \in {"free", "stream"} /\ (linked => settings.isolation = IsolationWords(asked))
      BY <2>1 DEF IInv, TypeOK, CheckedInv, SentInv, WireInv, IsolationInv, Executed, Idle
    <3>2. UNCHANGED <<store, settings, inflight, reply, linked, journal, wire, mode, version, asked>>
      BY <2>1 DEF server
    <3> QED
      BY <2>1, <3>1, <3>2, ReturnPreserves
  <2>2. CASE ~mode /\ ClearPending(op, "none", <<name>>, "OK")
    <3>1. Shape(op, "none", <<name>>)
      BY <1>1 DEF Shape
    <3> QED
      BY <1>1, <2>2, <3>1, ClearPendingPreserves
  <2> QED
    BY <1>1, <2>1, <2>2 DEF EndTransaction
<1>2. CASE Commit \/ Rollback
  BY <1>1, <1>2 DEF Commit, Rollback
<1>3. CASE GetIsolationLevel \/ GetCurrentCatalog \/ PrepareDriverInfo \/ ExecuteQuery
  <2>1. /\ Shape("GetIsolationLevel", "none", <<"ISOLATION">>)
        /\ Shape("ExecuteQuery", "none", <<"SELECT">>)
        /\ Shape("GetCurrentCatalog", "none", <<"DATABASE">>)
        /\ Shape("PrepareDriverInfo", "none", <<"VERSION">>)
    BY DEF Shape, Queries
  <2>2. CASE GetIsolationLevel
    BY <2>1, <2>2, ClearPendingPreserves DEF GetIsolationLevel
  <2>3. CASE GetCurrentCatalog
    BY <2>1, <2>3, ClearPendingPreserves DEF GetCurrentCatalog
  <2>4. CASE PrepareDriverInfo
    <3>1. CASE version
      BY <2>4, <3>1, ClearPendingPreserves DEF PrepareDriverInfo
    <3>2. CASE ~version
      BY <2>1, <2>4, <3>2, ClearPendingPreserves DEF PrepareDriverInfo
    <3> QED
      BY <3>1, <3>2
  <2>5. CASE ExecuteQuery
    BY <2>1, <2>5, ClearPendingPreserves DEF ExecuteQuery
  <2> QED
    BY <1>3, <2>2, <2>3, <2>4, <2>5
<1>4. ASSUME NEW on \in BOOLEAN,
             SetAutocommit(on) \/ GetTableSchema(on) \/ GetObjects(on) \/ GetStatistics(on)
      PROVE  IInv'
  <2>1. CASE SetAutocommit(on)
    <3>1. Shape("SetAutocommit", IF on THEN "1" ELSE "0", <<"SET autocommit">>)
      BY DEF Shape
    <3> QED
      BY <2>1, <3>1, ClearPendingPreserves DEF SetAutocommit
  <2>2. CASE GetTableSchema(on)
    <3>1. /\ Shape("GetTableSchema", "none", <<"COLUMNS", "CHECKS">>)
          /\ Shape("GetTableSchema", "none", <<"DATABASE", "COLUMNS", "CHECKS">>)
      BY DEF Shape, Queries
    <3>2. \/ ClearPending("GetTableSchema", "none", <<"COLUMNS", "CHECKS">>, "OK")
          \/ ClearPending("GetTableSchema", "none", <<"DATABASE", "COLUMNS", "CHECKS">>, "OK")
      BY <2>2 DEF GetTableSchema
    <3> QED
      BY <3>1, <3>2, ClearPendingPreserves
  <2>3. CASE GetObjects(on)
    <3>1. /\ Shape("GetObjects", "none", <<"OBJECTS", "CONSTRAINTS">>)
          /\ Shape("GetObjects", "none", <<"OBJECTS">>)
      BY DEF Shape, Queries
    <3>2. \/ ClearPending("GetObjects", "none", <<"OBJECTS", "CONSTRAINTS">>, "OK")
          \/ ClearPending("GetObjects", "none", <<"OBJECTS">>, "OK")
      BY <2>3 DEF GetObjects
    <3> QED
      BY <3>1, <3>2, ClearPendingPreserves
  <2>4. CASE GetStatistics(on)
    <3>1. Shape("GetStatistics", "none", <<"TABLES", "INDEXES">>)
      BY DEF Shape, Queries
    <3>2. CASE on
      BY <2>4, <3>2, ClearPendingPreserves DEF GetStatistics
    <3>3. CASE ~on
      BY <2>4, <3>1, <3>3, ClearPendingPreserves DEF GetStatistics
    <3> QED
      BY <3>2, <3>3
  <2> QED
    BY <1>4, <2>1, <2>2, <2>3, <2>4
<1>5. ASSUME NEW value, setIsolationLevel(value)
      PROVE  IInv'
  <2>1. CASE value \in SupportedLevels
    <3>1. Shape("SetIsolationLevel", value, <<"SET ISOLATION">>)
      BY <2>1 DEF Shape
    <3>2. ClearPending("SetIsolationLevel", value, <<"SET ISOLATION">>, "OK")
      BY <1>5, <2>1 DEF setIsolationLevel, SupportedLevels, RefusedLevels
    <3> QED
      BY <3>1, <3>2, ClearPendingPreserves
  <2>2. CASE value \notin SupportedLevels
    <3>1. \/ ClearPending("SetIsolationLevel", value, <<>>, "NOT_IMPLEMENTED")
          \/ ClearPending("SetIsolationLevel", value, <<>>, "INVALID_ARGUMENT")
      BY <1>5, <2>2 DEF setIsolationLevel
    <3> QED
      BY <3>1, ClearPendingPreserves
  <2> QED
    BY <2>1, <2>2
<1>6. ASSUME NEW catalog \in Catalogs, SetCurrentCatalog(catalog)
      PROVE  IInv'
  <2>1. Shape("SetCurrentCatalog", catalog, <<"USE">>)
    BY DEF Shape
  <2> QED
    BY <1>6, <2>1, ClearPendingPreserves DEF SetCurrentCatalog
<1>7. ASSUME NEW r \in Rows, ExecuteUpdate(r)
      PROVE  IInv'
  <2>1. Shape("ExecuteUpdate", r, <<"WRITE">>)
    BY DEF Shape
  <2> QED
    BY <1>7, <2>1, ClearPendingPreserves DEF ExecuteUpdate
<1> QED
  BY <1>2, <1>3, <1>4, <1>5, <1>6, <1>7 DEF Application
-----------------------------------------------------------------------------
(* Calls that send one command.                                            *)
Single == {"ExecuteUpdate", "SetAutocommit", "Commit", "Rollback", "ExecuteQuery",
           "SetIsolationLevel", "GetIsolationLevel", "SetCurrentCatalog"}

LEMMA ShapeIs ==
  ASSUME NEW op, NEW arg, NEW todo, Shape(op, arg, todo)
  PROVE  /\ Head(todo) # "none"
         /\ Head(todo) = "WRITE" => arg \in Rows
         /\ Head(todo) = "SET ISOLATION" => arg \in SupportedLevels /\ op = "SetIsolationLevel"
         /\ Head(todo) = "USE" => arg \in Catalogs
         /\ Head(todo) = "SELECT" => op = "ExecuteQuery"
         /\ Head(todo) \in RowsNames \cup {"DATABASE"} => op \notin Single
         /\ Head(todo) = "ISOLATION" => op = "GetIsolationLevel"
         /\ op = "GetIsolationLevel" => Head(todo) = "ISOLATION"
         /\ op = "SetIsolationLevel" => Head(todo) = "SET ISOLATION" /\ arg \in SupportedLevels
         /\ op \in Single => Tail(todo) = <<>>
         /\ Tail(todo) # <<>> => op \notin Single /\ Shape(op, arg, Tail(todo))
<1>1. CASE op \in Single
  <2>1. PICK name : todo = <<name>>
    BY <1>1 DEF Shape, Single
  <2>2. Head(todo) = name /\ Tail(todo) = <<>>
    BY <2>1, One
  <2>3. CASE op \in {"ExecuteUpdate", "SetAutocommit", "Commit", "Rollback"}
    <3>1. /\ name \in {"WRITE", "SET autocommit", "COMMIT", "ROLLBACK"}
          /\ name = "WRITE" => arg \in Rows
      BY <2>1, <2>3 DEF Shape
    <3> QED
      BY <1>1, <2>2, <2>3, <3>1 DEF RowsNames
  <2>4. CASE op = "ExecuteQuery"
    <3>1. name = "SELECT"
      BY <2>1, <2>4 DEF Shape
    <3> QED
      BY <1>1, <2>2, <2>4, <3>1 DEF RowsNames
  <2>5. CASE op = "SetIsolationLevel"
    <3>1. name = "SET ISOLATION" /\ arg \in SupportedLevels
      BY <2>1, <2>5 DEF Shape
    <3> QED
      BY <1>1, <2>2, <2>5, <3>1 DEF RowsNames
  <2>6. CASE op = "GetIsolationLevel"
    <3>1. name = "ISOLATION"
      BY <2>1, <2>6 DEF Shape
    <3> QED
      BY <1>1, <2>2, <2>6, <3>1 DEF RowsNames
  <2>7. CASE op = "SetCurrentCatalog"
    <3>1. name = "USE" /\ arg \in Catalogs
      BY <2>1, <2>7 DEF Shape
    <3> QED
      BY <1>1, <2>2, <2>7, <3>1 DEF RowsNames
  <2> QED
    BY <1>1, <2>3, <2>4, <2>5, <2>6, <2>7 DEF Single
<1>2. CASE op \notin Single
  <2>1. todo \in Seq(Queries) /\ todo # <<>>
    BY <1>2 DEF Shape, Single
  <2>2. Head(todo) \in Queries /\ Tail(todo) \in Seq(Queries)
    BY <2>1, Many
  <2>3. Tail(todo) # <<>> => Shape(op, arg, Tail(todo))
    BY <1>2, <2>2 DEF Shape, Single
  <2> QED
    BY <1>2, <2>2, <2>3 DEF Queries, Single
<1> QED
  BY <1>1, <1>2

LEMMA SendPreserves == IInv /\ Send => IInv'
<1> SUFFICES ASSUME IInv, Send PROVE IInv'
  OBVIOUS
<1>1. /\ call.pc = "send" /\ linked /\ Shape(call.op, call.arg, call.todo)
      /\ inflight' = [name |-> Head(call.todo), arg |-> call.arg] /\ reply' = NoReply
      /\ call' = [call EXCEPT !.pc = "wait"]
      /\ call = [op |-> call.op, pc |-> call.pc, arg |-> call.arg, todo |-> call.todo]
      /\ UNCHANGED <<store, settings, linked, wire, mode, version, journal, asked, answer>>
  BY DEF Send, Command, IInv, CallInv, Idle
<1>2. /\ call'.op = call.op /\ call'.pc = "wait" /\ call'.arg = call.arg /\ call'.todo = call.todo
      /\ call' = [op |-> call'.op, pc |-> call'.pc, arg |-> call'.arg, todo |-> call'.todo]
      /\ inflight'.name = Head(call.todo) /\ inflight'.arg = call.arg
      /\ inflight' = [name |-> inflight'.name, arg |-> inflight'.arg]
      /\ inflight'.name # "none" /\ reply'.status = "none"
  BY <1>1, ShapeIs DEF NoReply
<1>3. TypeOK' /\ CallInv'
  BY <1>1, <1>2 DEF IInv, TypeOK, CallInv
<1>4. SentInv'
  BY <1>1, <1>2, ShapeIs DEF IInv, SentInv, Command
<1>5. CheckedInv' /\ WireInv'
  BY <1>1, <1>2 DEF IInv, CheckedInv, WireInv, Idle
<1>6. IsolationInv'
  BY <1>1, <1>2 DEF IInv, IsolationInv, IsolationReported, Executed
<1> QED
  BY <1>3, <1>4, <1>5, <1>6 DEF IInv

LEMMA StoreAfter ==
  ASSUME NEW s \in Store, NEW c, c.name = "WRITE" => c.arg \in Rows
  PROVE  Effect(c, s) \in Store
<1>0. /\ s.durable \subseteq Rows /\ s.tentative \subseteq Rows /\ s.autocommit \in BOOLEAN
      /\ Committed(s) \in Store
  BY DEF Store, Committed
<1>1. CASE c.name = "WRITE"
  BY <1>0, <1>1 DEF Effect, Written, Store
<1>2. CASE c.name = "COMMIT"
  BY <1>0, <1>2 DEF Effect
<1>3. CASE c.name = "ROLLBACK"
  BY <1>0, <1>3 DEF Effect, RolledBack, Store
<1>4. CASE c.name = "SET autocommit"
  <2>1. \A on \in BOOLEAN : WithAutocommit(s, on) \in Store
    BY <1>0 DEF WithAutocommit, Store
  <2>2. Effect(c, s) = WithAutocommit(s, c.arg = "1")
    BY <1>4 DEF Effect
  <2>3. CASE c.arg = "1"
    <3>1. Effect(c, s) = WithAutocommit(s, TRUE)
      BY <2>2, <2>3
    <3> QED
      BY <2>1, <3>1
  <2>4. CASE c.arg # "1"
    <3>1. Effect(c, s) = WithAutocommit(s, FALSE)
      BY <2>2, <2>4
    <3> QED
      BY <2>1, <3>1
  <2> QED
    BY <2>3, <2>4
<1>5. CASE c.name \notin {"WRITE", "COMMIT", "ROLLBACK", "SET autocommit"}
  BY <1>5 DEF Effect
<1> QED
  BY <1>1, <1>2, <1>3, <1>4, <1>5

LEMMA RolledBackIs ==
  ASSUME NEW s \in Store
  PROVE  RolledBack(s) \in Store
BY DEF RolledBack, Store

LEMMA ServerExecutesPreserves == IInv /\ ServerExecutes => IInv'
<1> SUFFICES ASSUME IInv, ServerExecutes PROVE IInv'
  OBVIOUS
<1>1. /\ inflight.name # "none" /\ store' = Effect(inflight, store)
      /\ inflight' = NoCommand /\ reply' = [status |-> "ok", value |-> Value(inflight)]
      /\ UNCHANGED <<linked, wire, call, mode, version, asked, answer, journal>>
      /\ linked => /\ call.pc = "wait" /\ Shape(call.op, call.arg, call.todo)
                   /\ inflight = [name |-> Head(call.todo), arg |-> call.arg]
  BY DEF ServerExecutes, client, IInv, SentInv, CallInv, Idle, Command
<1>2. /\ inflight'.name = "none" /\ inflight' = [name |-> inflight'.name, arg |-> inflight'.arg]
      /\ reply'.status = "ok" /\ reply'.value = Value(inflight)
  BY <1>1 DEF NoCommand
<1>3. /\ settings'.isolation = IF inflight.name = "SET ISOLATION" THEN IsolationWords(inflight.arg)
                                                                  ELSE settings.isolation
      /\ settings'.catalog = IF inflight.name = "USE" THEN inflight.arg ELSE settings.catalog
      /\ settings' = [isolation |-> settings'.isolation, catalog |-> settings'.catalog]
  <2>1. settings = [isolation |-> settings.isolation, catalog |-> settings.catalog]
    BY DEF IInv, CallInv
  <2>2. CASE inflight.name = "SET ISOLATION"
    <3>1. settings' = [settings EXCEPT !.isolation = IsolationWords(inflight.arg)]
      BY <2>2 DEF ServerExecutes
    <3> QED
      BY <2>1, <2>2, <3>1
  <2>3. CASE inflight.name = "USE"
    <3>1. settings' = [settings EXCEPT !.catalog = inflight.arg]
      BY <2>3 DEF ServerExecutes
    <3> QED
      BY <2>1, <2>3, <3>1
  <2>4. CASE inflight.name \notin {"SET ISOLATION", "USE"}
    <3>1. settings' = settings
      BY <2>4 DEF ServerExecutes
    <3> QED
      BY <2>1, <2>4, <3>1
  <2> QED
    BY <2>2, <2>3, <2>4
<1>4. TypeOK'
  <2>1. store' \in Store
    BY <1>1, StoreAfter DEF IInv, TypeOK, SentInv
  <2>2. /\ settings'.isolation \in {IsolationWords(v) : v \in SupportedLevels}
        /\ settings'.catalog \in Catalogs \cup {None}
    BY <1>3 DEF IInv, TypeOK, SentInv
  <2> QED
    BY <1>1, <1>2, <2>1, <2>2 DEF IInv, TypeOK
<1>5. CallInv' /\ SentInv' /\ CheckedInv' /\ WireInv'
  BY <1>1, <1>2, <1>3 DEF IInv, CallInv, SentInv, CheckedInv, WireInv, Idle
<1>6. IsolationInv'
  <2>1. IsolationReported'
    BY <1>1 DEF IInv, IsolationInv, IsolationReported
  <2>2. CASE ~linked
    BY <1>1, <2>1, <2>2 DEF IsolationInv
  <2>3. CASE linked
    <3>1. /\ Executed' /\ settings.isolation = IsolationWords(asked)
          /\ inflight.name = Head(call.todo) /\ inflight.arg = call.arg
      BY <1>1, <1>2, <2>3 DEF IInv, IsolationInv, Executed
    <3>2. CASE call.op = "SetIsolationLevel"
      <4>1. settings'.isolation = IsolationWords(call.arg)
        BY <1>1, <1>3, <2>3, <3>1, <3>2, ShapeIs
      <4> QED
        BY <1>1, <2>1, <3>1, <3>2, <4>1 DEF IsolationInv
    <3>3. CASE call.op = "GetIsolationLevel"
      <4>1. inflight.name = "ISOLATION"
        BY <1>1, <2>3, <3>1, <3>3, ShapeIs
      <4>2. settings'.isolation = settings.isolation /\ reply'.value = Shown(settings.isolation)
        BY <1>2, <1>3, <4>1 DEF Value
      <4> QED
        BY <1>1, <2>1, <3>1, <3>3, <4>2 DEF IsolationInv
    <3>4. CASE call.op \notin {"SetIsolationLevel", "GetIsolationLevel"}
      <4>1. inflight.name # "SET ISOLATION"
        BY <1>1, <2>3, <3>1, <3>4, ShapeIs
      <4>2. settings'.isolation = settings.isolation
        BY <1>3, <4>1
      <4> QED
        BY <1>1, <2>1, <3>1, <3>4, <4>2 DEF IsolationInv
    <3> QED
      BY <3>2, <3>3, <3>4
  <2> QED
    BY <2>2, <2>3 DEF IInv, TypeOK
<1> QED
  BY <1>4, <1>5, <1>6 DEF IInv

LEMMA ServerRefusesPreserves == IInv /\ ServerRefuses => IInv'
<1> SUFFICES ASSUME IInv, ServerRefuses PROVE IInv'
  OBVIOUS
<1>1. /\ inflight.name # "none" /\ (store' = store \/ store' = RolledBack(store))
      /\ inflight' = NoCommand /\ reply' = [status |-> "error", value |-> None]
      /\ UNCHANGED <<settings, linked, wire, call, mode, version, asked, answer, journal>>
      /\ linked => call.pc = "wait"
  BY DEF ServerRefuses, client, IInv, SentInv
<1>2. /\ inflight'.name = "none" /\ inflight' = [name |-> inflight'.name, arg |-> inflight'.arg]
      /\ reply'.status = "error" /\ store' \in Store
  BY <1>1, RolledBackIs DEF NoCommand, IInv, TypeOK
<1>3. TypeOK' /\ CallInv'
  BY <1>1, <1>2 DEF IInv, TypeOK, CallInv, Idle
<1>4. SentInv' /\ CheckedInv' /\ WireInv'
  BY <1>1, <1>2 DEF IInv, SentInv, CheckedInv, WireInv, Idle
<1>5. IsolationInv'
  BY <1>1, <1>2 DEF IInv, IsolationInv, IsolationReported, Executed
<1> QED
  BY <1>3, <1>4, <1>5 DEF IInv

LEMMA LoseConnectionPreserves == IInv /\ LoseConnection => IInv'
<1> SUFFICES ASSUME IInv, LoseConnection PROVE IInv'
  OBVIOUS
<1>1. /\ linked' = FALSE /\ journal' = Doubted(journal)
      /\ UNCHANGED <<store, settings, inflight, reply, wire, call, mode, version, asked, answer>>
  BY DEF LoseConnection, Severed, server, client
<1>2. journal' \in Journal /\ journal'.open = {}
  BY <1>1, DoubtedIs DEF IInv, TypeOK
<1>3. TypeOK' /\ CallInv' /\ SentInv' /\ CheckedInv' /\ WireInv'
  BY <1>1, <1>2 DEF IInv, TypeOK, CallInv, SentInv, CheckedInv, WireInv, Idle
<1>4. IsolationInv'
  BY <1>1 DEF IInv, IsolationInv, IsolationReported
<1> QED
  BY <1>3, <1>4 DEF IInv

LEMMA ServerEndsPreserves == IInv /\ ServerEnds => IInv'
<1> SUFFICES ASSUME IInv, ServerEnds PROVE IInv'
  OBVIOUS
<1>1. /\ ~linked /\ store' = RolledBack(store) /\ inflight' = NoCommand
      /\ UNCHANGED <<settings, reply, linked, wire, call, mode, version, asked, answer, journal>>
  BY DEF ServerEnds, client
<1>2. /\ inflight'.name = "none" /\ inflight' = [name |-> inflight'.name, arg |-> inflight'.arg]
      /\ store' \in Store
  BY <1>1, RolledBackIs DEF NoCommand, IInv, TypeOK
<1>3. TypeOK' /\ CallInv' /\ SentInv' /\ CheckedInv' /\ WireInv'
  BY <1>1, <1>2 DEF IInv, TypeOK, CallInv, SentInv, CheckedInv, WireInv, Idle
<1>4. IsolationInv'
  BY <1>1 DEF IInv, IsolationInv, IsolationReported
<1> QED
  BY <1>3, <1>4 DEF IInv
-----------------------------------------------------------------------------
(* What a call asks for is the command it sends.                           *)
Named == {"WRITE", "SET autocommit", "COMMIT", "ROLLBACK", "SELECT"}

LEMMA AskedIs ==
  ASSUME Shape(call.op, call.arg, call.todo)
  PROVE  /\ Head(call.todo) \in Named => Asked = [name |-> Head(call.todo), arg |-> call.arg]
         /\ Head(call.todo) \notin Named => Asked = [name |-> "OTHER", arg |-> "none"]
         /\ call.op \notin Single => Asked = [name |-> "OTHER", arg |-> "none"]
         /\ Asked.name = "WRITE" => Asked.arg \in Rows
         /\ Asked.name = "SET autocommit" => Asked.arg \in {"0", "1"}
         /\ Asked.name = "WRITE" => call.op = "ExecuteUpdate"
         /\ Asked.name \in {"COMMIT", "ROLLBACK"} => call.op \in {"Commit", "Rollback"}
         /\ Asked.name \notin {"WRITE", "SET autocommit"} => Asked.arg = "none"
         /\ Asked.name \in Named \cup {"OTHER"}
         /\ Asked = [name |-> Asked.name, arg |-> Asked.arg]
<1>1. CASE call.op = "ExecuteUpdate"
  BY <1>1, One DEF Shape, Asked, Named, Single
<1>2. CASE call.op = "SetAutocommit"
  BY <1>2, One DEF Shape, Asked, Named, Single
<1>3. CASE call.op = "Commit"
  BY <1>3, One DEF Shape, Asked, Named, Single
<1>4. CASE call.op = "Rollback"
  BY <1>4, One DEF Shape, Asked, Named, Single
<1>5. CASE call.op = "ExecuteQuery"
  BY <1>5, One DEF Shape, Asked, Named, Single
<1>6. CASE call.op \notin {"ExecuteUpdate", "SetAutocommit", "Commit", "Rollback", "ExecuteQuery"}
  <2>1. Asked = [name |-> "OTHER", arg |-> "none"]
    BY <1>6 DEF Asked
  <2>2. Head(call.todo) \notin Named
    <3>1. CASE call.op \in Single
      BY <1>6, <3>1, One DEF Shape, Named, Single
    <3>2. CASE call.op \notin Single
      <4>1. Head(call.todo) \in Queries
        BY <3>2, Many DEF Shape, Single
      <4> QED
        BY <4>1 DEF Queries, Named
    <3> QED
      BY <3>1, <3>2
  <2> QED
    BY <2>1, <2>2 DEF Named
<1> QED
  BY <1>1, <1>2, <1>3, <1>4, <1>5, <1>6

LEMMA AcknowledgedIs ==
  ASSUME NEW c, NEW m \in BOOLEAN, NEW j \in Journal, c.name = "WRITE" => c.arg \in Rows
  PROVE  Acknowledged(c, m, j) \in Journal
<1>0. j.open \subseteq Rows /\ j.kept \subseteq Rows /\ j.gone \subseteq Rows
  BY DEF Journal
<1>1. CASE c.name = "WRITE" /\ m
  BY <1>0, <1>1 DEF Acknowledged, Journal
<1>2. CASE c.name = "WRITE" /\ ~m
  BY <1>0, <1>2 DEF Acknowledged, Journal
<1>3. CASE c.name \in {"COMMIT", "ROLLBACK", "SET autocommit"}
  BY <1>0, <1>3 DEF Acknowledged, Journal
<1>4. CASE c.name \notin {"WRITE", "COMMIT", "ROLLBACK", "SET autocommit"}
  BY <1>4 DEF Acknowledged
<1> QED
  BY <1>1, <1>2, <1>3, <1>4

(* A call that goes on with its next query.                                *)
LEMMA ContinuePreserves ==
  ASSUME IInv, ~Idle, Tail(call.todo) # <<>>,
         call' = [call EXCEPT !.pc = "send", !.todo = Tail(call.todo)],
         UNCHANGED <<store, settings, inflight, reply, linked, mode, journal, asked, answer>>,
         version' \in BOOLEAN, wire' = "free", inflight.name = "none"
  PROVE  IInv'
<1>1. /\ call.op \notin Single /\ Shape(call.op, call.arg, Tail(call.todo))
      /\ call = [op |-> call.op, pc |-> call.pc, arg |-> call.arg, todo |-> call.todo]
  BY ShapeIs DEF IInv, CallInv
<1>2. /\ call'.op = call.op /\ call'.pc = "send" /\ call'.arg = call.arg
      /\ call'.todo = Tail(call.todo)
      /\ call' = [op |-> call'.op, pc |-> call'.pc, arg |-> call'.arg, todo |-> call'.todo]
  BY <1>1
<1>3. TypeOK' /\ CallInv'
  BY <1>1, <1>2 DEF IInv, TypeOK, CallInv
<1>4. SentInv'
  BY <1>1, <1>2 DEF IInv, SentInv
<1>5. CheckedInv' /\ WireInv'
  BY <1>1, <1>2 DEF IInv, CheckedInv, WireInv, Single, Idle
<1>6. IsolationInv'
  BY <1>1, <1>2 DEF IInv, IsolationInv, IsolationReported, Executed, Single
<1> QED
  BY <1>3, <1>4, <1>5, <1>6 DEF IInv

LEMMA ReceivePreserves == IInv /\ Receive => IInv'
<1> SUFFICES ASSUME IInv, Receive PROVE IInv'
  OBVIOUS
<1> DEFINE h == Head(call.todo)
<1>1. /\ call.pc = "wait" /\ linked /\ reply.status = "ok" /\ inflight.name = "none" /\ ~Idle
      /\ Shape(call.op, call.arg, call.todo) /\ wire = "free"
      /\ mode \in BOOLEAN /\ version \in BOOLEAN /\ journal \in Journal
  BY DEF Receive, IInv, SentInv, CallInv, WireInv, TypeOK, Idle
<1>2. /\ Command.name = h /\ wire' = (IF h = "SELECT" THEN "stream" ELSE wire)
      /\ mode' = ModeAfter(Asked, mode)
      /\ version' = (version \/ h = "VERSION")
      /\ asked' = (IF call.op = "SetIsolationLevel" THEN call.arg ELSE asked)
      /\ journal' = Acknowledged(Asked, mode, journal)
      /\ UNCHANGED <<store, settings, inflight, reply, linked>>
  BY DEF Receive, Command, server
<1>3. /\ mode' \in BOOLEAN /\ version' \in BOOLEAN /\ journal' \in Journal
      /\ asked' \in SupportedLevels /\ wire' \in {"free", "stream"}
  <2>1. mode' \in BOOLEAN /\ version' \in BOOLEAN
    BY <1>1, <1>2 DEF ModeAfter
  <2>2. journal' \in Journal
    BY <1>1, <1>2, AskedIs, AcknowledgedIs
  <2>3. asked' \in SupportedLevels /\ wire' \in {"free", "stream"}
    BY <1>1, <1>2, ShapeIs DEF IInv, TypeOK
  <2> QED
    BY <2>1, <2>2, <2>3
<1>4. settings.isolation = IsolationWords(asked')
  BY <1>1, <1>2 DEF IInv, IsolationInv, Executed
<1>5. ASSUME NEW value, Returns(call.op, "OK", value),
             call.op = "GetIsolationLevel" => value = IsolationOption(reply.value)
      PROVE  IInv'
  <2>1. call.op = "GetIsolationLevel" => IsolationWords(value) = IsolationWords(asked')
    <3>1. SUFFICES ASSUME call.op = "GetIsolationLevel"
                   PROVE  IsolationWords(value) = IsolationWords(asked')
      OBVIOUS
    <3>2. reply.value = Shown(IsolationWords(asked')) /\ value = IsolationOption(reply.value)
      BY <1>1, <1>2, <1>4, <1>5, <3>1 DEF IInv, IsolationInv, Executed
    <3> QED
      BY <1>3, <3>2, IsolationComesBack
  <2> QED
    BY <1>1, <1>2, <1>3, <1>4, <1>5, <2>1, ReturnPreserves
<1>6. ASSUME NEW value, Proceed(value),
             call.op = "GetIsolationLevel" => value = IsolationOption(reply.value)
      PROVE  IInv'
  <2>1. CASE Tail(call.todo) = <<>>
    BY <1>5, <1>6, <2>1 DEF Proceed
  <2>2. CASE Tail(call.todo) # <<>>
    <3>1. call' = [call EXCEPT !.pc = "send", !.todo = Tail(call.todo)] /\ UNCHANGED answer
      BY <1>6, <2>2 DEF Proceed
    <3>2. call.op \notin Single
      BY <1>1, <2>2, ShapeIs
    <3>3. h # "SELECT" /\ call.op # "SetIsolationLevel"
      BY <1>1, <3>2, ShapeIs DEF Single
    <3>4. Asked = [name |-> "OTHER", arg |-> "none"]
      BY <1>1, <3>2, AskedIs
    <3>5. Acknowledged(Asked, mode, journal) = journal /\ ModeAfter(Asked, mode) = mode
      BY <3>4 DEF Acknowledged, ModeAfter
    <3>6. UNCHANGED <<mode, journal, asked>> /\ wire' = "free"
      BY <1>1, <1>2, <3>3, <3>5
    <3> QED
      BY <1>1, <1>2, <1>3, <2>2, <3>1, <3>6, ContinuePreserves
  <2> QED
    BY <2>1, <2>2
<1>7. CASE h = "DATABASE" /\ reply.value = None
  <2>1. Returns(call.op, "IO", None)
    BY <1>2, <1>7 DEF Receive
  <2> QED
    BY <1>1, <1>2, <1>3, <1>4, <2>1, ReturnPreserves
<1>8. CASE h = "ISOLATION"
  <2>1. Proceed(IsolationOption(reply.value))
    BY <1>2, <1>8 DEF Receive
  <2> QED
    BY <1>6, <2>1
<1>9. CASE ~(h = "DATABASE" /\ reply.value = None) /\ h # "ISOLATION"
  <2>1. Proceed(reply.value)
    BY <1>2, <1>9 DEF Receive
  <2>2. call.op # "GetIsolationLevel"
    BY <1>1, <1>9, ShapeIs
  <2> QED
    BY <1>6, <2>1, <2>2
<1> QED
  BY <1>7, <1>8, <1>9

LEMMA ReceiveRowsPreserves == IInv /\ ReceiveRows => IInv'
<1> SUFFICES ASSUME IInv, ReceiveRows PROVE IInv'
  OBVIOUS
<1>1. /\ call.pc = "wait" /\ linked /\ reply.status = "ok" /\ inflight.name = "none"
      /\ Shape(call.op, call.arg, call.todo) /\ Head(call.todo) \in RowsNames
      /\ wire' = "rows" /\ call' = [call EXCEPT !.pc = "read"]
      /\ call = [op |-> call.op, pc |-> call.pc, arg |-> call.arg, todo |-> call.todo]
      /\ UNCHANGED <<store, settings, inflight, reply, linked, mode, version, journal, asked, answer>>
  BY DEF ReceiveRows, Command, server, IInv, SentInv, CallInv, Idle
<1>2. /\ call'.op = call.op /\ call'.pc = "read" /\ call'.arg = call.arg /\ call'.todo = call.todo
      /\ call' = [op |-> call'.op, pc |-> call'.pc, arg |-> call'.arg, todo |-> call'.todo]
      /\ call.op \notin Single
  BY <1>1, ShapeIs
<1>3. TypeOK' /\ CallInv'
  BY <1>1, <1>2 DEF IInv, TypeOK, CallInv
<1>4. SentInv' /\ CheckedInv' /\ WireInv'
  BY <1>1, <1>2 DEF IInv, SentInv, CheckedInv, WireInv, Idle, Single
<1>5. IsolationInv'
  BY <1>1, <1>2 DEF IInv, IsolationInv, IsolationReported, Executed, Single
<1> QED
  BY <1>3, <1>4, <1>5 DEF IInv

(* A call that reads rows, or fails, was not asked for the level.          *)
LEMMA StillReturns ==
  ASSUME IInv, NEW status, NEW value, Returns(call.op, status, value), ~Idle,
         status = "OK" => call.op # "GetIsolationLevel",
         ~(call.op = "SetIsolationLevel" /\ Executed),
         ~linked \/ inflight.name = "none",
         UNCHANGED <<store, settings, inflight, reply, linked, mode, version, asked>>,
         wire' \in {"free", "stream"},
         journal' \in Journal, ~linked => journal'.open = {}
  PROVE  IInv'
<1>1. /\ linked \in BOOLEAN /\ mode \in BOOLEAN /\ version \in BOOLEAN /\ asked \in SupportedLevels
      /\ (linked => settings.isolation = IsolationWords(asked))
  BY DEF IInv, TypeOK, IsolationInv
<1> QED
  BY <1>1, ReturnPreserves

LEMMA ReadRowsPreserves ==
  IInv /\ (ReadRows \/ ReadRowsFails) => IInv'
<1> SUFFICES ASSUME IInv, ReadRows \/ ReadRowsFails PROVE IInv'
  OBVIOUS
<1>1. /\ call.pc = "read" /\ wire' = "free" /\ ~Idle /\ ~Executed
      /\ UNCHANGED <<store, settings, inflight, reply, linked, mode, version, journal, asked>>
      /\ ~linked \/ inflight.name = "none"
      /\ Shape(call.op, call.arg, call.todo)
      /\ journal \in Journal /\ (~linked => journal.open = {})
  BY DEF ReadRows, ReadRowsFails, server, IInv, TypeOK, SentInv, CallInv, CheckedInv, Idle, Executed
<1>2. CASE ReadRowsFails
  <2>1. Returns(call.op, "IO", None)
    BY <1>2 DEF ReadRowsFails
  <2> QED
    BY <1>1, <2>1, StillReturns
<1>3. CASE ReadRows
  <2>1. Head(call.todo) = Command.name /\ linked
    BY <1>3 DEF ReadRows, Command
  <2>2. ASSUME Proceed(None), Tail(call.todo) # <<>>
        PROVE  IInv'
    <3>1. call' = [call EXCEPT !.pc = "send", !.todo = Tail(call.todo)] /\ UNCHANGED answer
      BY <2>2 DEF Proceed
    <3>2. version' \in BOOLEAN
      BY <1>1 DEF IInv, TypeOK
    <3> QED
      BY <1>1, <2>1, <2>2, <3>1, <3>2, ContinuePreserves
  <2>3. ASSUME NEW status, Returns(call.op, status, None), call.op # "GetIsolationLevel"
        PROVE  IInv'
    BY <1>1, <2>3, StillReturns
  <2>4. call.op # "GetIsolationLevel"
    BY <1>1 DEF IInv, WireInv
  <2> QED
    BY <1>3, <2>2, <2>3, <2>4 DEF ReadRows, Proceed
<1> QED
  BY <1>2, <1>3

LEMMA FailurePreserves ==
  IInv /\ (ReceiveError \/ ConnectionLost) => IInv'
<1> SUFFICES ASSUME IInv, ReceiveError \/ ConnectionLost PROVE IInv'
  OBVIOUS
<1>1. /\ call.pc \in {"send", "wait"} /\ ~Idle /\ wire = "free"
      /\ Shape(call.op, call.arg, call.todo)
      /\ UNCHANGED <<store, settings, inflight, reply, linked, wire, mode, version, asked>>
      /\ journal \in Journal /\ (~linked => journal.open = {})
  BY DEF ReceiveError, ConnectionLost, Failure, server, IInv, TypeOK, CallInv, CheckedInv, WireInv, Idle
<1>2. \E status, value : /\ Returns(call.op, status, value)
                         /\ status = "OK" => Head(call.todo) = "CHECKS"
  <2>1. Failure
    BY DEF ReceiveError, ConnectionLost
  <2>2. CASE Head(call.todo) = "CHECKS"
    BY <2>1, <2>2 DEF Failure, Command
  <2>3. CASE Head(call.todo) # "CHECKS"
    <3>1. Returns(call.op, "IO", None)
      BY <2>1, <2>3 DEF Failure, Command
    <3> QED
      BY <3>1
  <2> QED
    BY <2>2, <2>3
<1>3. PICK status, value : /\ Returns(call.op, status, value)
                           /\ status = "OK" => Head(call.todo) = "CHECKS"
  BY <1>2
<1>4. status = "OK" => call.op # "GetIsolationLevel"
  BY <1>1, <1>3, ShapeIs
<1>5. CASE ReceiveError
  <2>1. linked /\ reply.status = "error" /\ inflight.name = "none" /\ ~Executed
        /\ journal' = IF MayAbort(Asked) THEN Doubted(journal) ELSE journal
    BY <1>5 DEF ReceiveError, IInv, SentInv, Executed
  <2>2. journal' \in Journal
    BY <1>1, <2>1, DoubtedIs
  <2> QED
    BY <1>1, <1>3, <1>4, <2>1, <2>2, StillReturns
<1>6. CASE ConnectionLost
  <2>1. ~linked /\ journal' = journal
    BY <1>6 DEF ConnectionLost
  <2>2. /\ linked \in BOOLEAN /\ mode \in BOOLEAN /\ version \in BOOLEAN /\ asked \in SupportedLevels
    BY DEF IInv, TypeOK
  <2> QED
    BY <1>1, <1>3, <1>4, <2>1, <2>2, ReturnPreserves
<1> QED
  BY <1>5, <1>6

LEMMA StepHolds == IInv /\ [Next]_vars => IInv'
<1> SUFFICES ASSUME IInv, [Next]_vars PROVE IInv'
  OBVIOUS
<1>1. CASE UNCHANGED vars
  <2>1. UNCHANGED <<store, settings, inflight, reply, linked, wire, call, mode, version,
                    journal, asked, answer>>
    BY <1>1 DEF vars
  <2>2. TypeOK' /\ CallInv' /\ CheckedInv' /\ WireInv'
    BY <2>1 DEF IInv, TypeOK, CallInv, CheckedInv, WireInv, Idle
  <2>4. SentInv'
    BY <2>1 DEF IInv, SentInv, Command
  <2>3. IsolationInv'
    BY <2>1 DEF IInv, IsolationInv, IsolationReported, Executed
  <2> QED
    BY <2>2, <2>3, <2>4 DEF IInv
<1>2. CASE Driver
  BY <1>2, SendPreserves, ReceivePreserves, ReceiveRowsPreserves, ReadRowsPreserves,
     FailurePreserves DEF Driver
<1> QED
  BY <1>1, <1>2, ApplicationPreserves, ServerExecutesPreserves, ServerRefusesPreserves,
     LoseConnectionPreserves, ServerEndsPreserves DEF Next
-----------------------------------------------------------------------------
(* The server and the journal are the same in both specifications.         *)
LEMMA SameEffects ==
  ASSUME NEW c, NEW s
  PROVE  /\ Transactions!Effect(c, s) = Effect(c, s)
         /\ Transactions!RolledBack(s) = RolledBack(s)
         /\ Transactions!MayAbort(c) = MayAbort(c)
BY DEF Transactions!Effect, Effect, Transactions!Written, Written, Transactions!Committed, Committed,
       Transactions!RolledBack, RolledBack, Transactions!WithAutocommit, WithAutocommit,
       Transactions!MayAbort, MayAbort

LEMMA SameJournals ==
  ASSUME NEW c, NEW m, NEW j
  PROVE  /\ Transactions!Acknowledged(c, m, j) = Acknowledged(c, m, j)
         /\ Transactions!Doubted(j) = Doubted(j)
         /\ Transactions!ModeAfter(c, m) = ModeAfter(c, m)
BY DEF Transactions!Acknowledged, Acknowledged, Transactions!Doubted, Doubted,
       Transactions!ModeAfter, ModeAfter

(* The request at every stage of a command.                                *)
LEMMA RequestIs ==
  /\ inflight.name # "none" /\ linked => Request = [phase |-> "issued", cmd |-> SentRequest]
  /\ inflight.name # "none" /\ ~linked => Request = [phase |-> "abandoned", cmd |-> SentRequest]
  /\ Executed /\ linked => Request = [phase |-> "performed", cmd |-> Asked]
  /\ inflight.name = "none" /\ linked /\ call.pc = "wait" /\ reply.status # "ok" =>
       Request = [phase |-> "refused", cmd |-> Asked]
  /\ inflight.name = "none" /\ ~(linked /\ call.pc = "wait") => Request = Transactions!NoRequest
BY DEF Request, RequestPhase, Executed, Transactions!NoRequest, Transactions!NoCommand, NoCommand

LEMMA RequestBecomes ==
  /\ inflight'.name # "none" /\ linked' => Request' = [phase |-> "issued", cmd |-> SentRequest']
  /\ inflight'.name # "none" /\ ~linked' => Request' = [phase |-> "abandoned", cmd |-> SentRequest']
  /\ Executed' /\ linked' => Request' = [phase |-> "performed", cmd |-> Asked']
  /\ inflight'.name = "none" /\ linked' /\ call'.pc = "wait" /\ reply'.status # "ok" =>
       Request' = [phase |-> "refused", cmd |-> Asked']
  /\ inflight'.name = "none" /\ ~(linked' /\ call'.pc = "wait") =>
       Request' = Transactions!NoRequest
BY DEF Request, RequestPhase, Executed, Transactions!NoRequest, Transactions!NoCommand, NoCommand

LEMMA InitImplements == Init => Transactions!Init
<1> SUFFICES ASSUME Init PROVE Transactions!Init
  OBVIOUS
<1>1. inflight.name = "none" /\ call.pc = "idle"
  BY DEF Init, NoCommand, IdleCall
<1>2. Request = Transactions!NoRequest
  BY <1>1, RequestIs
<1> QED
  BY <1>2 DEF Init, Transactions!Init, FreshStore, Transactions!FreshStore, NoJournal,
     Transactions!NoJournal

(* The server's half of a round trip.                                      *)
LEMMA ServerImplements ==
  IInv /\ (ServerExecutes \/ ServerRefuses) => Transactions!Perform \/ Transactions!Refuse
<1> SUFFICES ASSUME IInv, ServerExecutes \/ ServerRefuses
             PROVE  Transactions!Perform \/ Transactions!Refuse
  OBVIOUS
<1>1. /\ inflight.name # "none" /\ inflight' = NoCommand /\ inflight'.name = "none"
      /\ UNCHANGED <<linked, wire, call, mode, journal>>
      /\ linked => /\ call.pc = "wait" /\ inflight = [name |-> Head(call.todo), arg |-> call.arg]
                   /\ inflight.name = Head(call.todo)
                   /\ Shape(call.op, call.arg, call.todo)
  <2>1. /\ inflight.name # "none" /\ inflight' = NoCommand
        /\ UNCHANGED <<linked, wire, call, mode, journal>>
    BY DEF ServerExecutes, ServerRefuses, client
  <2>2. inflight'.name = "none"
    BY <2>1 DEF NoCommand
  <2>3. linked => call.pc = "wait" /\ inflight = [name |-> Head(call.todo), arg |-> call.arg]
    BY <2>1 DEF IInv, SentInv, Command
  <2>4. linked => inflight.name = Head(call.todo) /\ Shape(call.op, call.arg, call.todo)
    BY <2>3 DEF IInv, CallInv, Idle
  <2> QED
    BY <2>1, <2>2, <2>3, <2>4
<1>2. SentRequest = IF inflight.name \in Named THEN inflight ELSE [name |-> "OTHER", arg |-> "none"]
  BY DEF SentRequest, Named
<1>3. linked => SentRequest = Asked
  BY <1>1, <1>2, AskedIs
<1>4. /\ Effect(SentRequest, store) = Effect(inflight, store)
      /\ MayAbort(inflight) => MayAbort(SentRequest)
  <2>1. CASE inflight.name \in Named
    BY <1>2, <2>1
  <2>2. CASE inflight.name \notin Named
    <3>1. SentRequest.name = "OTHER"
      BY <1>2, <2>2
    <3>2. Effect(SentRequest, store) = store /\ Effect(inflight, store) = store
      BY <2>2, <3>1 DEF Effect, Named
    <3>3. ~MayAbort(inflight)
      BY <2>2 DEF MayAbort, Named
    <3> QED
      BY <3>2, <3>3
  <2> QED
    BY <2>1, <2>2
<1>5. Asked' = Asked
  BY <1>1 DEF Asked
<1>6. /\ Request.phase = (IF linked THEN "issued" ELSE "abandoned") /\ Request.cmd = SentRequest
      /\ linked => Request = [phase |-> "issued", cmd |-> Asked]
      /\ Request.phase \in {"issued", "abandoned"}
  BY <1>1, <1>3, RequestIs
<1>7. ~linked => Request' = Transactions!NoRequest
  BY <1>1, RequestBecomes
<1>8. CASE ServerExecutes
  <2>1. store' = Effect(inflight, store) /\ reply'.status = "ok"
    BY <1>8 DEF ServerExecutes
  <2>2. linked => Request' = [phase |-> "performed", cmd |-> Asked]
    BY <1>1, <1>5, <2>1, RequestBecomes DEF Executed
  <2>3. store' = Transactions!Effect(Request.cmd, store)
    BY <1>4, <1>6, <2>1, SameEffects
  <2>4. Request' = IF Request.phase = "issued" THEN [Request EXCEPT !.phase = "performed"]
                                               ELSE Transactions!NoRequest
    BY <1>6, <1>7, <2>2
  <2>5. Transactions!Perform
    BY <1>1, <1>6, <2>3, <2>4 DEF Transactions!Perform
  <2> QED
    BY <2>5
<1>9. CASE ServerRefuses
  <2>1. /\ store' = store \/ (MayAbort(inflight) /\ store' = RolledBack(store))
        /\ reply'.status = "error"
    BY <1>9 DEF ServerRefuses
  <2>2. linked => Request' = [phase |-> "refused", cmd |-> Asked]
    BY <1>1, <1>5, <2>1, RequestBecomes
  <2>3. \/ store' = store
        \/ Transactions!MayAbort(Request.cmd) /\ store' = Transactions!RolledBack(store)
    BY <1>4, <1>6, <2>1, SameEffects
  <2>4. Request' = IF Request.phase = "issued" THEN [Request EXCEPT !.phase = "refused"]
                                               ELSE Transactions!NoRequest
    BY <1>6, <1>7, <2>2
  <2>5. Transactions!Refuse
    BY <1>1, <1>6, <2>3, <2>4 DEF Transactions!Refuse
  <2> QED
    BY <2>5
<1> QED
  BY <1>8, <1>9

LEMMA SendImplements ==
  IInv /\ Send => \E c \in Transactions!Commands : Transactions!Issue(c)
<1> SUFFICES ASSUME IInv, Send PROVE \E c \in Transactions!Commands : Transactions!Issue(c)
  OBVIOUS
<1>1. /\ call.pc = "send" /\ linked /\ Shape(call.op, call.arg, call.todo)
      /\ inflight' = [name |-> Head(call.todo), arg |-> call.arg]
      /\ inflight'.name = Head(call.todo) /\ inflight'.name # "none"
      /\ inflight.name = "none"
      /\ UNCHANGED <<store, linked, mode, journal>>
  BY ShapeIs DEF Send, Command, IInv, CallInv, SentInv, Idle
<1>2. SentRequest' = Asked
  BY <1>1, AskedIs DEF SentRequest, Named
<1>3. Request = Transactions!NoRequest /\ Request' = [phase |-> "issued", cmd |-> Asked]
  BY <1>1, <1>2, RequestIs, RequestBecomes
<1>4. Asked \in Transactions!Commands
  <2>1. /\ Asked = [name |-> Asked.name, arg |-> Asked.arg] /\ Asked.name \in Named \cup {"OTHER"}
        /\ Asked.name = "WRITE" => Asked.arg \in Rows
        /\ Asked.name = "SET autocommit" => Asked.arg \in {"0", "1"}
        /\ Asked.name \notin {"WRITE", "SET autocommit"} => Asked.arg = "none"
    BY <1>1, AskedIs
  <2>2. CASE Asked.name = "WRITE"
    BY <2>1, <2>2 DEF Transactions!Commands
  <2>3. CASE Asked.name = "SET autocommit"
    BY <2>1, <2>3 DEF Transactions!Commands
  <2>4. CASE Asked.name \notin {"WRITE", "SET autocommit"}
    BY <2>1, <2>4 DEF Transactions!Commands, Transactions!OtherNames, Named
  <2> QED
    BY <2>2, <2>3, <2>4
<1>5. Transactions!Allowed(Asked)
  <2>1. Asked.name = "WRITE" => Asked.arg = call.arg
    BY DEF Asked
  <2>2. Asked.name = "WRITE" =>
          Asked.arg \in Rows \ (store.durable \cup store.tentative \cup journal.gone)
    BY <1>1, <2>1, AskedIs DEF IInv, CheckedInv
  <2>3. Asked.name \in {"COMMIT", "ROLLBACK"} => ~mode
    BY <1>1, AskedIs DEF IInv, CheckedInv
  <2> QED
    BY <1>1, <2>2, <2>3, AskedIs DEF Transactions!Allowed, Transactions!OtherNames, Named
<1>6. Transactions!Issue(Asked)
  BY <1>1, <1>3, <1>5 DEF Transactions!Issue, Transactions!NoRequest
<1> QED
  BY <1>4, <1>6

LEMMA ReplyImplements ==
  IInv /\ (Receive \/ ReceiveRows \/ ReceiveError) =>
    Transactions!Acknowledge \/ Transactions!Deny
<1> SUFFICES ASSUME IInv, Receive \/ ReceiveRows \/ ReceiveError
             PROVE  Transactions!Acknowledge \/ Transactions!Deny
  OBVIOUS
<1>1. /\ call.pc = "wait" /\ linked /\ inflight.name = "none" /\ reply.status \in {"ok", "error"}
      /\ Shape(call.op, call.arg, call.todo)
      /\ UNCHANGED <<store, linked, inflight>>
      /\ call = [op |-> call.op, pc |-> call.pc, arg |-> call.arg, todo |-> call.todo]
  BY DEF Receive, ReceiveRows, ReceiveError, Failure, server, IInv, SentInv, CallInv, Idle
<1>2. call'.pc # "wait"
  <2>1. CASE Receive
    <3>1. \/ \E status, value : Returns(call.op, status, value)
          \/ call' = [call EXCEPT !.pc = "send", !.todo = Tail(call.todo)]
      <4>1. \/ Returns(call.op, "IO", None)
            \/ \E value : Proceed(value)
        BY <2>1 DEF Receive
      <4> QED
        BY <4>1 DEF Proceed
    <3> QED
      BY <1>1, <3>1, ReturnsIs
  <2>2. CASE ReceiveRows
    BY <1>1, <2>2 DEF ReceiveRows
  <2>3. CASE ReceiveError
    <3>1. call' = IdleCall
      BY <2>3 DEF ReceiveError, Failure, Returns
    <3> QED
      BY <3>1 DEF IdleCall
  <2> QED
    BY <2>1, <2>2, <2>3
<1>3. Request' = Transactions!NoRequest
  BY <1>1, <1>2, RequestBecomes
<1>4. CASE Receive \/ ReceiveRows
  <2>1. reply.status = "ok"
    BY <1>4 DEF Receive, ReceiveRows
  <2>2. Request = [phase |-> "performed", cmd |-> Asked]
    BY <1>1, <2>1, RequestIs DEF Executed
  <2>3. journal' = Acknowledged(Asked, mode, journal) /\ mode' = ModeAfter(Asked, mode)
    <3>1. CASE Receive
      BY <3>1 DEF Receive
    <3>2. CASE ReceiveRows
      <4>1. Head(call.todo) \in RowsNames /\ UNCHANGED <<mode, journal>>
        BY <3>2 DEF ReceiveRows, Command
      <4>2. Asked = [name |-> "OTHER", arg |-> "none"]
        BY <1>1, <4>1, ShapeIs, AskedIs
      <4> QED
        BY <4>1, <4>2 DEF Acknowledged, ModeAfter
    <3> QED
      BY <1>4, <3>1, <3>2
  <2>4. Transactions!Acknowledge
    BY <1>1, <1>3, <2>2, <2>3, SameJournals DEF Transactions!Acknowledge
  <2> QED
    BY <2>4
<1>5. CASE ReceiveError
  <2>1. /\ reply.status = "error" /\ mode' = mode
        /\ journal' = IF MayAbort(Asked) THEN Doubted(journal) ELSE journal
    BY <1>5 DEF ReceiveError, Failure
  <2>2. Request = [phase |-> "refused", cmd |-> Asked]
    BY <1>1, <2>1, RequestIs
  <2>3. journal' = IF Transactions!MayAbort(Request.cmd) THEN Transactions!Doubted(journal) ELSE journal
    BY <2>1, <2>2, SameEffects, SameJournals
  <2>4. Transactions!Deny
    BY <1>1, <1>3, <2>1, <2>2, <2>3 DEF Transactions!Deny
  <2> QED
    BY <2>4
<1> QED
  BY <1>4, <1>5

(* A lost connection severs, once.                                         *)
LEMMA SeverImplements ==
  ASSUME IInv, Severed, UNCHANGED <<store, mode, inflight>>,
         linked => (call.pc = "wait" /\ UNCHANGED <<call, reply>>) \/ inflight.name = "none"
  PROVE  Transactions!Sever \/ UNCHANGED Transactions!vars
<1>1. linked' = FALSE /\ journal' = Doubted(journal)
  BY DEF Severed
<1>2. SentRequest' = SentRequest
  BY DEF SentRequest
<1>3. CASE linked
  <2>1. Request' = IF Request.phase = "issued" THEN [Request EXCEPT !.phase = "abandoned"]
                                               ELSE Transactions!NoRequest
    <3>1. CASE inflight.name # "none"
      <4>1. Request = [phase |-> "issued", cmd |-> SentRequest]
        BY <1>3, <3>1, RequestIs
      <4>2. Request' = [phase |-> "abandoned", cmd |-> SentRequest]
        BY <1>1, <1>2, <3>1, RequestBecomes
      <4> QED
        BY <4>1, <4>2
    <3>2. CASE inflight.name = "none"
      <4>1. Request.phase # "issued"
        BY <3>2, RequestIs DEF Executed, Transactions!NoRequest
      <4>2. Request' = Transactions!NoRequest
        BY <1>1, <3>2, RequestBecomes
      <4> QED
        BY <4>1, <4>2
    <3> QED
      BY <3>1, <3>2
  <2> QED
    BY <1>1, <1>3, <2>1, SameJournals DEF Transactions!Sever
<1>4. CASE ~linked
  <2>1. journal' = journal
    <3>1. journal \in Journal /\ journal.open = {}
      BY <1>4 DEF IInv, TypeOK, CheckedInv
    <3> QED
      BY <1>1, <3>1 DEF Doubted, Journal
  <2>2. linked' = linked
    BY <1>1, <1>4 DEF IInv, TypeOK
  <2>3. Request' = Request
    <3>1. CASE inflight.name # "none"
      BY <1>1, <1>2, <1>4, <3>1, RequestIs, RequestBecomes
    <3>2. CASE inflight.name = "none"
      BY <1>1, <1>4, <3>2, RequestIs, RequestBecomes
    <3> QED
      BY <3>1, <3>2
  <2> QED
    BY <2>1, <2>2, <2>3 DEF Transactions!vars
<1> QED
  BY <1>3, <1>4 DEF IInv, TypeOK

(* A step inside the driver that no transaction notices.                   *)
LEMMA LocalImplements ==
  ASSUME UNCHANGED <<store, mode, linked, journal, inflight>>,
         ~linked \/ (inflight.name = "none" /\ call.pc # "wait" /\ call'.pc # "wait")
  PROVE  UNCHANGED Transactions!vars
<1>1. SentRequest' = SentRequest
  BY DEF SentRequest
<1>2. Request' = Request
  <2>1. CASE inflight.name # "none"
    BY <1>1, <2>1, RequestIs, RequestBecomes
  <2>2. CASE inflight.name = "none"
    BY <2>2, RequestIs, RequestBecomes
  <2> QED
    BY <2>1, <2>2
<1> QED
  BY <1>2 DEF Transactions!vars
LEMMA ClearPendingImplements ==
  ASSUME IInv, NEW op, NEW arg, NEW todo, NEW status, ClearPending(op, arg, todo, status)
  PROVE  Transactions!Sever \/ UNCHANGED Transactions!vars
<1>1. /\ call.pc = "idle" /\ UNCHANGED <<store, inflight, mode>>
      /\ linked => inflight.name = "none"
  BY DEF ClearPending, Idle, server, IInv, SentInv
<1>2. CASE call'.pc # "wait" /\ UNCHANGED <<linked, journal>>
  BY <1>1, <1>2, LocalImplements
<1>3. CASE Severed
  BY <1>1, <1>3, SeverImplements
<1>4. call'.pc # "wait"
  BY DEF ClearPending, Returns, IdleCall
<1> QED
  BY <1>2, <1>3, <1>4 DEF ClearPending

LEMMA ApplicationImplements ==
  IInv /\ Application => Transactions!Sever \/ UNCHANGED Transactions!vars
<1> SUFFICES ASSUME IInv, Application
             PROVE  Transactions!Sever \/ UNCHANGED Transactions!vars
  OBVIOUS
<1>1. CASE \E op, arg, todo, status : ClearPending(op, arg, todo, status)
  BY <1>1, ClearPendingImplements
<1>2. CASE \E op, status : /\ Idle /\ Returns(op, status, None)
                           /\ UNCHANGED <<server, reply, linked, journal, wire, mode, version, asked>>
  <2>1. /\ call.pc = "idle" /\ call' = IdleCall
        /\ UNCHANGED <<store, mode, linked, journal, inflight>>
    BY <1>2 DEF Idle, Returns, server
  <2>2. call'.pc # "wait" /\ (linked => inflight.name = "none")
    BY <2>1 DEF IdleCall, IInv, SentInv
  <2> QED
    BY <2>1, <2>2, LocalImplements
<1>3. CASE Commit \/ Rollback
  <2>1. PICK op, name : EndTransaction(op, name)
    BY <1>3 DEF Commit, Rollback
  <2> QED
    BY <1>1, <1>2, <2>1 DEF EndTransaction
<1>4. ASSUME NEW value, setIsolationLevel(value)
      PROVE  \E op, arg, todo, status : ClearPending(op, arg, todo, status)
  <2>1. CASE value \in SupportedLevels
    <3>1. ClearPending("SetIsolationLevel", value, <<"SET ISOLATION">>, "OK")
      BY <1>4, <2>1 DEF setIsolationLevel, SupportedLevels, RefusedLevels
    <3> QED
      BY <3>1
  <2>2. CASE value \notin SupportedLevels
    <3>1. \/ ClearPending("SetIsolationLevel", value, <<>>, "NOT_IMPLEMENTED")
          \/ ClearPending("SetIsolationLevel", value, <<>>, "INVALID_ARGUMENT")
      BY <1>4, <2>2 DEF setIsolationLevel
    <3> QED
      BY <3>1
  <2> QED
    BY <2>1, <2>2
<1>5. CASE GetIsolationLevel \/ GetCurrentCatalog \/ PrepareDriverInfo \/ ExecuteQuery
  BY <1>1, <1>5 DEF GetIsolationLevel, GetCurrentCatalog, PrepareDriverInfo, ExecuteQuery
<1>6. CASE \E on \in BOOLEAN : SetAutocommit(on) \/ GetTableSchema(on) \/ GetObjects(on)
                                 \/ GetStatistics(on)
  BY <1>1, <1>6 DEF SetAutocommit, GetTableSchema, GetObjects, GetStatistics
<1>7. CASE \E catalog \in Catalogs : SetCurrentCatalog(catalog)
  BY <1>1, <1>7 DEF SetCurrentCatalog
<1>8. CASE \E r \in Rows : ExecuteUpdate(r)
  BY <1>1, <1>8 DEF ExecuteUpdate
<1> QED
  BY <1>1, <1>3, <1>4, <1>5, <1>6, <1>7, <1>8 DEF Application

(* Every step of the connection is a step of the abstract one, or none.    *)
LEMMA StepImplements == IInv /\ [Next]_vars => [Transactions!Next]_(Transactions!vars)
<1> SUFFICES ASSUME IInv, [Next]_vars PROVE [Transactions!Next]_(Transactions!vars)
  OBVIOUS
<1>1. CASE UNCHANGED vars
  BY <1>1 DEF vars, Transactions!vars, Request, RequestPhase, SentRequest, Asked
<1>2. CASE Application
  BY <1>2, ApplicationImplements DEF Transactions!Next
<1>3. CASE Send
  BY <1>3, SendImplements DEF Transactions!Next
<1>4. CASE Receive \/ ReceiveRows \/ ReceiveError
  BY <1>4, ReplyImplements DEF Transactions!Next
<1>5. CASE ReadRows \/ ReadRowsFails \/ ConnectionLost
  <2>1. /\ UNCHANGED <<store, mode, linked, journal, inflight>>
        /\ ~linked \/ call.pc = "read"
    BY <1>5 DEF ReadRows, ReadRowsFails, ConnectionLost, Failure, server
  <2>2. call.pc = "read" => call'.pc # "wait"
    <3>1. SUFFICES ASSUME call.pc = "read" PROVE call'.pc # "wait"
      OBVIOUS
    <3>2. \/ call' = IdleCall
          \/ call' = [call EXCEPT !.pc = "send", !.todo = Tail(call.todo)]
      BY <1>5, <3>1 DEF ReadRows, ReadRowsFails, ConnectionLost, Proceed, Returns
    <3>3. call = [op |-> call.op, pc |-> call.pc, arg |-> call.arg, todo |-> call.todo]
      BY DEF IInv, CallInv
    <3>4. CASE call' = IdleCall
      BY <3>4 DEF IdleCall
    <3>5. CASE call' = [call EXCEPT !.pc = "send", !.todo = Tail(call.todo)]
      BY <3>3, <3>5
    <3> QED
      BY <3>2, <3>4, <3>5
  <2>3. ~linked \/ inflight.name = "none"
    BY <2>1 DEF IInv, SentInv
  <2>4. ~linked \/ (inflight.name = "none" /\ call.pc # "wait" /\ call'.pc # "wait")
    BY <2>1, <2>2, <2>3
  <2> QED
    BY <2>1, <2>4, LocalImplements
<1>6. CASE ServerExecutes \/ ServerRefuses
  BY <1>6, ServerImplements DEF Transactions!Next
<1>7. CASE LoseConnection
  <2>1. Severed /\ linked /\ UNCHANGED <<store, mode, inflight, call, reply>>
    BY <1>7 DEF LoseConnection, server, client
  <2>2. (call.pc = "wait" /\ UNCHANGED <<call, reply>>) \/ inflight.name = "none"
    BY <2>1 DEF IInv, SentInv
  <2> QED
    BY <2>1, <2>2, SeverImplements DEF Transactions!Next
<1>8. CASE ServerEnds
  <2>1. /\ ~linked /\ store' = RolledBack(store) /\ inflight'.name = "none"
        /\ UNCHANGED <<mode, linked, journal>>
    BY <1>8 DEF ServerEnds, client, NoCommand
  <2>2. Request' = Transactions!NoRequest
    BY <2>1, RequestBecomes
  <2>3. Transactions!End
    BY <2>1, <2>2, SameEffects DEF Transactions!End
  <2> QED
    BY <2>3 DEF Transactions!Next
<1> QED
  BY <1>1, <1>2, <1>3, <1>4, <1>5, <1>6, <1>7, <1>8 DEF Next, Driver

-----------------------------------------------------------------------------
(* Every reachable state of a connection satisfies the invariant.          *)
THEOREM SessionInvariant == Spec => []IInv
<1>1. IInv /\ [Next]_vars => IInv'
  BY StepHolds
<1> QED
  BY InitHolds, <1>1, PTL DEF Spec

(* The variables keep their types, whatever is called, refused or lost.    *)
THEOREM SessionTypeCorrect == Spec => []TypeOK
<1>1. IInv => TypeOK
  BY DEF IInv
<1> QED
  BY SessionInvariant, <1>1, PTL

(* No call sends a command while a result occupies the connection, and no  *)
(* call leaves the rows it queried open: ClearPending at the start of      *)
(* every call and the deferred Close of every query are enough.            *)
THEOREM WireAlwaysFree == Spec => []WireDiscipline
<1>1. IInv => WireDiscipline
  BY DEF IInv, WireInv, WireDiscipline
<1> QED
  BY SessionInvariant, <1>1, PTL

(* GetIsolationLevel returns the level set last, for every default of the  *)
(* server.                                                                 *)
THEOREM IsolationAlwaysReported == Spec => []IsolationReported
<1>1. IInv => IsolationReported
  BY DEF IInv, IsolationInv
<1> QED
  BY SessionInvariant, <1>1, PTL

(* The connection, with its calls, round trips and losses, implements the  *)
(* abstract connection of AdbcTransactions.                                *)
THEOREM SessionImplements == Spec => ImplementsTransactions
<1>1. IInv /\ [Next]_vars => [Transactions!Next]_(Transactions!vars)
  BY StepImplements
<1> QED
  BY InitImplements, SessionInvariant, <1>1, PTL DEF Spec, ImplementsTransactions, Transactions!Spec

(* The theorems of AdbcTransactionsProofs are about an instance of their   *)
(* own: its actions are those of Transactions.                             *)
LEMMA SameActions == [Transactions!Next]_(Transactions!vars) => [T!Next]_(T!vars)
<1>1. \A c, s, m, j : /\ Transactions!Effect(c, s) = T!Effect(c, s)
                      /\ Transactions!RolledBack(s) = T!RolledBack(s)
                      /\ Transactions!MayAbort(c) = T!MayAbort(c)
                      /\ Transactions!Acknowledged(c, m, j) = T!Acknowledged(c, m, j)
                      /\ Transactions!Doubted(j) = T!Doubted(j)
                      /\ Transactions!ModeAfter(c, m) = T!ModeAfter(c, m)
  BY DEF Transactions!Effect, T!Effect, Transactions!Written, T!Written, Transactions!Committed,
         T!Committed, Transactions!RolledBack, T!RolledBack, Transactions!WithAutocommit,
         T!WithAutocommit, Transactions!MayAbort, T!MayAbort, Transactions!Acknowledged,
         T!Acknowledged, Transactions!Doubted, T!Doubted, Transactions!ModeAfter, T!ModeAfter
<1>2. Transactions!NoRequest = T!NoRequest /\ Transactions!Commands = T!Commands
  BY DEF Transactions!NoRequest, T!NoRequest, Transactions!NoCommand, T!NoCommand,
         Transactions!Commands, T!Commands, Transactions!OtherNames, T!OtherNames
<1>3. \A c : Transactions!Issue(c) => T!Issue(c)
  BY DEF Transactions!Issue, T!Issue, Transactions!Allowed, T!Allowed, Transactions!OtherNames,
         T!OtherNames
<1>4. Transactions!Perform => T!Perform
  BY <1>1, <1>2 DEF Transactions!Perform, T!Perform
<1>5. Transactions!Refuse => T!Refuse
  BY <1>1, <1>2 DEF Transactions!Refuse, T!Refuse
<1>6. Transactions!Acknowledge => T!Acknowledge
  BY <1>1, <1>2 DEF Transactions!Acknowledge, T!Acknowledge
<1>7. Transactions!Deny => T!Deny
  BY <1>1, <1>2 DEF Transactions!Deny, T!Deny
<1>8. Transactions!Sever => T!Sever
  BY <1>1, <1>2 DEF Transactions!Sever, T!Sever
<1>9. Transactions!End => T!End
  BY <1>1, <1>2 DEF Transactions!End, T!End
<1> QED
  BY <1>2, <1>3, <1>4, <1>5, <1>6, <1>7, <1>8, <1>9
     DEF Transactions!Next, T!Next, Transactions!vars, T!vars

(* What the abstract connection proves holds of this one.                  *)
LEMMA AbstractInvariant == Spec => []T!IInv
<1>1. Transactions!Init => T!Init
  BY DEF Transactions!Init, T!Init, Transactions!FreshStore, T!FreshStore, Transactions!NoJournal,
     T!NoJournal, Transactions!NoRequest, T!NoRequest, Transactions!NoCommand, T!NoCommand
<1>2. [Transactions!Next]_(Transactions!vars) => [T!Next]_(T!vars)
  BY SameActions
<1>3. T!Spec => []T!IInv
  BY T!TransactionsInvariant
<1> QED
  BY SessionImplements, <1>1, <1>2, <1>3, PTL
     DEF ImplementsTransactions, Transactions!Spec, T!Spec
(* Rows the application was told are committed are durable, and rows it    *)
(* was told are rolled back never become so: the promise of the abstract   *)
(* connection, kept over a wire that may break between any two steps.      *)
THEOREM SessionKeepsPromises == Spec => []Promises
<1>1. T!IInv => Promises
  BY DEF T!IInv, T!RowInv, Promises, Transactions!Promises
<1> QED
  BY AbstractInvariant, <1>1, PTL

(* Between calls, while the connection works, driverbase's autocommit flag *)
(* is the mode of the session: a SET autocommit that was executed and not  *)
(* acknowledged costs the connection.                                      *)
THEOREM ModesAlwaysAgree == Spec => []ModesAgree
<1>1. IInv /\ T!IInv => ModesAgree
  <2> SUFFICES ASSUME IInv, T!IInv, Idle, linked PROVE mode = store.autocommit
    BY DEF ModesAgree
  <2>1. inflight.name = "none" /\ call.pc = "idle"
    BY DEF IInv, SentInv, Idle
  <2>2. Request.phase = "none"
    BY <2>1, RequestIs DEF Transactions!NoRequest
  <2> QED
    BY <2>2 DEF T!IInv, T!ModeInv
<1> QED
  BY SessionInvariant, AbstractInvariant, <1>1, PTL
=============================================================================
