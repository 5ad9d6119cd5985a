# Verification of the ADBC driver for MariaDB

TLA+ models of the driver in `go/`, checked with TLC on small instances and,
where a statement matters for every instance, proved with TLAPS. Paths below
are relative to the repository; `driver.go` is `go/pkg/driver.go` and `adbc.h`
is `go/pkg/adbc.h`, the ADBC API the driver implements.

## The system

An application (or a driver manager) loads the driver as a C library and calls
the functions of `adbc.h`. Two layers answer:

* **The C ABI** (`go/pkg`): exported cgo functions over C structs. It owns the
  handles, options set before Init, contexts for cancellation, error structs,
  exported Arrow streams and a global poison flag. It is the part with
  concurrency, memory ownership and failure in the middle of a call.
* **The Go driver** (`go/*.go`): MariaDB specifics on top of `sqlwrapper` and
  `driverbase`, two libraries that are not part of the repository: sessions and
  transactions, bulk ingest, type conversion, metadata, connection strings and
  classification of server errors. Mostly sequential, with hard parsing and
  boundary cases.

### Inventory

| Component | State | Operations | What makes it correct |
|---|---|---|---|
| C ABI objects (`driver.go` 275-342, 481-1020, 1023-1053, 1324-1521) | `private_data` of every struct, the cgo handle table, `cdb.db`/`conn.cnxn`/`st.stmt`, `cdb.opts`, `conn.initArgs`, `globalPoison` | New, SetOption, GetOption, Init, Release, Cancel and the calls that work on an object | handles never dangle or leak, Go objects are closed once, options reach the Go object, a panic stops the driver |
| Cancellation (`driver.go` 1085-1098, 1324-1331, 1524-1553, every `NewContext`) | the context each `CancellableContext` holds | every call that takes a context, `FinishContext`, Cancel in two halves | Cancel reaches the execution in progress, reports the truth, disturbs nothing else |
| Errors (`driver.go` 92-230, 353-397, `utils.c` 37-91, `utils.h` 94-109) | `AdbcError` structs, the C heap behind them | `setErr`, `fmtErr`, `setErrWithDetails`, `poison`, release callbacks, `maybeError` | no leak, no double free, the caller sees the last error in the form it asked for |
| Streams (`driver.go` 346-479, `utils.c` 446-458) | reader, error and status of an `ArrowArrayStream` | GetSchema, GetNext, GetLastError, Release, AdbcErrorFromArrayStream | the reader is released once, the error is current |
| Partitions (`driver.go` 1824-1893) | C memory of `AdbcPartitions` | ExecutePartitions, release | no statement returns partitions: not modelled |
| Entry points (`utils.c` 94-458, `driver.go` 1896-1984) | none | forward to the exported functions, zero output structs | output structs are never read uninitialized |
| Sessions and transactions (`mariadb.go` 913-1039, `connection.go` 41-90) | the server session: autocommit, isolation, catalog, open transaction; a pending result | SetOption, GetOption, Commit, Rollback, SetCurrentCatalog | driver and session agree, also after a failure; options do not end streams needlessly |
| Statements (`mariadb.go` 801-911) | query, prepared flag | SetSqlQuery, Prepare, GetParameterSchema, `countPlaceholders` | the number of parameters is what the server counts |
| Zero datetime option (`mariadb.go` 58-98, 571-622, 767-797, 1041-1062) | behaviour per database, connection and statement | Set/GetOption, inheritance | a statement converts as its option says |
| Type conversion (`mariadb.go` 115-711) | none | raw column types, inserters, Arrow to Go | value preserved or refused |
| Bulk ingest (`connection.go` 418-526) | the table, the rows inserted so far | ExecuteBulkIngest, create, drop | placeholder limit, failure between DROP, CREATE and INSERT batches |
| Table schema (`connection.go` 93-383, 529-640) | none | GetTableSchema, `parseMariaDBTypeValues`, `arrowToMariaDBType` | types and quoted values parsed exactly |
| GetObjects, statistics (`connection_getobjects.go`, `connection_statistics.go`) | none | group rows of information_schema | every row in one place, constraints with all their columns |
| Connection strings (`db_factory.go`) | none | URI or DSN to a driver configuration | equivalent inputs give one configuration |
| Error inspector (`error_inspector.go`) | none | server error to ADBC status | total and consistent |

Components interact by calls: the C ABI holds one Go object per handle; a
connection needs an initialized database, a statement an initialized
connection; a stream lives on after the call that exported it and after its
statement. Threads share the objects, the handle table, the poison flag and the
context holders.

A connection owns one server session for its whole life: transactions, options,
temporary tables and the result of an open query are states of that session,
and a lost connection is never replaced.

Hard behaviours of the C ABI: several threads inside one object (GetOption and
Cancel may overlap everything but Init and Release), Init that fails half way, a
panic on one thread while others are in flight, Cancel racing the end and the
start of executions, error structs that are replaced, released and reused. Of
the Go driver: a command that the server executed and whose reply was lost,
statements that commit behind the application's back, batches that fail half
way, tables that other sessions change between two queries of one call, rows
grouped by comparing neighbours, texts that are decoded, encoded and decoded
again. They are listed with their lines in `PROJECT.json`, "hazards".

## Modules

| Module | Models | Proofs |
|---|---|---|
| `AdbcDriver` | C ABI objects, handles, options, poison, streams as objects | `AdbcDriverProofs` |
| `ObjectLifecycle` | abstract: what becomes of an object behind a struct | refinement in `AdbcDriverProofs` |
| `Cancellation` | contexts of one connection and one statement | `CancellationProofs` |
| `AdbcErrors` | error structs and the C heap | `AdbcErrorsProofs` |
| `Session` | one connection and its server session: options, transactions, metadata calls as round trips | `SessionProofs` |
| `MariaDBServer` | what the server does with a transaction (external) | |
| `AdbcTransactions` | abstract: what a connection promises about transactions | `AdbcTransactionsProofs` |
| `BulkIngest` | ExecuteBulkIngest, mode by mode and batch by batch | `BulkIngestProofs` |
| `Statement` | prepared queries and the zero datetime option | `StatementProofs` |
| `Statistics` | one GetStatistics call | `MetadataProofs` |
| `GetObjects` | one GetObjects call | `MetadataProofs` |
| `TypeConversion` | column types to Arrow types and back, as operators | `MetadataProofs` |
| `TableSchema` | one GetTableSchema call over `TypeConversion` | `MetadataProofs` |
| `ColumnValues` | values from bytes to Arrow to parameters, over `TypeConversion` | `StatementProofs` |
| `Placeholders` | `countPlaceholders` | `StatementProofs` |
| `TypeValues` | `parseMariaDBTypeValues` | `MetadataProofs` |
| `ConnectionStrings` | `db_factory.go` | `StatementProofs` |
| `ErrorInspector` | `InspectError` | `StatementProofs` |
| `Metadata` | `Statistics`, `GetObjects`, `TableSchema` and `TypeValues` side by side, over any schemas | `MetadataProofs` |
| `MCAdbcDriver`, `MCCancellation`, `MCAdbcErrors` | instances for TLC: symmetry sets | |
| `MCMetadata` | `Metadata` over small information_schemas | |
| `MCStatement` | `Statement` and the algorithms its queries, values, connection and errors go through, side by side | `StatementProofs` |

### AdbcDriver, ObjectLifecycle

State: `poisoned` is `globalPoison`; `privateData[s]` the `private_data` of
struct `s`; `nextHandle` and `live` the handle table of `runtime/cgo`;
`initialized[h]` says whether the Go side of handle `h` has a Go object
(`cdb.db`, `conn.cnxn`, `st.stmt`, `cStream.rdr`); `buffered[h]` is `cdb.opts`
or `conn.initArgs`; `call[t]` is what thread `t` executes. `outstanding`,
`delivered`, `asked`, `initOK` and `lateOK` are history variables that only the
properties read.

A function that calls into the Go driver is two actions: the entry, up to that
call, and the return (`...Returns`, `CallSucceeds`, `CallFails`,
`SetOptionSucceeds`, `exportRecordReader`), where the Go driver succeeds, fails
or panics. Everything another thread may do falls between the two. A function
that only touches memory is one action. Functions with the same effect on this
state share an action: `ConnectionOp` is Commit, Rollback and GetTableSchema,
`ConnectionMetadata` the functions that export a reader, `StatementOp` the
statement functions that export none, SetOption and GetOption their four typed
variants. A refused call is a stuttering step.

What the application may do is part of the model: `Quiescent`, `Serialized` and
`Shareable` are the threading rules of `adbc.h` (lines 885, 923, 1178, 1480,
1675, 2133, 2150). `NoUseAfterRelease` shows that these rules are enough.

`ObjectLifecycle` states what is left without handles, flags and history: a
struct owns at most one object; an object is allocated and opened later, or
created open; a call works on open objects that are owned, or on the one it
opens alone; a Release takes an object no call works on, and closes it.
`AdbcDriver` implements it with `ObjectStates` (from `outstanding`, `live` and
the Releases under way) and `Working` (the object of a call and the parent of
an Init or a New) as refinement mapping. A failing or panicking call is `End`,
or `Open` when Init fails after the object was opened.

Not modelled: the data of calls; a panic inside a stream callback, which has no
`recover` and ends the process; `db == nil` and other null pointer arguments.

### Cancellation

`current[x]` is the context a `CancellableContext` holds, for the connection
("conn"), the statement ("stmt") and its `executionContext` ("exec").
`CancellableContext` and `StatementCanceler` come from `driverbase` and are
external: `NewContext` replaces the context, and whether it cancels the old one
is left open (`lib.replaceCancels`), as is whether statements implement
`StatementCanceler` (`lib.canceler`); `Init` chooses both, so every result holds
for all four combinations. `StatementCancel` is split where the code reads
`active` and decides later. `overlap`, `hit` and `pending` are history.

### AdbcErrors

`err[e]` has the fields of `AdbcError`, `heap` the C blocks allocated and not
freed. The `MariaDBError` struct and its arrays are one block, since they are
allocated and freed together; `err.message` and `MariaDBError.message` are one
pointer. Applications initialize a struct as ADBC 1.0.0 or 1.1.0 does, and
release it before they pass it to another call, with or without initializing it
again. A call may fail and then panic in a deferred function, so an error may
replace another. `sqlstate` and texts are left out.

### Session, MariaDBServer, AdbcTransactions

The application makes one call at a time on a connection (`call`): the call
first closes the result an earlier query left open (`ClearPending`, which
`sqlwrapper` provides and every function of the driver calls), then sends its
commands one after the other. A command is `Send`, then `ServerExecutes` or
`ServerRefuses`, then `Receive`, `ReceiveRows` or `ReceiveError`; rows occupy
the connection (`wire`) until they are read and closed. `LoseConnection` is
possible in every state. The command on its way (`inflight`) may then still be
executed, or the server ends the session first and rolls back (`ServerEnds`).
The driver's part of the state is `mode`, driverbase's autocommit flag, and
`version`, the cached server version. `journal`, `asked` and `answer` are
history.

What a failed command did is left open as far as the server leaves it open: a
refused write, COMMIT or SELECT, or the commit in enabling autocommit, may have
rolled the transaction back (`MayAbort`). After such a failure the application
relies on nothing (`Doubted`).

`AdbcTransactions` states what is left when the wire is taken away: a request is
issued, performed or refused, acknowledged or denied, and a severed connection
leaves at most one request that may still be performed. `Session` implements it
with `Request` as refinement mapping: the request is the command in flight, or
the reply that waits to be received.

Cancelling a call is losing the connection: the protocol library closes the
connection of a cancelled context. Zero rows affected, warnings and the text of
errors are left out.

### BulkIngest

One table name, which may stand for a permanent table, a temporary one, or both
(`Visible` is the one an INSERT means). An ingest is validated, then takes the
steps `drop`, `create`, `size` and `batch`; each statement may be executed,
refused, or lost with the connection before or after the server executed it.
`size` is `IngestBatchSize`, which the statement keeps from ingest to ingest.
`saved` is what a ROLLBACK brings back: DDL overwrites it, the TEMPORARY forms
do not, and DDL that is refused may or may not have committed. With autocommit
off a statement that fails may also take the transaction with it
(`TransactionAborted`: a deadlock or a lock timeout, error_inspector.go:68, or a
failed commit), and with it the rows earlier ingests left uncommitted.
`ExistingRowsKept` therefore names two things that are kept: what was committed
to a permanent table when the ingest started, at every step and also when the
connection is lost, and, while it works, every row of either table unless the
server rolled back. Rows are numbered by ingest and position, so that "a prefix
of the stream" can be said. `before`, `committed`, `open` and `undone` are
history: the tables when the ingest started, what a ROLLBACK would have left of
them, the rows of the transaction that no DDL has committed, and those whose
Rollback was acknowledged. The model is about one statement of the application
at a time; what a connection does between statements is `Session`.

### Statement

Database, connection and statements, each with a zero datetime behaviour that is
copied when the next object is made; the query and prepared flag of the driver
beside the query (`base`) and the server's prepared statement (`server`) of
`sqlwrapper`. A stream keeps the behaviour of its statement at execution.

### GetObjects, Statistics, TableSchema

A call over a small information_schema (`world`), which other sessions change
between its queries. The queries are joins and filters of `world`, ordered as
their ORDER BY says; the loops over the rows are actions, one per row. In
`GetObjects` names are numbers and the collation a weight, so that names can
differ and tie. `TableSchema` follows a column from its declaration along two
ways: what information_schema shows of it (GetTableSchema, GetObjects) and what
the client library says of a result set, where a VECTOR may come without its
width (`WidthlessColumn`); it also creates the columns an ingest would.

### Algorithms

`Placeholders`, `TypeValues`, `ColumnValues`, `ConnectionStrings` and
`ErrorInspector` run one input through the code, a loop iteration or a
conversion per step, from every input within the bounds; the invariants compare
the outcome with a definition of what it should be that is written differently
(tokens instead of a state machine, the declared values, the value before the
round trip). A date arrives as text or, with `parseTime=true`, as a `time.Time`
(`HandedOver`); a string that `url.Parse` or `ParseDSN` refuses is a form of its
own. The tokens of a query are the least set that cuts it: 1 is the start of
one, and so is what follows the end of one (`CutSets`).

### Metadata and MCStatement

Both put modules side by side that share a connection and not their state. A
behaviour is one metadata call (`which`), or one part of the life of a statement
(`part`), chosen by the initial state; the variables of the others stay `None`.
Calls of one connection do not overlap, and nothing of a metadata call, a parsed
text or a converted value is kept for the next, so that a sequence of them shows
no more than each of them alone. In `Metadata` the calls share the schema, the
program counter and the rows of the open query.

## Runs

| Run | Instance | Shows |
|---|---|---|
| `objects` | 2 threads, 1 database, 2 connections, 1 statement, 1 stream, 4 handles, no options | `HandlesOwned`, `OpenedObjectsClosed`, `NoUseAfterRelease`, `PoisonStopsObjects`, `PoisonFreezes`, `ImplementsLifecycle` |
| `options` | 1 thread, 1 database, 1 connection, 2 keys, a string and a typed value, 2 handles | `OptionsDelivered` |
| `cancellation` | 3 threads, 4 contexts | `TypeOK`, `StatementCancelHonest`, `StatementCancelNotDenied`, `ExecutionsUndisturbed` |
| `errors` | 2 structs, 1 stream, 6 blocks, up to 2 details | `ErrorMemoryExact`, `StreamErrorCurrent` |
| `session` | 2 rows, a database, every call | `WireDiscipline`, `IsolationReported`, `ModesAgree`, `Promises`, `EveryCallReturns`, `ImplementsTransactions` |
| `bulk_ingest` | 2 ingests of up to 4 rows, 0 to 7 columns, 6 placeholders | `PlaceholderLimit`, `ExistingRowsKept`, `NoGap`, `IngestLands`, `RollbackUndoes`, `EveryIngestEnds` |
| `metadata`: GetStatistics | 2 catalogs, 3 tables, a view, 2 indexes on a column | `NoPanic`, `StatisticsExact`, `CallReturns` |
| `metadata`: GetObjects | 2 catalogs, 3 tables, 4 constraints, every depth, each filter alone and all together | `ObjectsExact`, `ConstraintsExact`, `CallReturns` |
| `metadata`: GetTableSchema | a column of every type beside a JSON column, one for every Arrow type | `SchemasAgree`, `JsonExact`, `IngestTypesKept`, `CallReturns` |
| `metadata`: ENUM and SET | up to 2 values of up to 2 of 7 characters, 5 ways to write them | `ValuesExact`, `CallReturns` |
| `statement`: statements | 2 statements, 2 queries | `ParametersOfPrepared`, `StreamsAsChosen` |
| `statement`: queries | all queries of up to 5 of 11 characters | `CountExact` |
| `statement`: values | TIME at its limits, vectors with and without width, geometries, dates as text and `time.Time` | `ValuesSurvive` |
| `statement`: connection strings | 11 forms, credentials, up to 2 parameters | `SettingsKept` |
| `statement`: errors | every number and class of the switches | `NumberDecides` |
| `poison` | 1 thread | finding: streams ignore the poison flag |
| `connection_cancel` | 1 thread | finding: ConnectionCancel never answers INVALID_STATE |
| `connection_get_option` | 2 threads | finding: GetOption takes over the context of the call in progress |
| `error_private_data` | 1 struct | finding: `private_data` is NULL on an error without details |

Bounds. `MaxHandles` = 4 lets a database, a connection, a statement and a
stream exist together, or two connections beside one of the others, or a struct
be released and allocated again; two threads are enough for every pair of
overlapping calls, which is all the rules of `adbc.h` speak about. Options and
objects do not interact except through `initialized`, so `options` has no
statements and one thread. Four contexts give two
executions around two other calls, and three threads a Cancel whose halves lie
on both sides of the end of one execution and the start of the next. Six blocks
hold any two errors with details, the stream's among them, beside a plain one
(malloc does not fail in the model: a step that finds no free block is not
taken). The theorems remove all of these bounds; in them
`MaxHandles`, `MaxContexts` and `MaxDetails` are any natural numbers.

Two rows in `session` are one that was committed or rolled back and one in the
open transaction. Of the isolation levels TLC tries the default, two of the four
the server knows and one the driver refuses (`Levels`); the theorem is about all
of them. `bulk_ingest` scales 65535 placeholders down to 6: 4 columns
allow one row per INSERT, 2 columns three, 7 none, and batch sizes 0, 1 and 5
are the default, the smallest and one that must be cut; two ingests are needed
for a batch size, a table or a transaction left by the first to matter to the
second. The proofs remove these bounds. Two queries of a call and one change
between them are all GetObjects, GetStatistics and GetTableSchema can see; two
catalogs with a table of the same name are what their maps and comparisons must
tell apart. Every state of `countPlaceholders` is entered and left within three
characters, so five hold two of them beside a question mark; a value of two
characters holds every pair of special characters, and the second value shows
where the first ended. `ColumnValues` scales microseconds to three digits and
838 hours to 100, which keeps the arithmetic of units and of the limit, and has
vectors of one and two elements (`MaxDimension`); its theorem is about any
digits, hours and dimension.

Fairness. `Session` assumes that the driver goes on with a call in progress (a
goroutine that can run does) and that a server that is reached answers or
refuses: `EveryCallReturns` says that no state of the connection, lost ones
included, makes a call wait for something that cannot come. Nothing is assumed
of the application or the network. `BulkIngest` and `Metadata` assume that the
call in progress goes on (`Ingesting`, `Goes`): `EveryIngestEnds` is about a
batch size that would make no progress, `CallReturns` about the channel that is
filled before anyone reads it and about a parser that must go forward on every
declaration. The other properties need no fairness.

Deadlock is checked in the models of objects, cancellation, errors, sessions and
ingests, where a call is always possible. In `metadata` and `statement` a
behaviour ends with its call or its input, and they say CHECK_DEADLOCK FALSE.

Every property of a passing run has a mutant: a definition changed the way a
plausible bug would, kept beside the original and marked as such, under which
TLC finds the property violated.

## Findings

The four violation runs are disagreements between the code and a comment or the
API header; `PROJECT.json` quotes both sides.

1. `PoisonStopsEveryCall`: a stream exported before a panic can be read after
   it, against the comment of `globalPoison` (driver.go:84).
2. `ConnectionCancelHonest`: `AdbcConnectionCancel` returns OK with nothing to
   cancel (driver.go:1096, adbc.h:1489).
3. `ConnectionCallsUndisturbed`: `AdbcConnectionGetOption`, which may overlap
   any call, replaces the context of that call (driver.go:822). Statements
   avoid this with `executionContext`, and `ExecutionsUndisturbed` holds.
4. `PrivateDataSet`: adbc.h:308 ties a non-NULL `private_data` to a set error;
   `setErr` and `fmtErr` leave it NULL (driver.go:110).

### Limits of what the passing runs say

Modelling the Go driver showed cases in which its code does not do what its
comments or documentation suggest, as far as the server, Arrow and the protocol
library are described rightly here. No violation run states them. Most are left
out of the passing runs, by `IsWorld`, by the constants, and in the theorems by
`CharactersOK`, `ValuesOK`, `SlicesOK` and `Colons = FALSE`, and the table says
which change makes TLC show them; the others are in the models, and the table says
what they do there.

| Case | Where | In the model |
|---|---|---|
| Names of catalogs or tables that tie under the collation of information_schema come interleaved, and are listed more than once | connection_getobjects.go:172 | `CaseInsensitive = TRUE`, and no ties ruled out in `IsWorld` of `GetObjects`, violates `ObjectsExact` |
| Two constraints of one table and one name, a CHECK and a key or a UNIQUE and a FOREIGN KEY, become one | connection_getobjects.go:327 | a foreign key of `ObjectsKeys` with name 10, admitted by `KeyOK`, violates `ConstraintsExact` |
| The check constraint of another table with the same constraint name makes a LONGTEXT column JSON | connection.go:193 | `Checks("u", "j")` in `MCSchemaWorlds`, admitted by `IsWorld` of `TableSchema`, violates `JsonExact` |
| An escaped newline, carriage return or NUL in an ENUM declaration is read as n, r or 0 | connection.go:356 | "newline", "return" or "nul" in the `Alphabet` of `MCMetadata.cfg` violates `ValuesExact` |
| A VECTOR whose width the result omits is binary in the result and a list of floats for GetTableSchema (go/docs/mariadb.md:116, README.md:67) | mariadb.go:188 | `SchemasAgree` asks for binary there, and for agreement only where the result has the width |
| With `parseTime=true` in the connection string a zero date arrives as `time.Time` and is taken for the date the client library made of it, neither refused nor NULL | mariadb.go:605 | `ValuesSurvive` says of these only that the other date is what is bound |
| With autocommit off a deadlock or lock timeout in an ingest removes the uncommitted rows of ingests before it | error_inspector.go:68 | `ExistingRowsKept` keeps the committed ones then |
| A carriage return ends a line comment for the driver and not for the server | mariadb.go:900 | "return" in the `Alphabet` of `MCStatement.cfg` violates `CountExact` |
| The offset of a sliced list array is ignored when a vector is bound | mariadb.go:677 | `Offsets = {0, 1}` violates `ValuesSurvive` |
| An encoded colon in the user name of a URI ends the name once the DSN is parsed again | db_factory.go:197 | `Colons = TRUE` violates `SettingsKept` |
| Mode create beside a temporary table of the same name creates the permanent table and fills the temporary one | connection.go:513 | `IngestLands` without `OtherTableMeant` |
| DROP or CREATE TABLE of an ingest commits the rows of ingests before it, and Rollback does not undo those | connection.go:513 | `RollbackUndoes` without clearing `open` in `ExecuteBulkIngest` |
| The parameters of an executable comment, `/*! ? */`, are not counted | mariadb.go:877 | the lexer of `Placeholders` has no executable comments |
| A session without a database: `Scan` fails on NULL before the branch written for that case | connection.go:46 | `Receive` of `Session` returns an error then |
| Every failure of the second query of GetTableSchema is ignored, a lost connection too | connection.go:190 | `Failure` of `Session`, `QueryChecks` of `TableSchema` |

The models also take things as given that the server or the connection string
can change. `Placeholders` is about the default `sql_mode`: with
`NO_BACKSLASH_ESCAPES` a backslash in a text, and with `ANSI_QUOTES` a double
quote, mean something else to the server, and `countPlaceholders` does not ask;
the same holds for multibyte character sets in which a backslash or a quote can
be the second byte of a character. `TypeValues` knows the escapes listed above
and no others. `ConnectionStrings` takes strings apart that are already split,
so that which texts are malformed is not modelled.

## Proofs

All theorems are of the form `Spec => []P`, `Spec => [][A]_vars` or `Spec =>
AbstractSpec` and hold for every value of the constants that satisfies the
assumptions named in the modules (`ConstantsAssumption`: the sets of structs are
disjoint and do not contain `Null`; `CancellationAssumption`;
`ErrorsAssumption`; `GlobalIsolationAssumption`: the server's default is one of
its four levels; `IngestAssumption`: limits and sizes are numbers;
`StatisticsAssumption`, `ObjectsAssumption`, `SchemaAssumption`: the shape of
information_schema; `TypeConversionAssumption`: milliseconds have fewer digits
than microseconds; `LengthAssumption` and `ValuesAssumption`: bounds and the
parts of a TIME are numbers, digits are digits). Five theorems assume more in
their own statement: `SettingsAlwaysKept` that no user name holds a colon,
`CountAlwaysExact` that no query holds a carriage return (`CharactersOK`),
`ValuesAlwaysExact` that no ENUM value holds a newline, a carriage return or NUL
(`ValuesOK`; "end", the model's mark behind the last character, is not a
character either), and `ValuesAlwaysSurvive` that a list array bound as a
parameter starts at its first list (`SlicesOK`), all four because the driver
goes wrong otherwise, see the table above; and `NumberAlwaysDecides` that no
caller passes a default that a SQLSTATE class could replace (`DefaultsOK`; the
driver wraps every error it gets with IO).

What `IsWorld` of `GetObjects` asks of a schema is that the names of catalogs,
of the tables of one catalog and of the constraints of one table do not tie
under the collation; columns, their order and the kinds and sizes of
constraints are free, and another session may replace the schema between any
two queries.

* **AdbcDriverProofs.** `TypeOK` is inductive by itself. `HandlesOwned`,
  `NoUseAfterRelease` and `OpenedObjectsClosed` are proved together: `ObjInv`
  adds which calls are in flight on which kind of struct (`CallShape`), which
  calls exclude each other (`Exclusion`: the threading rules as facts between
  calls in flight, not just at entry), that unreached handles are unused
  (`Fresh`) and that streams with a handle have a reader. Without `Exclusion` a
  Release could meet an Init on the same struct. Every action is first shown to
  be one of a few shapes of step (an entry, an allocation, a release, a
  return), and each shape preserves the invariant. The poison theorems follow
  from `CallShape` (only stream calls are ever `late`); `OptionsDelivered` needs
  `OptInv`, which relates `buffered`, `asked` and `delivered` before Init.
  `ImplementsLifecycle` takes no further invariant: under `ObjInv` the state of
  an object is told by the counter, by who holds its handle and by `initialized`
  (`StatesTold`), what a call works on by its operation (`WorkingTold`), and
  each shape of a step is one action of `ObjectLifecycle` or changes nothing it
  sees. That nobody works on an object whose struct no call uses
  (`QuiescentUnused`) is what the Releases and Inits need.
* **CancellationProofs.** The invariant says that `executionContext` holds the
  context of the one running execution until a Cancel takes it (`ExecHeld`),
  that no other holder has it (`Separate`), that contexts are fresh, and what a
  Cancel between its halves knows (`CancelsInFlight`).
* **AdbcErrorsProofs.** `Good` says that the release callback of a struct
  matches what it holds, `Accounted` that the heap is the disjoint union of what
  the structs own, `PhaseShape` when a struct owns nothing: the branch of
  `setErrWithDetails` that overwrites without releasing is only safe because of
  it. `Holds` and `Stored` carry this through the nested functions.

* **AdbcTransactionsProofs.** `Promises` is about the rows kept and gone; what
  makes it inductive is what is known of the open transaction in every phase of
  a request (`OpenInv`): acknowledged writes are tentative until a request is
  performed, a performed COMMIT has made them durable, a performed ROLLBACK has
  removed them, and a refusal that may have aborted leaves them open. `ModeInv`
  ties the application's mode to the session's up to a change that is performed
  and not acknowledged, `LinkInv` says what survives the connection, `RowInv`
  that every row is in one place.
* **SessionProofs.** The invariant says which commands a call has left and with
  which argument (`Shape`), that a command in flight on a working connection is
  that of the waiting call and that no old reply can be taken for its reply
  (`SentInv`), that what was checked when the call was made still holds when it
  sends (`CheckedInv`), and what the isolation level is up to a change that is
  executed and not acknowledged. With it every action is shown to be a step of
  `AdbcTransactions` or to leave its variables alone, which proves
  `ImplementsTransactions`; `Promises` and `ModesAgree` then follow from the
  invariant of the abstract specification.
* **BulkIngestProofs.** The properties speak of the tables or of the end of an
  ingest. `Begun` says what is fixed once an ingest has begun, `SentLanded` that
  the rows sent are in the table INSERT means, `ProgressOf` what the statements
  so far have made of the table, and `Orderly` is also claimed of the tables a
  ROLLBACK would bring back. `ExistingRowsKept` rests on what a ROLLBACK would
  bring back (`KInv`), for that is also what an abort or a lost connection
  leaves: it holds what was committed when the ingest started (`StillCommitted`)
  and nothing that cannot be seen (`SavedSeen`). The placeholder limit needs no
  bound on columns or sizes: it follows from integer division. `RollbackUndoes`
  is about rows that have left the tables; what makes it inductive (`RInv`) is
  that the rows of an ingest have numbers no other ingest has used (`Numbered`),
  and that the rows still open, the rows undone and the rows a ROLLBACK would
  bring back are kept apart (`Apart`), at every step of an ingest that is
  refused or lost.
* **MetadataProofs.** One invariant per call, joined in `MetadataInv`.
  *GetStatistics*: `Known` and `Collected` say of the rows read so far what
  `StatisticsExact` says at the end, and `Skipped` rows are why no map is
  missing (`NoPanic`). *GetTableSchema* (`SchemaInv`): the columns are those of
  the first query, `jsonColumns` is what the constraints said when the second
  was answered, and the fields are converted from both; `SchemasAgree` and
  `IngestTypesKept` are then facts about the conversions alone, one lemma per
  kind of type. *GetObjects* (`ObjectsInv`): the rows read come before the rows
  still to read, and the lists say what the rows read say: every catalog, table
  and column once and in order (`Grouped`), and of every listed table the
  constraints with their columns by position (`KeysListed`). The code compares
  a row with its neighbour only. That this is enough rests on three facts: the
  order puts the rows of one table, and of one constraint, side by side
  (`KeyBetween`); the table and the constraint the loop remembers are the last
  ones in the lists (`LastOf`, `CurrentRead`); and a row with the same name as
  the last one but of another catalog or table is told apart (the rows of
  constraints are found in a list that was made from an older schema, so they
  may also name tables it does not have: `KeySkipped`). *Values of an ENUM or
  SET* (`ValuesInv`): the text the server builds by recursion is described by
  the places where its values open and close, shown to exist by a least
  counterexample instead of induction (`UptoExists`, `FlattenPlaced`,
  `ListRendered`), and the parser is at one of these places with the values
  before it read (`Reading`). A doubled quote inside a value is told from the
  quote that ends it by what can follow each (`SeenUnit`, `SeenClose`,
  `SeenEnd`). Values may be of any number and length.
* **StatementProofs.** `CopiesAgree`: the driver's copy of the query is
  `sqlwrapper`'s, and a prepared statement was prepared from it. *Connection
  strings*: FormatDSN lists a map in any order and ParseDSN takes the last of a
  name; a list made from a map has every name once, so it counts whatever stands
  before it (`Once`, `AppendedCounts`), and from the step that builds the DSN
  on it carries what is expected (`Carries`, `InUTC`). *Errors*: a known number
  has decided once it was looked up (`ErrorInv`). *Placeholders*: the loop is
  between two tokens (`Boundary`) or inside the one that started at the last
  boundary and not past its end, and the parameters before that boundary are
  counted (`CountInv`). Inside a text the number of backslashes just before the
  loop is even (`Run`): the loop skips pairs, the reference counts them.
  `NextBoundary` says that the end of a token is where the next one starts,
  from the definition of the tokens as a least set; no recursion is involved,
  so the theorem is about queries of every length. *Values* (`ValueInv`): what
  was read stands for what was sent, refusals aside (`AppendedRight`), and each
  kind of value comes back from it. For a TIME this is arithmetic: the digits of
  a fraction of `p` digits are a multiple of every unit of at least `p` digits
  (`ZerosAtEnd`), so the unit the converter chooses for the column divides the
  value and the Arrow count is exact (`UnitDivides`, `UnitWhole`); hours,
  minutes, seconds and the digits are found again in the count (`TicksTaken`,
  `DigitsOfNumber`), and the sign but for zero. The recursions over digits and
  powers are again followed by a least counterexample (`StepByStep`).

Only model-checked: the liveness properties (`EveryCallReturns`,
`EveryIngestEnds`, `CallReturns`), since the prover does not handle fairness.
Every other property of a passing run is also a theorem. The type
invariants of `AdbcDriver`, `AdbcErrors`, `Session`, `BulkIngest` and the
metadata calls are theorems only. The findings are counterexamples.

## Not modelled

* **AdbcPartitions**: no statement of this driver returns partitions, so the code
  that fills and releases the struct cannot be reached.
* **Logging** from the environment: no state depends on it.
* **The validation suite**, CI, packaging: test code that needs a server.
* The forwarding functions of `utils.c`, the Arrow memory layout, batches and
  schemas inside exported streams, metadata texts, and conversions that only
  hand a value to the default converter.
* StatementCancel while an exported stream is read: the part that would act,
  `StatementCanceler`, is outside the repository.
* A server whose new sessions start with autocommit off: the driver never asks,
  and `Session` starts in the server's default.

## Plan

Done: the C ABI (`AdbcDriver`, `Cancellation`, `AdbcErrors`) with the abstract
life cycle of its objects, the session with its abstract specification, both
refinements, ingests, statements, metadata and the algorithms, and the proofs of
all safety properties. What would add most next is an abstract error struct
(`empty`, `set`, with one owner of its memory) that `AdbcErrors` implements, and
streams whose batches, schema and status are part of their state.
