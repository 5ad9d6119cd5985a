------------------------------ MODULE Statement ------------------------------
(***************************************************************************)
(* Statements of one connection (mariadb.go): the query and the prepared   *)
(* flag the driver keeps beside sqlwrapper's statement, and the zero       *)
(* datetime behaviour that database, connection and statement each have:   *)
(* copied downwards when an object is made, and read by the converter of a *)
(* stream when the query is executed.                                      *)
(***************************************************************************)
EXTENDS Naturals

CONSTANTS
  Statements,   (* statement objects                                        *)
  Queries,      (* query texts                                              *)
  None

Behaviours == {"error", "convert_to_null"}
Values     == Behaviours \cup {"invalid"}      (* of the option *)

VARIABLES
  db,         (* mariadbDatabase.zeroDatetimeBehavior                       *)
  conn,       (* mariadbConnectionImpl.zeroDatetimeBehavior, None: no conn  *)
  stmt,       (* every statement: mariadbStatement and sqlwrapper's part    *)
  stream,     (* the converter of every statement's last result             *)
  chosen,     (* history: the behaviour the application chose for each      *)
  schema      (* history: what GetParameterSchema counted                   *)

vars == <<db, conn, stmt, stream, chosen, schema>>

(* base and server are sqlwrapper's: the query it holds and the query its  *)
(* prepared statement was made from.                                       *)
Closed == [zero |-> None, query |-> None, prepared |-> FALSE, base |-> None, server |-> None]

NoSchema == [counted |-> None, server |-> None]

(* Mutant: a value that is not known is taken for the default.             *)
parseLenient(value, old) == IF value \in Behaviours THEN value ELSE "error"

(* parseZeroDatetimeBehavior; an error leaves the option as it was.        *)
parseZeroDatetimeBehavior(value, old) == IF value \in Behaviours THEN value ELSE old

-----------------------------------------------------------------------------
DatabaseSetOption(value) ==
  /\ db' = parseZeroDatetimeBehavior(value, db)
  /\ UNCHANGED <<conn, stmt, stream, chosen, schema>>

CreateConnection ==
  /\ conn = None
  /\ conn' = db
  /\ UNCHANGED <<db, stmt, stream, chosen, schema>>

ConnectionSetOption(value) ==
  /\ conn # None
  /\ conn' = parseZeroDatetimeBehavior(value, conn)
  /\ UNCHANGED <<db, stmt, stream, chosen, schema>>

(* NewStatement: CreateStatement copies the behaviour, then it is set once *)
(* more as an option; if that fails the statement is closed.               *)
NewStatement(s) ==
  /\ conn # None /\ stmt[s] = Closed
  /\ stmt' = [stmt EXCEPT ![s].zero = parseZeroDatetimeBehavior(conn, conn)]
  /\ chosen' = [chosen EXCEPT ![s] = conn]
  /\ UNCHANGED <<db, conn, stream, schema>>

Opened(s) == stmt[s].zero # None

StatementSetOption(s, value) ==
  /\ Opened(s)
  /\ stmt' = [stmt EXCEPT ![s].zero = parseZeroDatetimeBehavior(value, @)]
  /\ chosen' = [chosen EXCEPT ![s] = IF value \in Behaviours THEN value ELSE @]
  /\ UNCHANGED <<db, conn, stream, schema>>

(* Mutant: the prepared flag survives a new query.                         *)
SetSqlQueryKeepsPrepared(s, q) ==
  /\ Opened(s)
  /\ stmt' = [stmt EXCEPT ![s].query = q, ![s].base = q, ![s].server = None]
  /\ UNCHANGED <<db, conn, stream, chosen, schema>>

(* sqlwrapper forgets what it had prepared, or refuses the query and       *)
(* changes nothing.                                                        *)
SetSqlQuery(s, q) ==
  /\ Opened(s)
  /\ stmt' = [stmt EXCEPT ![s].query = q, ![s].prepared = FALSE,
                          ![s].base = q, ![s].server = None]
  /\ UNCHANGED <<db, conn, stream, chosen, schema>>

(* Prepare: sqlwrapper prepares its query on the server, or fails, with    *)
(* nothing prepared.                                                       *)
Prepare(s) ==
  /\ Opened(s)
  /\ \/ /\ stmt[s].base # None
        /\ stmt' = [stmt EXCEPT ![s].prepared = TRUE, ![s].server = stmt[s].base]
     \/ stmt' = [stmt EXCEPT ![s].prepared = FALSE, ![s].server = None]
  /\ UNCHANGED <<db, conn, stream, chosen, schema>>

(* GetParameterSchema counts the placeholders of the driver's own copy.    *)
GetParameterSchema(s) ==
  /\ Opened(s)
  /\ schema' = IF stmt[s].prepared THEN [counted |-> stmt[s].query, server |-> stmt[s].server]
                                   ELSE NoSchema          (* INVALID_STATE *)
  /\ UNCHANGED <<db, conn, stmt, stream, chosen>>

(* ExecuteQuery: the stream keeps the converter MakeTypeConverter returns. *)
ExecuteQuery(s) ==
  /\ Opened(s) /\ stmt[s].base # None
  /\ stream' = [stream EXCEPT ![s] = [zero |-> stmt[s].zero, asked |-> chosen[s]]]
  /\ UNCHANGED <<db, conn, stmt, chosen, schema>>

Close(s) ==
  /\ Opened(s)
  /\ stmt' = [stmt EXCEPT ![s] = Closed]
  /\ chosen' = [chosen EXCEPT ![s] = None]
  /\ UNCHANGED <<db, conn, stream, schema>>

-----------------------------------------------------------------------------
Init ==
  /\ db = "error"
  /\ conn = None
  /\ stmt = [s \in Statements |-> Closed]
  /\ stream = [s \in Statements |-> None]
  /\ chosen = [s \in Statements |-> None]
  /\ schema = NoSchema

Next ==
  \/ CreateConnection
  \/ \E v \in Values : DatabaseSetOption(v) \/ ConnectionSetOption(v)
  \/ \E s \in Statements :
       \/ NewStatement(s) \/ Prepare(s) \/ GetParameterSchema(s) \/ ExecuteQuery(s) \/ Close(s)
       \/ \E v \in Values : StatementSetOption(s, v)
       \/ \E q \in Queries : SetSqlQuery(s, q)

Spec == Init /\ [][Next]_vars

-----------------------------------------------------------------------------
(* The parameters reported are those of the query the server has prepared, *)
(* never of one set before or after it.                                    *)
ParametersOfPrepared == schema.counted = schema.server

(* A statement converts zero dates as the application chose for it: its    *)
(* own valid option, else what its connection had when it was made; later  *)
(* changes of the database, the connection, or refused values reach        *)
(* neither the statement nor an open stream.                               *)
StreamsAsChosen ==
  \A s \in Statements :
    /\ stmt[s].zero = chosen[s]
    /\ stream[s] # None => stream[s].zero = stream[s].asked
=============================================================================
