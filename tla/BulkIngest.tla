------------------------------ MODULE BulkIngest ------------------------------
(***************************************************************************)
(* ExecuteBulkIngest (connection.go) on one connection and one table name: *)
(* validation, DROP and CREATE as the ingest mode asks, the batch size,    *)
(* and one INSERT per batch.  The name may stand for a permanent table, a  *)
(* temporary table, or both; the temporary one then hides the other.       *)
(*                                                                         *)
(* Any statement may be refused, or be lost with the connection before or  *)
(* after the server executed it.  DROP TABLE and CREATE TABLE commit the   *)
(* open transaction even if they are refused, their TEMPORARY forms do     *)
(* not.  With autocommit off, a statement that fails may also have rolled  *)
(* back the whole transaction.                                             *)
(***************************************************************************)
EXTENDS Integers, FiniteSets

CONSTANTS
  MaxPlaceholders,   (* MariaDBMaxPlaceholders                              *)
  DefaultBatchSize,  (* MariaDBDefaultIngestBatchSize                       *)
  Columns,           (* the numbers of columns of the schemas ingested      *)
  BatchSizes,        (* the values of the batch size option                 *)
  MaxRows,           (* bound on the rows of a stream                       *)
  MaxIngests         (* bound on the ingests of a behaviour                 *)

ASSUME IngestAssumption ==
  /\ MaxPlaceholders \in Nat \ {0} /\ DefaultBatchSize \in Nat \ {0}
  /\ Columns \subseteq Nat /\ BatchSizes \subseteq Nat
  /\ MaxRows \in Nat \ {0} /\ MaxIngests \in Nat

VARIABLES
  tables,       (* the tables as the session sees them                      *)
  saved,        (* the tables as ROLLBACK would leave them                  *)
  autocommit,   (* the session's mode                                       *)
  connected,    (* the connection still works                               *)
  size,         (* options.IngestBatchSize, kept by the statement           *)
  ingest,       (* the ingest in progress                                   *)
  ingests,      (* the number of ingests started                            *)
  before,       (* history: the tables when the ingest started              *)
  committed,    (* history: what ROLLBACK would have left of them           *)
  open,         (* history: rows of the open transaction no DDL committed   *)
  undone,       (* history: rows whose Rollback was acknowledged            *)
  answer        (* history: how the last ingest ended                       *)

vars == <<tables, saved, autocommit, connected, size, ingest, ingests, before, committed,
          open, undone, answer>>

Modes == {"create", "create_append", "replace", "append"}

Absent     == [exists |-> FALSE, rows |-> {}]
Empty      == [exists |-> TRUE, rows |-> {}]
NoIngest   == [pc |-> "idle", mode |-> "none", temporary |-> FALSE, cols |-> 0,
               rows |-> 0, base |-> 0, sent |-> 0]
NoAnswer   == [status |-> "none", mode |-> "none", temporary |-> FALSE, rows |-> {},
               aborted |-> FALSE]

Kind(temporary) == IF temporary THEN "temp" ELSE "perm"

(* The table a statement without TEMPORARY means.                          *)
Visible(t) == IF t.temp.exists THEN "temp" ELSE "perm"

(* The rows of the ingest are base + 1 .. base + rows, in stream order.    *)
Sent(i) == i.base + 1 .. i.base + i.sent

-----------------------------------------------------------------------------
(* MariaDB, external: a statement is a function of the tables, or refused. *)

DropEffect(t, temporary) == [t EXCEPT ![IF temporary THEN "temp" ELSE Visible(t)] = Absent]

CreateEffect(t, temporary) == [t EXCEPT ![Kind(temporary)] = IF @.exists THEN @ ELSE Empty]

InsertEffect(t, rows) == [t EXCEPT ![Visible(t)].rows = @ \cup rows]

(* Statements that are never executed: CREATE of a table that exists,      *)
(* INSERT into one that does not, INSERT with too many placeholders.       *)
CreateAllowed(t, temporary, ifNotExists) == ifNotExists \/ ~t[Kind(temporary)].exists
InsertAllowed(t, n, cols) == t[Visible(t)].exists /\ n * cols <= MaxPlaceholders

(* DDL commits; that of a temporary table changes it for good and nothing  *)
(* else.                                                                   *)
DDL(effect, temporary) ==
  /\ tables' = effect
  /\ saved' = CASE ~temporary                   -> effect
                [] temporary /\ effect # tables -> [saved EXCEPT !.temp = effect.temp]
                [] temporary /\ effect = tables -> saved

DML(effect) ==
  /\ tables' = effect
  /\ saved' = IF autocommit THEN effect ELSE saved

-----------------------------------------------------------------------------
(* The ingest ends; aborted: the server rolled the transaction back.       *)
Returns(status, aborted) ==
  /\ ingest' = NoIngest
  /\ answer' = [status |-> status, mode |-> ingest.mode, temporary |-> ingest.temporary,
                rows |-> Sent(ingest), aborted |-> aborted]

(* Mutant: the number of columns is not compared with the limit.           *)
ValidOptionsUnbounded(cols) == cols > 0

ValidOptions(cols) == cols > 0 /\ cols <= MaxPlaceholders

(* Mutant: a create drops the table first, like a replace.                 *)
FirstStepDrops(mode) == IF mode = "append" THEN "size" ELSE "drop"

(* Mutant: an append makes sure of the table first.                        *)
FirstStepCreates(mode) == IF mode = "replace" THEN "drop" ELSE "create"

(* createTableIfNeeded: the statement the mode starts with.                *)
FirstStep(mode) ==
  CASE mode = "replace" -> "drop"
    [] mode \in {"create", "create_append"} -> "create"
    [] mode = "append" -> "size"

(* ExecuteBulkIngest up to its first statement.  maxQuerySize: the option  *)
(* MaxQuerySizeBytes is set, which the driver refuses; so it does a mode   *)
(* it does not know, as an error of creating the table.                    *)
Refusal(cols, maxQuerySize) ==
  IF maxQuerySize \/ ~ValidOptions(cols) THEN "INVALID_ARGUMENT" ELSE "IO"

ExecuteBulkIngest(mode, temporary, cols, rows, maxQuerySize) ==
  /\ ingest.pc = "idle" /\ connected /\ ingests < MaxIngests
  /\ ingests' = ingests + 1
  /\ before' = tables /\ committed' = saved
  /\ open' = IF mode = "append" \/ temporary THEN open ELSE {}
  /\ IF maxQuerySize \/ ~ValidOptions(cols) \/ mode \notin Modes
       THEN /\ answer' = [status |-> Refusal(cols, maxQuerySize), mode |-> mode,
                          temporary |-> temporary, rows |-> {}, aborted |-> FALSE]
            /\ UNCHANGED ingest
       ELSE /\ ingest' = [pc |-> FirstStep(mode), mode |-> mode, temporary |-> temporary,
                          cols |-> cols, rows |-> rows, base |-> ingests * MaxRows,
                          sent |-> 0]
            /\ answer' = NoAnswer
  /\ UNCHANGED <<tables, saved, autocommit, connected, size, undone>>

(* A statement is executed, or refused, which ends the ingest.             *)
Goes(pc) ==
  /\ ingest' = [ingest EXCEPT !.pc = pc]
  /\ UNCHANGED <<autocommit, connected, size, ingests, before, committed, open, undone, answer>>

Commits == ingest.pc \in {"drop", "create"} /\ ~ingest.temporary

Refused ==
  /\ Returns("IO", FALSE)
  /\ \/ UNCHANGED saved
     \/ Commits /\ saved' = tables
  /\ UNCHANGED <<tables, autocommit, connected, size, ingests, before, committed, open, undone>>

dropTable ==
  /\ ingest.pc = "drop"
  /\ DDL(DropEffect(tables, ingest.temporary), ingest.temporary)
  /\ Goes("create")

(* Mutant: CREATE TABLE IF NOT EXISTS whatever the mode.                   *)
ifNotExistsAlways(mode) == TRUE

ifNotExists(mode) == mode = "create_append"

CreateAccepted == CreateAllowed(tables, ingest.temporary, ifNotExists(ingest.mode))

createTable ==
  /\ ingest.pc = "create"
  /\ \/ /\ CreateAccepted
        /\ DDL(CreateEffect(tables, ingest.temporary), ingest.temporary)
        /\ Goes("size")
     \/ ~CreateAccepted /\ Refused

Least(a, b) == IF a <= b THEN a ELSE b

(* Mutant: only the default is capped.                                     *)
BatchSizeUncapped(asked, cols) ==
  IF asked = 0 THEN Least(DefaultBatchSize, MaxPlaceholders \div cols) ELSE asked

BatchSize(asked, cols) ==
  LET maxBatchSize == MaxPlaceholders \div cols
  IN  IF asked = 0 THEN Least(DefaultBatchSize, maxBatchSize) ELSE Least(asked, maxBatchSize)

(* The batch size replaces the option in place: the next ingest of the     *)
(* statement starts from it.                                               *)
capBatchSize ==
  /\ ingest.pc = "size"
  /\ size' = BatchSize(size, ingest.cols)
  /\ ingest' = [ingest EXCEPT !.pc = "batch"]
  /\ UNCHANGED <<tables, saved, autocommit, connected, ingests, before, committed, open, undone,
                 answer>>

(* sqlwrapper.ExecuteBatchedBulkIngest, external: INSERTs of size rows and *)
(* one for the rest.                                                       *)

BatchRows == Least(size, ingest.rows - ingest.sent)
AfterBatch == [ingest EXCEPT !.sent = @ + BatchRows]
InsertAccepted == InsertAllowed(tables, BatchRows, ingest.cols)
Inserted == InsertEffect(tables, Sent(AfterBatch) \ Sent(ingest))

(* Mutant: the error of a batch is ignored.                                *)
InsertBatchIgnored ==
  /\ ingest.pc = "batch" /\ ingest.sent < ingest.rows
  /\ ingest' = AfterBatch
  /\ DML(Inserted) \/ UNCHANGED <<tables, saved>>
  /\ UNCHANGED <<autocommit, connected, size, ingests, before, committed, open, undone, answer>>

InsertBatch ==
  /\ ingest.pc = "batch" /\ ingest.sent < ingest.rows
  /\ \/ /\ InsertAccepted
        /\ DML(Inserted)
        /\ ingest' = AfterBatch
        /\ UNCHANGED <<autocommit, connected, size, ingests, before, committed, open, undone,
                       answer>>
     \/ ~InsertAccepted /\ Refused

IngestDone ==
  /\ ingest.pc = "batch" /\ ingest.sent = ingest.rows
  /\ Returns("OK", FALSE)
  /\ open' = IF autocommit THEN {} ELSE open \cup Sent(ingest)
  /\ UNCHANGED <<tables, saved, autocommit, connected, size, ingests, before, committed, undone>>

(* A deadlock, a lock timeout or a failed commit: the server rolls back    *)
(* the open transaction, rows of earlier ingests included.  The statements *)
(* of temporary tables wait for nobody and commit nothing.                 *)
TransactionAborted ==
  /\ ~autocommit
  /\ Commits \/ ingest.pc = "batch"
  /\ Returns("IO", TRUE)
  /\ tables' = saved
  /\ open' = {}
  /\ UNCHANGED <<saved, autocommit, connected, size, ingests, before, committed, undone>>

(* The statement of the ingest fails for a reason of the server's, takes   *)
(* the transaction with it, or is lost with the connection, before it      *)
(* reached the server, when it only committed, or executed: the session    *)
(* then ends with what was durable and without its temporary tables.       *)
Executed ==
  CASE ingest.pc = "drop" /\ ~ingest.temporary -> DropEffect(tables, FALSE)
    [] ingest.pc = "create" /\ ~ingest.temporary /\ CreateAccepted -> CreateEffect(tables, FALSE)
    [] ingest.pc = "batch" /\ autocommit /\ InsertAccepted -> Inserted
    [] OTHER -> saved

StatementFails ==
  /\ ingest.pc \in {"drop", "create", "batch"}
  /\ ingest.pc = "batch" => ingest.sent < ingest.rows
  /\ \/ Refused
     \/ TransactionAborted
     \/ \E s \in {saved, Executed, IF Commits THEN tables ELSE saved} :
          /\ Returns("IO", FALSE)
          /\ connected' = FALSE
          /\ tables' = [s EXCEPT !.temp = Absent]
          /\ saved' = [s EXCEPT !.temp = Absent]
          /\ UNCHANGED <<autocommit, size, ingests, before, committed, open, undone>>

-----------------------------------------------------------------------------
(* The application between ingests.                                        *)

SetBatchSize(n) ==
  /\ ingest.pc = "idle"
  /\ size' = n
  /\ UNCHANGED <<tables, saved, autocommit, connected, ingest, ingests, before, committed, open,
                 undone, answer>>

SetAutocommit(on) ==
  /\ ingest.pc = "idle" /\ connected
  /\ autocommit' = on
  /\ saved' = IF on THEN tables ELSE saved
  /\ open' = IF on THEN {} ELSE open
  /\ UNCHANGED <<tables, connected, size, ingest, ingests, before, committed, undone, answer>>

(* Rollback returns to the tables of the last commit.                      *)
Rollback ==
  /\ ingest.pc = "idle" /\ connected /\ ~autocommit
  /\ tables' = saved
  /\ undone' = undone \cup open
  /\ open' = {}
  /\ answer' = NoAnswer
  /\ UNCHANGED <<saved, autocommit, connected, size, ingest, ingests, before, committed>>

-----------------------------------------------------------------------------
Init ==
  /\ tables \in [perm : {Absent, [exists |-> TRUE, rows |-> {0}]},
                 temp : {Absent, [exists |-> TRUE, rows |-> {-1}]}]
  /\ saved = tables
  /\ autocommit = TRUE
  /\ connected = TRUE
  /\ size = 0
  /\ ingest = NoIngest
  /\ ingests = 0
  /\ before = tables /\ committed = saved
  /\ open = {}
  /\ undone = {}
  /\ answer = NoAnswer

Ingesting == dropTable \/ createTable \/ capBatchSize \/ InsertBatch \/ IngestDone

Next ==
  \/ \E mode \in Modes \cup {"unknown"}, temporary, maxQuerySize \in BOOLEAN, cols \in Columns,
        rows \in 0 .. MaxRows : ExecuteBulkIngest(mode, temporary, cols, rows, maxQuerySize)
  \/ Ingesting \/ StatementFails
  \/ \E n \in BatchSizes : SetBatchSize(n)
  \/ \E on \in BOOLEAN : SetAutocommit(on)
  \/ Rollback

Spec == Init /\ [][Next]_vars

(* A call in progress goes on.                                             *)
FairSpec == Spec /\ WF_vars(Ingesting)
-----------------------------------------------------------------------------
TypeOK ==
  /\ tables.perm.exists \in BOOLEAN /\ tables.temp.exists \in BOOLEAN
  /\ {autocommit, connected} \subseteq BOOLEAN
  /\ size \in Nat
  /\ ingest.pc \in {"idle", "drop", "create", "size", "batch"}
  /\ ingest.sent \in 0 .. ingest.rows
  /\ ingests \in 0 .. MaxIngests

(* Every INSERT holds at least one row and at most the placeholders the    *)
(* server accepts, whatever batch size the option or an earlier ingest of  *)
(* the statement left behind.                                              *)
PlaceholderLimit ==
  ingest.pc = "batch" => size >= 1 /\ size * ingest.cols <= MaxPlaceholders

CurrentMode == IF ingest.pc = "idle" THEN answer.mode ELSE ingest.mode

(* An ingest that does not replace its table never loses a row that was    *)
(* committed to a permanent table when it started, at no step and whatever *)
(* fails, the connection included.  As long as the connection works it     *)
(* loses no row at all, of either table, unless the server rolled back the *)
(* transaction: then only rows that were not committed yet are gone.       *)
ExistingRowsKept ==
  CurrentMode \in Modes \ {"replace"} =>
    /\ committed.perm.rows \subseteq tables.perm.rows
    /\ connected =>
         \A k \in {"perm", "temp"} :
           (IF answer.aborted THEN committed ELSE before)[k].rows \subseteq tables[k].rows

(* The rows of an ingest that are in a table are the first of its stream:  *)
(* a failed or lost batch leaves no gap.                                   *)
NoGap ==
  \A k \in {"perm", "temp"} : \A r \in tables[k].rows :
    r > 0 /\ (r - 1) % MaxRows # 0 => r - 1 \in tables[k].rows

(* What an ingest that succeeds leaves in the table k it names: a new      *)
(* table for create and replace, the old rows and the new ones otherwise;  *)
(* the other table is not touched.                                         *)
LandsIn(k) ==
  LET old == IF answer.mode = "replace" THEN {} ELSE before[k].rows
  IN  /\ answer.mode = "create" => ~before[k].exists
      /\ tables = [before EXCEPT ![k] = [exists |-> answer.mode # "append" \/ @.exists,
                                          rows |-> old \cup answer.rows]]

(* A table of the other kind stands in the way: a temporary table hides    *)
(* the permanent one, and append creates no temporary table.               *)
OtherTableMeant ==
  IF answer.temporary THEN answer.mode = "append" /\ ~before.temp.exists
                      ELSE before.temp.exists

(* An ingest that reports success did what its mode says to the table it   *)
(* names, unless another table stands in the way.                          *)
IngestLands ==
  answer.status = "OK" /\ ~OtherTableMeant => LandsIn(Kind(answer.temporary))

(* Every ingest returns: its batches make progress.                        *)
EveryIngestEnds == ingest.pc # "idle" ~> ingest.pc = "idle"

(* Rollback undoes every row ingested since the last ingest that created   *)
(* or replaced a permanent table: appends, into whichever table, stay in   *)
(* the transaction, and no later step brings their rows back.              *)
RollbackUndoes == undone \cap (tables.perm.rows \cup tables.temp.rows) = {}
=============================================================================
