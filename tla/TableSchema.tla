------------------------------ MODULE TableSchema ------------------------------
(***************************************************************************)
(* One GetTableSchema call (connection.go): the columns of a table, then   *)
(* the CHECK constraints that tell JSON from LONGTEXT, then the conversion *)
(* of every column.  The declaration comes from CREATE TABLE statements,   *)
(* of the application or of an ingest; other sessions may alter the table  *)
(* between the queries.                                                    *)
(***************************************************************************)
EXTENDS TypeConversion

CONSTANTS
  Worlds,       (* what the schema may hold                                 *)
  Table,        (* the table asked for                                      *)
  ArrowTypes,   (* types of the columns an ingest creates                   *)
  MaxInt32,     (* the largest size GetObjects can return                   *)
  MaxText       (* the characters of a LONGTEXT, more than MaxInt32         *)

(* A world is [columns, checks]: the columns of every table by their name, *)
(* and the CHECK constraints [tab, name, json], json the columns the       *)
(* clause calls JSON_VALID of, see IsWorld.                                *)

VARIABLES
  world,        (* the schema now                                           *)
  pc,
  columns,      (* rows of the first query                                  *)
  jsonColumns,  (* columns found to be JSON                                 *)
  fields,       (* the result                                               *)
  seen          (* history: the checks when the second query was answered   *)

vars == <<world, pc, columns, jsonColumns, fields, seen>>

-----------------------------------------------------------------------------
(* What the server shows of a column, external.  INFORMATION_SCHEMA names  *)
(* the storage type, JSON is a LONGTEXT; the unsigned flag and the width   *)
(* stand in COLUMN_TYPE.                                                   *)
InfoRow(c) ==
  [dataType  |-> IF c.type = "JSON" THEN "LONGTEXT" ELSE c.type,
   unsigned  |-> c.unsigned,
   width     |-> c.width,
   charMax   |-> CASE c.type = "CHAR" -> c.width [] c.type = "JSON" -> MaxText
                   [] OTHER -> None,
   numeric   |-> IF c.type = "DECIMAL" THEN c.precision ELSE None,
   scale     |-> c.scale,
   datetime  |-> IF c.type \in TemporalTypes THEN c.precision ELSE None]

(* The metadata of a result set: UUID shows as CHAR and JSON as LONGTEXT   *)
(* (docs/mariadb.md), a VECTOR with its width in bytes.                    *)
ResultColumn(c) ==
  [name      |-> [base |-> CASE c.type = "JSON" -> "LONGTEXT" [] c.type = "UUID" -> "CHAR"
                             [] OTHER -> c.type,
                  sign |-> IF c.unsigned THEN "before" ELSE "none"],
   precision |-> c.precision,
   scale     |-> c.scale,
   length    |-> IF c.type = "VECTOR" THEN 4 * c.width ELSE c.width]

(* Or a VECTOR comes without its width (docs/mariadb.md), or as the bytes  *)
(* it is (the listing of src/README.md).                                   *)
WidthlessColumn(c, base) == [ResultColumn(c) EXCEPT !.name.base = base, !.length = None]

-----------------------------------------------------------------------------
(* The ColumnType GetTableSchema builds for the converter.                 *)

ColumnPrecision(row) ==
  IF row.dataType \in TemporalTypes /\ row.datetime # None THEN row.datetime ELSE row.numeric

ColumnLength(row) ==
  CASE row.dataType = "VECTOR" /\ row.width # None -> row.width * 4
    [] row.dataType = "BIT" /\ row.width # None    -> row.width
    [] OTHER                                       -> row.charMax

ColumnName(row, json) ==
  IF row.dataType \in IntegerTypes /\ row.unsigned
    THEN [base |-> row.dataType, sign |-> "after"]
    ELSE [base |-> IF json THEN "JSON" ELSE row.dataType, sign |-> "none"]

ColumnType(row, json) ==
  [name |-> ColumnName(row, json), precision |-> ColumnPrecision(row), scale |-> row.scale,
   length |-> ColumnLength(row)]

clampInt32(n) == IF n > MaxInt32 THEN MaxInt32 ELSE n

(* The same row as GetObjects shows it (connection_getobjects.go): the     *)
(* first size that is not NULL, and the digits of a number or a time.      *)
ColumnSize(row) ==
  IF row.charMax # None THEN row.charMax
  ELSE IF row.numeric # None THEN row.numeric ELSE row.datetime

buildColumnInfo(row) ==
  [typeName |-> ColumnName(row, FALSE),
   size     |-> IF ColumnSize(row) = None THEN None ELSE clampInt32(ColumnSize(row)),
   digits   |-> IF row.scale # None THEN row.scale ELSE row.datetime]

(* Mutant: the clauses of every table are read.                            *)
CheckClausesAll == {c.json : c \in world.checks}

(* The clauses of the second query: TABLE_CONSTRAINTS of the table, joined *)
(* with CHECK_CONSTRAINTS by schema and name.                              *)
CheckClauses ==
  {c.json : c \in {d \in world.checks :
                     \E t \in world.checks : t.tab = Table /\ t.name = d.name}}

-----------------------------------------------------------------------------
QueryColumns ==
  /\ pc = "columns"
  /\ columns' = [n \in DOMAIN world.columns[Table] |-> InfoRow(world.columns[Table][n])]
  /\ pc' = IF columns' = <<>> THEN "not found" ELSE "checks"
  /\ UNCHANGED <<world, jsonColumns, fields, seen>>

(* A failure of the query is passed over, one of its rows is returned.     *)
QueryChecks ==
  /\ pc = "checks"
  /\ \/ /\ jsonColumns' = (UNION CheckClauses) \cap DOMAIN columns
        /\ seen' = world
        /\ pc' = "convert"
     \/ pc' = "convert" /\ UNCHANGED <<jsonColumns, seen>>
     \/ pc' = "failed" /\ UNCHANGED <<jsonColumns, seen>>
  /\ UNCHANGED <<world, columns, fields>>

Convert ==
  /\ pc = "convert"
  /\ fields' = [n \in DOMAIN columns |->
                  ConvertRawColumnType(ColumnType(columns[n], n \in jsonColumns))]
  /\ pc' = "returned"
  /\ UNCHANGED <<world, columns, jsonColumns, seen>>

QueryFails ==
  /\ pc = "columns"
  /\ pc' = "failed"
  /\ UNCHANGED <<world, columns, jsonColumns, fields, seen>>

(* Other sessions: checks come and go.                                     *)
OthersAlter ==
  /\ pc = "checks"
  /\ \E w \in Worlds : w.columns = world.columns /\ world' = w
  /\ UNCHANGED <<pc, columns, jsonColumns, fields, seen>>

(* A schema of the server: its columns are declared ones, and no other     *)
(* table has a check of the same name as one of the table asked for.       *)
IsWorld(w) ==
  /\ Table \in DOMAIN w.columns
  /\ \A n \in DOMAIN w.columns[Table] : IsColumn(w.columns[Table][n])
  /\ \A c, d \in w.checks : c.tab = Table /\ c.name = d.name => d.tab = Table

(* The table an ingest creates for one field.                              *)
Ingested(a) == [columns |-> [t \in {Table} |-> [n \in {"c"} |-> arrowToMariaDBType(a)]],
                checks |-> {}]

Init ==
  /\ world \in Worlds \cup {Ingested(a) : a \in ArrowTypes}
  /\ pc = "columns"
  /\ columns = <<>>
  /\ jsonColumns = {}
  /\ fields = <<>>
  /\ seen = None

Call == QueryColumns \/ QueryChecks \/ Convert

Next == Call \/ QueryFails \/ OthersAlter

Spec == Init /\ [][Next]_vars

-----------------------------------------------------------------------------
Column(n) == world.columns[Table][n]

(* The type of column n in a result set.  UUID and JSON are named by the   *)
(* metadata only; a VECTOR without its width is binary there, and no       *)
(* dimension is made up.                                                   *)
ResultAgrees(n) ==
  \/ n \in jsonColumns
  \/ Column(n).type = "UUID" /\ fields[n].type = <<"uuid">>
  \/ /\ Column(n).type # "UUID"
     /\ fields[n] = ConvertRawColumnType(ResultColumn(Column(n)))
     /\ Column(n).type = "VECTOR" =>
          \A base \in {"VECTOR", "BLOB"} :
            ConvertRawColumnType(WidthlessColumn(Column(n), base)).type = <<"binary">>

(* GetObjects names the type of column n (but for JSON), the digits of a   *)
(* time are those of its Arrow unit, and a size is the declared one or the *)
(* largest there is.                                                       *)
ObjectAgrees(n) ==
  LET row  == columns[n]
      info == buildColumnInfo(row)
  IN  /\ n \notin jsonColumns =>
           fields[n] = ConvertRawColumnType([ColumnType(row, FALSE) EXCEPT !.name = info.typeName])
      /\ fields[n].type[1] \in {"duration", "timestamp"} =>
           TimeUnit(info.digits) = fields[n].type[2]
      /\ info.size # None => info.size \in 0 .. MaxInt32
      /\ row.charMax # None /\ row.charMax <= MaxInt32 => info.size = row.charMax

(* GetTableSchema, result sets and GetObjects agree: a column has the      *)
(* Arrow type its values come with and the description GetObjects gives,   *)
(* although the type reaches the converter along two ways with different   *)
(* names, precisions and lengths.  The exception is a VECTOR in a result   *)
(* set that omits its width: its values come as binary, where              *)
(* GetTableSchema gives a list of the declared dimension.                  *)
SchemasAgree == pc = "returned" => \A n \in DOMAIN fields : ResultAgrees(n) /\ ObjectAgrees(n)

(* docs/mariadb.md: GetTableSchema recognizes JSON by the JSON_VALID       *)
(* constraint of the column, and nothing else makes a LONGTEXT JSON, even  *)
(* if constraints change between the queries.                              *)
JsonExact ==
  pc = "returned" /\ seen # None =>
    \A n \in DOMAIN fields :
      columns[n].dataType = "LONGTEXT" =>
        (fields[n].type = <<"json">> <=> \E c \in seen.checks : c.tab = Table /\ n \in c.json)

(* What an ingested column reads back as, where it differs: times of day   *)
(* are durations, nanoseconds microseconds, and so on.                     *)
StoredAs(a) ==
  CASE a[1] = "boolean" -> <<"int8">>
    [] a[1] \in {"time32", "time64", "duration"} ->
         <<"duration", IF a[2] = "ns" THEN "us" ELSE a[2]>>
    [] a[1] = "timestamp" -> <<"timestamp", IF a[2] = "ns" THEN "us" ELSE a[2], a[3]>>
    [] a[1] \in {"fixed_size_binary", "binary_view", "large_binary"} -> <<"binary">>
    [] a[1] \in {"json", "uuid", "vector"} -> <<"string">>
    [] a[1] = "decimal" -> IF a[2] > MaxDecimal THEN <<"string">> ELSE a
    [] OTHER -> a

(* A table created by an ingest keeps the types of the stream: width, sign,*)
(* unit and time zone, as far as MariaDB has them.                         *)
IngestTypesKept ==
  \A a \in ArrowTypes :
    pc = "returned" /\ world = Ingested(a) => fields["c"].type = StoredAs(a)
=============================================================================
