--------------------------- MODULE MetadataProofs ---------------------------
(***************************************************************************)
(* Proofs about the metadata calls, for any schemas the server may hold    *)
(* and any changes other sessions make between the queries of a call.      *)
(*                                                                         *)
(* GetStatistics: the invariant says of the rows read so far what          *)
(* StatisticsExact says of all of them.                                    *)
(*                                                                         *)
(* GetTableSchema: the columns are those of the first query, jsonColumns   *)
(* is what the constraints said when the second was answered, and the      *)
(* fields are converted from both.  SchemasAgree and IngestTypesKept are   *)
(* then facts about the conversions, by cases on the type of a column.     *)
(*                                                                         *)
(* GetObjects: the rows read come before the rows to read, and the lists   *)
(* say what the rows read say (Grouped, KeysListed).  That the comparison  *)
(* of a row with its neighbour is enough rests on two facts: rows of one   *)
(* table lie together (KeyBetween), and the current table and constraint   *)
(* are the last ones (LastOf, CurrentRead).                                *)
(*                                                                         *)
(* Values of an ENUM or SET: the declaration is laid out by the places     *)
(* where its values open and close (FlattenPlaced, ListRendered), and the  *)
(* parser is at one of these places with the values before it (Reading).   *)
(***************************************************************************)
EXTENDS Metadata, FiniteSetTheorems, TLAPS

-----------------------------------------------------------------------------
(* GetStatistics.                                                          *)

TableRow == [cat : Catalogs, tab : Tables, base : BOOLEAN, valid : SUBSET Keys]

(* The rows read so far.                                                   *)
TablesRead  == IF pc = "tables" THEN seen.tables \ todo ELSE seen.tables
IndexesRead == IF pc = "indexes" THEN seen.indexes \ todo ELSE seen.indexes

StatisticsTypes ==
  /\ world \in World
  /\ pc \in {"query", "tables", "indexes", "returned", "empty", "failed"}
  /\ seen = [tables |-> seen.tables, indexes |-> seen.indexes]
  /\ seen.tables \subseteq TableRow
  /\ catalogOrder \in Seq(Catalogs)
  /\ statsByCatalog = [c \in DOMAIN statsByCatalog |-> statsByCatalog[c]]

(* What is asked for when.                                                 *)
Phases ==
  /\ pc = "query" => seen.tables = {}
  /\ pc \in {"query", "tables"} => seen.indexes = {}
  /\ pc = "tables" => todo \subseteq seen.tables
  /\ pc = "indexes" => todo \subseteq seen.indexes

(* The maps of the table rows read.                                        *)
Known ==
  pc # "failed" =>
    /\ \A c : c \in DOMAIN statsByCatalog <=> \E t \in TablesRead : t.cat = c
    /\ \A c, n : <<c, n>> \in knownTables <=> \E t \in TablesRead : t.cat = c /\ t.tab = n

FromTables(c, x)  == \E t \in TablesRead : t.cat = c /\ \E k \in t.valid : x = TableStat(t, k)
FromIndexes(c, x) ==
  \E r \in IndexesRead : r.cat = c /\ <<c, r.tab>> \in knownTables /\ x = ColumnStat(r)

Collected ==
  pc # "failed" =>
    \A c \in DOMAIN statsByCatalog : \A x :
      x \in statsByCatalog[c] <=> FromTables(c, x) \/ FromIndexes(c, x)

StatisticsInv == StatisticsTypes /\ Phases /\ Known /\ Collected /\ CatalogsOnce

LEMMA InitHolds == Init => StatisticsInv
<1> SUFFICES ASSUME Init PROVE StatisticsInv
  OBVIOUS
<1>1. StatisticsTypes
  BY StatisticsAssumption DEF Init, StatisticsTypes
<1>2. Phases /\ Known
  BY DEF Init, Phases, Known, TablesRead
<1>3. Collected /\ CatalogsOnce
  BY DEF Init, Collected, CatalogsOnce
<1> QED
  BY <1>1, <1>2, <1>3 DEF StatisticsInv

LEMMA QueryTablesPreserves == StatisticsInv /\ QueryTables => StatisticsInv'
<1> SUFFICES ASSUME StatisticsInv, QueryTables PROVE StatisticsInv'
  OBVIOUS
<1>1. StatisticsTypes' /\ Phases'
  BY DEF StatisticsInv, StatisticsTypes, Phases, QueryTables, TableRows, World, TableRow
<1>2. TablesRead' = {} /\ TablesRead = {} /\ IndexesRead' = {} /\ IndexesRead = {}
  BY DEF StatisticsInv, StatisticsTypes, Phases, QueryTables, TablesRead, IndexesRead
<1>3. Known' /\ Collected'
  BY <1>2 DEF StatisticsInv, Known, Collected, FromTables, FromIndexes, QueryTables
<1>4. CatalogsOnce'
  BY DEF StatisticsInv, CatalogsOnce, QueryTables
<1> QED
  BY <1>1, <1>3, <1>4 DEF StatisticsInv

(* A table row adds its catalog, if it is new, and its statistics.         *)
LEMMA ReadTablePreserves == StatisticsInv /\ ReadTable => StatisticsInv'
<1> SUFFICES ASSUME StatisticsInv, ReadTable PROVE StatisticsInv'
  OBVIOUS
<1> PICK t \in todo :
       /\ todo' = todo \ {t}
       /\ catalogOrder' = IF NewCatalog(t.cat) THEN Append(catalogOrder, t.cat) ELSE catalogOrder
       /\ knownTables' = knownTables \cup {<<t.cat, t.tab>>}
       /\ statsByCatalog' = [c \in DOMAIN statsByCatalog \cup {t.cat} |->
            IF c = t.cat THEN StatsOf(c) \cup {TableStat(t, k) : k \in t.valid}
                         ELSE statsByCatalog[c]]
  BY DEF ReadTable
<1>0. /\ pc = "tables" /\ UNCHANGED <<world, filter, pc, seen>>
      /\ t \in seen.tables /\ t \in TableRow /\ t.cat \in Catalogs
      /\ seen.indexes = {}
  BY DEF ReadTable, StatisticsInv, StatisticsTypes, Phases, TableRow
<1>1. StatisticsTypes' /\ Phases'
  <2>1. catalogOrder' \in Seq(Catalogs)
    BY <1>0 DEF StatisticsInv, StatisticsTypes
  <2> QED
    BY <1>0, <2>1 DEF StatisticsInv, StatisticsTypes, Phases
<1>2. TablesRead' = TablesRead \cup {t} /\ IndexesRead' = {} /\ IndexesRead = {}
  BY <1>0 DEF TablesRead, IndexesRead, StatisticsInv, Phases
<1>3. Known'
  BY <1>0, <1>2 DEF StatisticsInv, Known
<1>4. Collected'
  <2> SUFFICES ASSUME NEW c \in DOMAIN statsByCatalog', NEW x
               PROVE  x \in statsByCatalog'[c] <=> FromTables(c, x)' \/ FromIndexes(c, x)'
    BY <1>0 DEF Collected
  <2>1. FromTables(c, x)' <=> FromTables(c, x) \/ (c = t.cat /\ \E k \in t.valid : x = TableStat(t, k))
    BY <1>2 DEF FromTables, TableStat
  <2>2. ~FromIndexes(c, x)' /\ ~FromIndexes(c, x)
    BY <1>2 DEF FromIndexes
  <2>3. c \in DOMAIN statsByCatalog => (x \in statsByCatalog[c] <=> FromTables(c, x))
    BY <1>0, <2>2 DEF StatisticsInv, Collected
  <2>4. c \notin DOMAIN statsByCatalog => ~FromTables(c, x)
    BY <1>0 DEF StatisticsInv, Known, FromTables
  <2>5. CASE c = t.cat
    BY <2>1, <2>2, <2>3, <2>4, <2>5 DEF StatsOf
  <2>6. CASE c # t.cat
    BY <2>1, <2>2, <2>3, <2>6
  <2> QED
    BY <2>5, <2>6
<1>5. CatalogsOnce'
  <2>1. CASE NewCatalog(t.cat)
    BY <1>0, <2>1 DEF StatisticsInv, StatisticsTypes, CatalogsOnce, NewCatalog
  <2>2. CASE ~NewCatalog(t.cat)
    BY <1>0, <2>2 DEF StatisticsInv, StatisticsTypes, CatalogsOnce, NewCatalog
  <2> QED
    BY <2>1, <2>2
<1> QED
  BY <1>1, <1>3, <1>4, <1>5 DEF StatisticsInv

LEMMA QueryIndexesPreserves == StatisticsInv /\ QueryIndexes => StatisticsInv'
<1> SUFFICES ASSUME StatisticsInv, QueryIndexes PROVE StatisticsInv'
  OBVIOUS
<1>1. StatisticsTypes' /\ Phases'
  BY DEF StatisticsInv, StatisticsTypes, Phases, QueryIndexes
<1>2. TablesRead' = TablesRead /\ IndexesRead' = {} /\ IndexesRead = {}
  BY DEF StatisticsInv, StatisticsTypes, Phases, QueryIndexes, TablesRead, IndexesRead
<1>3. Known' /\ Collected'
  BY <1>2 DEF StatisticsInv, Known, Collected, FromTables, FromIndexes, QueryIndexes
<1>4. CatalogsOnce'
  BY DEF StatisticsInv, CatalogsOnce, QueryIndexes
<1> QED
  BY <1>1, <1>3, <1>4 DEF StatisticsInv

(* An index row of a known table finds the map of its catalog.             *)
LEMMA ReadIndexPreserves == StatisticsInv /\ ReadIndex => StatisticsInv'
<1> SUFFICES ASSUME StatisticsInv, ReadIndex PROVE StatisticsInv'
  OBVIOUS
<1> PICK r \in todo :
       /\ todo' = todo \ {r}
       /\ pc' = IF ~Skipped(r) /\ r.cat \notin DOMAIN statsByCatalog THEN "panic" ELSE pc
       /\ statsByCatalog' =
            IF Skipped(r) THEN statsByCatalog
            ELSE [statsByCatalog EXCEPT ![r.cat] = @ \cup {ColumnStat(r)}]
  BY DEF ReadIndex
<1>0. pc = "indexes" /\ UNCHANGED <<world, filter, catalogOrder, knownTables, seen>>
  BY DEF ReadIndex
<1>1. ~Skipped(r) => r.cat \in DOMAIN statsByCatalog
  BY <1>0 DEF StatisticsInv, Known, Skipped
<1>2. pc' = pc /\ r \in seen.indexes /\ DOMAIN statsByCatalog' = DOMAIN statsByCatalog
  BY <1>0, <1>1 DEF StatisticsInv, Phases, StatisticsTypes
<1>3. StatisticsTypes' /\ Phases'
  BY <1>0, <1>2 DEF StatisticsInv, StatisticsTypes, Phases
<1>4. TablesRead' = TablesRead /\ IndexesRead' = IndexesRead \cup {r}
  BY <1>0, <1>2 DEF TablesRead, IndexesRead, StatisticsInv, Phases
<1>5. Known'
  BY <1>0, <1>2, <1>4 DEF StatisticsInv, Known
<1>6. Collected'
  <2> SUFFICES ASSUME NEW c \in DOMAIN statsByCatalog, NEW x
               PROVE  x \in statsByCatalog'[c] <=> FromTables(c, x)' \/ FromIndexes(c, x)'
    BY <1>0, <1>2 DEF Collected
  <2>1. FromTables(c, x)' <=> FromTables(c, x)
    BY <1>4 DEF FromTables, TableStat
  <2>2. FromIndexes(c, x)' <=>
          FromIndexes(c, x) \/ (c = r.cat /\ ~Skipped(r) /\ x = ColumnStat(r))
    BY <1>0, <1>4 DEF FromIndexes, ColumnStat, Skipped
  <2>3. x \in statsByCatalog[c] <=> FromTables(c, x) \/ FromIndexes(c, x)
    BY <1>0 DEF StatisticsInv, Collected
  <2>4. statsByCatalog'[c] = IF c = r.cat /\ ~Skipped(r) THEN statsByCatalog[c] \cup {ColumnStat(r)}
                                                         ELSE statsByCatalog[c]
    BY <1>1 DEF StatisticsInv, StatisticsTypes
  <2> QED
    BY <2>1, <2>2, <2>3, <2>4
<1>7. CatalogsOnce'
  BY <1>0, <1>2 DEF StatisticsInv, CatalogsOnce
<1> QED
  BY <1>3, <1>5, <1>6, <1>7 DEF StatisticsInv

(* Steps that read nothing: what was read stays what it was, or the call   *)
(* has failed.                                                             *)
LEMMA NothingRead ==
  ASSUME StatisticsInv, UNCHANGED <<catalogOrder, statsByCatalog, knownTables>>,
         pc' = "failed" \/ (TablesRead' = TablesRead /\ IndexesRead' = IndexesRead /\ pc # "failed")
  PROVE  Known' /\ Collected' /\ CatalogsOnce'
<1>1. CatalogsOnce'
  BY DEF StatisticsInv, CatalogsOnce
<1>2. CASE pc' = "failed"
  BY <1>1, <1>2 DEF Known, Collected
<1>3. CASE TablesRead' = TablesRead /\ IndexesRead' = IndexesRead /\ pc # "failed"
  <2>1. Known'
    BY <1>3 DEF StatisticsInv, Known
  <2>2. \A c, x : /\ FromTables(c, x)' <=> FromTables(c, x)
                  /\ FromIndexes(c, x)' <=> FromIndexes(c, x)
    BY <1>3 DEF FromTables, FromIndexes, TableStat, ColumnStat
  <2>3. Collected'
    BY <1>3, <2>2 DEF StatisticsInv, Collected
  <2> QED
    BY <1>1, <2>1, <2>3
<1> QED
  BY <1>2, <1>3

LEMMA EndsPreserve == StatisticsInv /\ (EmptyForSchema \/ BuildReader \/ QueryFails) => StatisticsInv'
<1>1. ASSUME StatisticsInv, EmptyForSchema PROVE StatisticsInv'
  <2>1. StatisticsTypes' /\ Phases'
    BY <1>1 DEF StatisticsInv, StatisticsTypes, Phases, EmptyForSchema
  <2>2. TablesRead' = TablesRead /\ IndexesRead' = IndexesRead /\ pc # "failed"
    BY <1>1 DEF StatisticsInv, Phases, TablesRead, IndexesRead, EmptyForSchema
  <2> QED
    BY <1>1, <2>1, <2>2, NothingRead DEF StatisticsInv, EmptyForSchema
<1>2. ASSUME StatisticsInv, BuildReader PROVE StatisticsInv'
  <2>1. StatisticsTypes' /\ Phases'
    BY <1>2 DEF StatisticsInv, StatisticsTypes, Phases, BuildReader
  <2>2. TablesRead' = TablesRead /\ IndexesRead' = IndexesRead /\ pc # "failed"
    BY <1>2 DEF StatisticsInv, Phases, TablesRead, IndexesRead, BuildReader
  <2> QED
    BY <1>2, <2>1, <2>2, NothingRead DEF StatisticsInv, BuildReader
<1>3. ASSUME StatisticsInv, QueryFails PROVE StatisticsInv'
  <2>1. StatisticsTypes' /\ Phases'
    BY <1>3 DEF StatisticsInv, StatisticsTypes, Phases, QueryFails
  <2> QED
    BY <1>3, <2>1, NothingRead DEF StatisticsInv, QueryFails
<1> QED
  BY <1>1, <1>2, <1>3

LEMMA OthersPreserve == StatisticsInv /\ (OthersChange \/ UNCHANGED vars) => StatisticsInv'
<1> SUFFICES ASSUME StatisticsInv, OthersChange \/ UNCHANGED vars PROVE StatisticsInv'
  OBVIOUS
<1>1. CASE pc = "failed"
  BY <1>1 DEF StatisticsInv, StatisticsTypes, Phases, Known, Collected, CatalogsOnce, OthersChange, vars
<1>2. CASE pc # "failed"
  <2>1. world' \in World
    BY StatisticsAssumption DEF StatisticsInv, StatisticsTypes, OthersChange, vars
  <2>2. /\ UNCHANGED <<pc, todo, seen>>
        /\ UNCHANGED <<catalogOrder, statsByCatalog, knownTables>>
    BY DEF OthersChange, vars
  <2>3. StatisticsTypes' /\ Phases'
    BY <2>1, <2>2 DEF StatisticsInv, StatisticsTypes, Phases
  <2>4. TablesRead' = TablesRead /\ IndexesRead' = IndexesRead
    BY <2>2 DEF TablesRead, IndexesRead
  <2> QED
    BY <1>2, <2>2, <2>3, <2>4, NothingRead DEF StatisticsInv
<1> QED
  BY <1>1, <1>2

LEMMA StatisticsNextPreserves == StatisticsInv /\ [Next]_vars => StatisticsInv'
BY QueryTablesPreserves, ReadTablePreserves, QueryIndexesPreserves, ReadIndexPreserves,
   EndsPreserve, OthersPreserve DEF Next, Call

(* Every behaviour of GetStatistics keeps its inductive invariant.         *)
THEOREM StatisticsInvariant == Spec => []StatisticsInv
BY InitHolds, StatisticsNextPreserves, PTL DEF Spec

(* GetStatistics never writes to the map of a catalog it has not added.    *)
THEOREM StatisticsNeverPanics == Spec => []NoPanic
<1>1. StatisticsInv => NoPanic
  BY DEF StatisticsInv, StatisticsTypes, NoPanic
<1> QED
  BY StatisticsInvariant, <1>1, PTL

(* What GetStatistics returns is what its two queries saw, whatever other  *)
(* sessions do in between, and catalogOrder lists every catalog once.      *)
THEOREM StatisticsAlwaysExact == Spec => []StatisticsExact
<1>1. StatisticsInv => StatisticsExact
  <2> SUFFICES ASSUME StatisticsInv, pc \in {"returned", "empty"}
               PROVE  /\ DOMAIN statsByCatalog = {t.cat : t \in seen.tables}
                      /\ \A c \in DOMAIN statsByCatalog :
                           statsByCatalog[c] = OfTables(c) \cup OfColumns(c)
    BY DEF StatisticsExact, StatisticsInv
  <2>1. TablesRead = seen.tables /\ IndexesRead = seen.indexes
    BY DEF TablesRead, IndexesRead
  <2>2. DOMAIN statsByCatalog = {t.cat : t \in seen.tables}
    <3>1. \A c : c \in DOMAIN statsByCatalog <=> \E t \in seen.tables : t.cat = c
      BY <2>1 DEF StatisticsInv, Known
    <3> QED
      BY <3>1
  <2>3. ASSUME NEW c \in DOMAIN statsByCatalog, NEW x
        PROVE  x \in statsByCatalog[c] <=>
                 \/ \E t \in seen.tables : t.cat = c /\ \E k \in t.valid : x = TableStat(t, k)
                 \/ \E r \in seen.indexes :
                      /\ r.cat = c /\ \E t \in seen.tables : t.cat = c /\ t.tab = r.tab
                      /\ x = ColumnStat(r)
    <3>1. x \in statsByCatalog[c] <=> FromTables(c, x) \/ FromIndexes(c, x)
      BY DEF StatisticsInv, Collected
    <3>2. \A n : <<c, n>> \in knownTables <=> \E t \in seen.tables : t.cat = c /\ t.tab = n
      BY <2>1 DEF StatisticsInv, Known
    <3> QED
      BY <2>1, <3>1, <3>2 DEF FromTables, FromIndexes
  <2>4. ASSUME NEW c, NEW x
        PROVE  x \in OfColumns(c) <=>
                 \E r \in seen.indexes :
                   /\ r.cat = c /\ \E t \in seen.tables : t.cat = c /\ t.tab = r.tab
                   /\ x = ColumnStat(r)
    BY DEF OfColumns
  <2>5. ASSUME NEW c, NEW x
        PROVE  x \in OfTables(c) <=>
                 \E t \in seen.tables : t.cat = c /\ \E k \in t.valid : x = TableStat(t, k)
    <3>1. x \in OfTables(c) <=>
            \E t \in {u \in seen.tables : u.cat = c} : x \in {TableStat(t, k) : k \in t.valid}
      BY Zenon DEF OfTables
    <3> QED
      BY <3>1
  <2>6. ASSUME NEW c \in DOMAIN statsByCatalog
        PROVE  statsByCatalog[c] = OfTables(c) \cup OfColumns(c)
    <3>1. \A x : x \in statsByCatalog[c] <=> x \in OfTables(c) \/ x \in OfColumns(c)
      BY <2>3, <2>4, <2>5
    <3> QED
      BY <3>1, Zenon
  <2> QED
    BY <2>2, <2>6
<1> QED
  BY StatisticsInvariant, <1>1, PTL

-----------------------------------------------------------------------------
(* GetTableSchema.                                                         *)

SchemaRows == [n \in DOMAIN world.columns[Table] |-> Schema!InfoRow(world.columns[Table][n])]

SchemaInv ==
  /\ pc \in {"columns", "not found", "checks", "convert", "returned", "failed"}
  /\ Schema!IsWorld(world)
  /\ pc \in {"columns", "checks"} => jsonColumns = {} /\ answered = None
  /\ pc \in {"checks", "convert", "returned"} => columns = SchemaRows
  /\ pc \in {"convert", "returned"} =>
       \/ jsonColumns = {} /\ answered = None
       \/ answered = world /\ jsonColumns = (UNION Schema!CheckClauses) \cap DOMAIN columns
  /\ pc = "returned" =>
       fields = [n \in DOMAIN columns |->
                   Schema!ConvertRawColumnType(Schema!ColumnType(columns[n], n \in jsonColumns))]

LEMMA UnitDigitsOK ==
  ASSUME NEW u \in ArrowUnits
  PROVE  Schema!UnitDigits[u] \in Nat
BY TypeConversionAssumption DEF Schema!UnitDigits, ArrowUnits

(* The columns an ingest declares are columns of the server.               *)
LEMMA DeclaredColumn ==
  ASSUME NEW t, t \notin Schema!TemporalTypes \cup {"DECIMAL", "VECTOR", "BIT", "CHAR"}
  PROVE  Schema!IsColumn(Schema!Declared(t))
BY DEF Schema!IsColumn, Schema!Declared

LEMMA UnsignedColumn ==
  ASSUME NEW t \in Schema!IntegerTypes, NEW u \in BOOLEAN
  PROVE  Schema!IsColumn([Schema!Declared(t) EXCEPT !.unsigned = u])
BY DEF Schema!IsColumn, Schema!Declared, Schema!IntegerTypes, Schema!TemporalTypes

LEMMA PreciseColumn ==
  ASSUME NEW t \in Schema!TemporalTypes, NEW p \in Nat
  PROVE  Schema!IsColumn(Schema!WithPrecision(t, p))
<1>1. p # None
  BY TypeConversionAssumption
<1> QED
  BY <1>1 DEF Schema!IsColumn, Schema!Declared, Schema!WithPrecision, Schema!TemporalTypes

LEMMA DecimalColumn ==
  ASSUME NEW p \in Nat, NEW q \in Nat
  PROVE  Schema!IsColumn([Schema!Declared("DECIMAL") EXCEPT !.precision = p, !.scale = q])
<1>1. p # None /\ q # None
  BY TypeConversionAssumption
<1> DEFINE c == [Schema!Declared("DECIMAL") EXCEPT !.precision = p, !.scale = q]
<1>3. /\ c.type = "DECIMAL" /\ c.unsigned = FALSE /\ c.precision = p /\ c.scale = q
      /\ c.width = None
  BY DEF Schema!Declared
<1> HIDE DEF c
<1>4. Schema!IsColumn(c)
  BY <1>1, <1>3 DEF Schema!IsColumn
<1> QED
  BY <1>4 DEF c

LEMMA IngestedColumn ==
  ASSUME NEW a \in ArrowType
  PROVE  Schema!IsColumn(Schema!arrowToMariaDBType(a))
<1>1. CASE a \in {<<k>> : k \in ArrowKinds}
  <2>1. PICK k \in ArrowKinds : a = <<k>>
    BY <1>1
  <2>2. a[1] = k
    BY <2>1
  <2> HIDE <2>1
  <2>3. CASE k \in DOMAIN Schema!IntegerOf
    <3>1. Schema!IntegerOf[k] \in Schema!IntegerTypes
      BY <2>3 DEF Schema!IntegerOf, Schema!IntegerTypes
    <3>2. Schema!arrowToMariaDBType(a) =
            [Schema!Declared(Schema!IntegerOf[k]) EXCEPT
               !.unsigned = k \in {"uint8", "uint16", "uint32", "uint64"}]
      BY <2>2, <2>3 DEF Schema!arrowToMariaDBType, Schema!IntegerOf
    <3> DEFINE u == k \in {"uint8", "uint16", "uint32", "uint64"}
    <3>3. Schema!IsColumn([Schema!Declared(Schema!IntegerOf[k]) EXCEPT !.unsigned = u])
      <4> u \in BOOLEAN
        OBVIOUS
      <4> HIDE DEF u
      <4> QED
        BY <3>1, UnsignedColumn
    <3> QED
      BY <3>2, <3>3
  <2>4. CASE k \notin DOMAIN Schema!IntegerOf
    <3>1. \E t \in {"TINYINT", "FLOAT", "DOUBLE", "BLOB", "LONGBLOB", "DATE", "TEXT"} :
            Schema!arrowToMariaDBType(a) = Schema!Declared(t)
      BY <2>2, <2>4 DEF Schema!arrowToMariaDBType, ArrowKinds
    <3> QED
      BY <3>1, DeclaredColumn DEF Schema!TemporalTypes
  <2> QED
    BY <2>3, <2>4
<1>2. CASE a \in {"timestamp"} \X ArrowUnits \X BOOLEAN
  <2>1. a[1] = "timestamp" /\ a[2] \in ArrowUnits /\ a[3] \in BOOLEAN
    BY <1>2
  <2>2. \E t \in {"TIMESTAMP", "DATETIME"} :
          Schema!arrowToMariaDBType(a) = Schema!WithPrecision(t, Schema!UnitDigits[a[2]])
    BY <2>1 DEF Schema!arrowToMariaDBType, Schema!IntegerOf
  <2> QED
    BY <2>1, <2>2, UnitDigitsOK, PreciseColumn DEF Schema!TemporalTypes
<1>3. CASE a \in {"time32", "time64", "duration"} \X ArrowUnits
  <2>1. a[1] \in {"time32", "time64", "duration"} /\ a[2] \in ArrowUnits
    BY <1>3
  <2>2. Schema!arrowToMariaDBType(a) = Schema!WithPrecision("TIME", Schema!UnitDigits[a[2]])
    BY <2>1 DEF Schema!arrowToMariaDBType, Schema!IntegerOf
  <2> QED
    BY <2>1, <2>2, UnitDigitsOK, PreciseColumn DEF Schema!TemporalTypes
<1>4. CASE a \in {"decimal"} \X Nat \X Nat
  <2>1. a[1] = "decimal" /\ a[2] \in Nat /\ a[3] \in Nat
    BY <1>4
  <2>2. Schema!arrowToMariaDBType(a) =
          [Schema!Declared("DECIMAL") EXCEPT !.precision = a[2], !.scale = a[3]]
    BY <2>1 DEF Schema!arrowToMariaDBType, Schema!IntegerOf
  <2> QED
    BY <2>1, <2>2, DecimalColumn
<1>5. CASE a \in {"vector"} \X Nat
  <2>1. a[1] = "vector"
    BY <1>5
  <2>2. Schema!arrowToMariaDBType(a) = Schema!Declared("TEXT")
    BY <2>1 DEF Schema!arrowToMariaDBType, Schema!IntegerOf
  <2> QED
    BY <2>2, DeclaredColumn DEF Schema!TemporalTypes
<1> QED
  BY <1>1, <1>2, <1>3, <1>4, <1>5 DEF ArrowType

LEMMA IngestedWorld ==
  ASSUME NEW a \in SchemaArrowTypes
  PROVE  Schema!IsWorld(Schema!Ingested(a))
<1>1. a \in ArrowType
  BY SchemaAssumption
<1>2. Schema!IsColumn(Schema!arrowToMariaDBType(a))
  BY <1>1, IngestedColumn
<1> DEFINE w == Schema!Ingested(a)
<1>3. w.columns[Table] = [n \in {"c"} |-> Schema!arrowToMariaDBType(a)] /\ Table \in DOMAIN w.columns
      /\ w.checks = {}
  BY DEF Schema!Ingested
<1> HIDE DEF w
<1>4. Schema!IsWorld(w)
  BY <1>2, <1>3 DEF Schema!IsWorld
<1> QED
  BY <1>4 DEF w

LEMMA SchemaInitHolds == Schema!Init => SchemaInv
<1> SUFFICES ASSUME Schema!Init PROVE SchemaInv
  OBVIOUS
<1>1. Schema!IsWorld(world)
  BY SchemaAssumption, IngestedWorld DEF Schema!Init
<1> QED
  BY <1>1 DEF Schema!Init, SchemaInv

LEMMA SchemaNextPreserves == SchemaInv /\ Schema!Next => SchemaInv'
<1> SUFFICES ASSUME SchemaInv, Schema!Next PROVE SchemaInv'
  OBVIOUS
<1>1. CASE Schema!QueryColumns
  BY <1>1 DEF SchemaInv, Schema!QueryColumns, SchemaRows, Schema!IsWorld
<1>2. CASE Schema!QueryChecks
  BY <1>2 DEF SchemaInv, Schema!QueryChecks, SchemaRows, Schema!IsWorld, Schema!CheckClauses
<1>3. CASE Schema!Convert
  BY <1>3 DEF SchemaInv, Schema!Convert, SchemaRows, Schema!IsWorld, Schema!CheckClauses
<1>4. CASE Schema!QueryFails
  BY <1>4 DEF SchemaInv, Schema!QueryFails, SchemaRows, Schema!IsWorld
<1>5. CASE Schema!OthersAlter
  <2>1. Schema!IsWorld(world)' /\ world'.columns = world.columns
    BY <1>5, SchemaAssumption DEF Schema!OthersAlter, Schema!IsWorld
  <2> QED
    BY <1>5, <2>1 DEF SchemaInv, Schema!OthersAlter, SchemaRows
<1> QED
  BY <1>1, <1>2, <1>3, <1>4, <1>5 DEF Schema!Next, Schema!Call

LEMMA SchemaStays == SchemaInv /\ UNCHANGED Schema!vars => SchemaInv'
<1> SUFFICES ASSUME SchemaInv, UNCHANGED Schema!vars PROVE SchemaInv'
  OBVIOUS
<1>1. UNCHANGED <<world, pc, columns, jsonColumns, fields, answered>>
  BY DEF Schema!vars
<1>2. Schema!CheckClauses' = Schema!CheckClauses /\ SchemaRows' = SchemaRows
  BY <1>1 DEF Schema!CheckClauses, SchemaRows
<1> QED
  BY <1>1, <1>2 DEF SchemaInv

(* The converter, by the base of the name.                                 *)
FixedTypes ==
  {"UUID", "INET4", "INET6", "JSON", "YEAR", "BIT", "ENUM", "SET"} \cup Schema!SpatialTypes

ConvertedTypes == FixedTypes \cup {"DECIMAL", "VECTOR", "TIME", "TIMESTAMP"}

Fixed(b) ==
  CASE b = "UUID" -> Schema!Converted(<<"uuid">>, "none")
    [] b \in {"INET4", "INET6"} -> Schema!Converted(<<"string">>, b)
    [] b = "JSON" -> Schema!Converted(<<"json">>, "json")
    [] b = "YEAR" -> Schema!Converted(<<"int16">>, "year")
    [] b = "BIT" -> Schema!Converted(<<"binary">>, "BIT")
    [] b \in Schema!SpatialTypes -> Schema!Converted(<<"binary">>, "spatial")
    [] OTHER -> Schema!Converted(<<"string">>, "enum_set")

LEMMA ConvertFixed ==
  ASSUME NEW column, NEW c, c = [column EXCEPT !.name = Schema!normalizeUnsignedTypeName(@)],
         c.name.base \in FixedTypes
  PROVE  Schema!ConvertRawColumnType(column) = Fixed(c.name.base)
BY DEF Schema!ConvertRawColumnType, FixedTypes, Fixed, Schema!SpatialTypes

LEMMA ConvertDecimal ==
  ASSUME NEW column, NEW c, c = [column EXCEPT !.name = Schema!normalizeUnsignedTypeName(@)],
         c.name.base = "DECIMAL"
  PROVE  Schema!ConvertRawColumnType(column) =
           IF c.precision # None /\ c.scale # None /\ c.precision > MaxDecimal
             THEN Schema!Converted(<<"string">>, "decimal256")
             ELSE Schema!Converted(Schema!DefaultConvert(c), "none")
BY DEF Schema!ConvertRawColumnType, Schema!SpatialTypes

LEMMA ConvertTime ==
  ASSUME NEW column, NEW c, c = [column EXCEPT !.name = Schema!normalizeUnsignedTypeName(@)],
         c.name.base \in {"TIME", "TIMESTAMP"}
  PROVE  Schema!ConvertRawColumnType(column) =
           IF c.name.base = "TIME"
             THEN Schema!Converted(<<"duration", Schema!TimeUnit(c.precision)>>, "time_duration")
             ELSE Schema!Converted(<<"timestamp", Schema!TimeUnit(c.precision), TRUE>>, "none")
BY DEF Schema!ConvertRawColumnType, Schema!SpatialTypes

LEMMA ConvertOther ==
  ASSUME NEW column, NEW c, c = [column EXCEPT !.name = Schema!normalizeUnsignedTypeName(@)],
         c.name.base \notin ConvertedTypes
  PROVE  Schema!ConvertRawColumnType(column) = Schema!Converted(Schema!DefaultConvert(c), "none")
BY DEF Schema!ConvertRawColumnType, ConvertedTypes, FixedTypes, Schema!SpatialTypes

(* What the converter is given for a column of the second way, and what it *)
(* makes of it.                                                            *)
LEMMA ConvertAgrees ==
  ASSUME NEW c, Schema!IsColumn(c), c.type # "UUID"
  PROVE  Schema!ConvertRawColumnType(Schema!ColumnType(Schema!InfoRow(c), FALSE)) =
           Schema!ConvertRawColumnType(Schema!ResultColumn(c))
<1> DEFINE row == Schema!InfoRow(c)
           x   == Schema!ColumnType(row, FALSE)
           y   == Schema!ResultColumn(c)
<1>1. /\ row.dataType = (IF c.type = "JSON" THEN "LONGTEXT" ELSE c.type)
      /\ row.unsigned = c.unsigned /\ row.width = c.width /\ row.scale = c.scale
      /\ row.numeric = (IF c.type = "DECIMAL" THEN c.precision ELSE None)
      /\ row.datetime = (IF c.type \in Schema!TemporalTypes THEN c.precision ELSE None)
  BY DEF Schema!InfoRow
<1>2. /\ x = [name |-> x.name, precision |-> x.precision, scale |-> x.scale, length |-> x.length]
      /\ x.scale = c.scale
      /\ x.name = Schema!ColumnName(row, FALSE)
      /\ x.precision = Schema!ColumnPrecision(row)
      /\ x.length = Schema!ColumnLength(row)
  BY <1>1 DEF Schema!ColumnType
<1>3. x.precision = c.precision
  BY <1>1, <1>2 DEF Schema!ColumnPrecision, Schema!IsColumn, Schema!TemporalTypes
<1> DEFINE b == IF c.type = "JSON" THEN "LONGTEXT" ELSE c.type
<1>4. /\ y = [name |-> y.name, precision |-> y.precision, scale |-> y.scale, length |-> y.length]
      /\ y.scale = c.scale /\ y.precision = c.precision
      /\ y.name = [base |-> b, sign |-> IF c.unsigned THEN "before" ELSE "none"]
      /\ y.length = (IF c.type = "VECTOR" THEN 4 * c.width ELSE c.width)
  BY DEF Schema!ResultColumn
<1>5. x.name = [base |-> b, sign |-> IF c.unsigned THEN "after" ELSE "none"]
  <2>1. CASE c.unsigned
    BY <2>1, <1>1, <1>2 DEF Schema!ColumnName, Schema!IsColumn, Schema!IntegerTypes
  <2>2. CASE ~c.unsigned
    BY <2>2, <1>1, <1>2 DEF Schema!ColumnName, Schema!IsColumn
  <2> QED
    BY <2>1, <2>2
<1>6. /\ Schema!normalizeUnsignedTypeName(x.name) = x.name
      /\ Schema!normalizeUnsignedTypeName(y.name) = x.name
  <2> HIDE DEF x, y, row, b
  <2>1. CASE c.unsigned
    BY <2>1, <1>4, <1>5 DEF Schema!normalizeUnsignedTypeName
  <2>2. CASE ~c.unsigned
    BY <2>2, <1>4, <1>5 DEF Schema!normalizeUnsignedTypeName
  <2> QED
    BY <2>1, <2>2
<1>7. c.type = "VECTOR" => x.length = y.length
  <2> HIDE DEF x, y, row, b
  <2>1. SUFFICES ASSUME c.type = "VECTOR" PROVE x.length = y.length
    OBVIOUS
  <2>2. c.width \in Nat /\ c.width # None
    BY <2>1 DEF Schema!IsColumn
  <2> QED
    BY <1>1, <1>2, <1>4, <2>1, <2>2 DEF Schema!ColumnLength
<1> HIDE DEF x, y, row, b
<1> DEFINE z == [y EXCEPT !.name = x.name]
<1>8. /\ [x EXCEPT !.name = Schema!normalizeUnsignedTypeName(@)] = x
      /\ [y EXCEPT !.name = Schema!normalizeUnsignedTypeName(@)] = z
  BY <1>2, <1>6
<1>9. z.name = x.name /\ z.precision = x.precision /\ z.scale = x.scale /\ z.length = y.length
  BY <1>2, <1>3, <1>4
<1>10. x.name.base = b /\ (b = "VECTOR" => c.type = "VECTOR")
  BY <1>5 DEF b
<1> HIDE DEF z
<1>11. b = "VECTOR" => x.length = z.length
  BY <1>7, <1>9, <1>10
<1>12. Schema!DefaultConvert(x) = Schema!DefaultConvert(z)
  BY <1>9 DEF Schema!DefaultConvert
<1>13. CASE b = "VECTOR"
  <2>1. Schema!ConvertRawColumnType(x) = Schema!ConvertVector(x.length)
    BY <1>8, <1>10, <1>13 DEF Schema!ConvertRawColumnType, Schema!SpatialTypes
  <2>2. Schema!ConvertRawColumnType(y) = Schema!ConvertVector(z.length)
    BY <1>8, <1>9, <1>10, <1>13 DEF Schema!ConvertRawColumnType, Schema!SpatialTypes
  <2> QED
    BY <2>1, <2>2, <1>11, <1>13 DEF x, y, row
<1>14. CASE b # "VECTOR"
  <2>1. Schema!ConvertRawColumnType(x) = Schema!ConvertRawColumnType(y)
    <3>1. CASE b \in FixedTypes
      BY <1>8, <1>9, <1>10, <3>1, ConvertFixed
    <3>2. CASE b = "DECIMAL"
      BY <1>8, <1>9, <1>10, <1>12, <3>2, ConvertDecimal
    <3>3. CASE b \in {"TIME", "TIMESTAMP"}
      <4>1. Schema!ConvertRawColumnType(x) =
              IF x.name.base = "TIME"
                THEN Schema!Converted(<<"duration", Schema!TimeUnit(x.precision)>>, "time_duration")
                ELSE Schema!Converted(<<"timestamp", Schema!TimeUnit(x.precision), TRUE>>, "none")
        BY <1>8, <1>10, <3>3, ConvertTime
      <4>2. Schema!ConvertRawColumnType(y) =
              IF z.name.base = "TIME"
                THEN Schema!Converted(<<"duration", Schema!TimeUnit(z.precision)>>, "time_duration")
                ELSE Schema!Converted(<<"timestamp", Schema!TimeUnit(z.precision), TRUE>>, "none")
        BY <1>8, <1>9, <1>10, <3>3, ConvertTime
      <4> QED
        BY <4>1, <4>2, <1>9
    <3>4. CASE b \notin ConvertedTypes
      BY <1>8, <1>9, <1>10, <1>12, <3>4, ConvertOther
    <3> QED
      BY <3>1, <3>2, <3>3, <3>4, <1>14 DEF ConvertedTypes
  <2> QED
    BY <2>1 DEF x, y, row
<1> QED
  BY <1>13, <1>14

(* The name of a column decides what it is converted to.                   *)
LEMMA NamedAs ==
  ASSUME NEW row, NEW json \in BOOLEAN
  PROVE  LET x == Schema!ColumnType(row, json)
         IN  /\ [x EXCEPT !.name = Schema!normalizeUnsignedTypeName(@)] = x
             /\ x.name = Schema!ColumnName(row, json)
             /\ x.precision = Schema!ColumnPrecision(row)
             /\ x.scale = row.scale /\ x.length = Schema!ColumnLength(row)
<1> DEFINE x == Schema!ColumnType(row, json)
<1>1. /\ x = [name |-> x.name, precision |-> x.precision, scale |-> x.scale, length |-> x.length]
      /\ x.name = Schema!ColumnName(row, json)
      /\ x.precision = Schema!ColumnPrecision(row)
      /\ x.scale = row.scale /\ x.length = Schema!ColumnLength(row)
  BY DEF Schema!ColumnType
<1>2. x.name.sign # "before"
  <2> HIDE DEF x
  <2> QED
    BY <1>1 DEF Schema!ColumnName
<1>3. Schema!normalizeUnsignedTypeName(x.name) = x.name
  BY <1>2 DEF Schema!normalizeUnsignedTypeName
<1> HIDE DEF x
<1>4. [x EXCEPT !.name = Schema!normalizeUnsignedTypeName(@)] = x
  BY <1>1, <1>3
<1> QED
  BY <1>1, <1>4 DEF x

LEMMA JsonConverted ==
  ASSUME NEW row, NEW json \in BOOLEAN, row.dataType = "LONGTEXT"
  PROVE  Schema!ConvertRawColumnType(Schema!ColumnType(row, json)).type =
           IF json THEN <<"json">> ELSE <<"string">>
<1> DEFINE x == Schema!ColumnType(row, json)
<1>1. [x EXCEPT !.name = Schema!normalizeUnsignedTypeName(@)] = x
      /\ x.name = Schema!ColumnName(row, json)
  BY NamedAs
<1> HIDE DEF x
<1>2. x.name = [base |-> IF json THEN "JSON" ELSE "LONGTEXT", sign |-> "none"]
  BY <1>1 DEF Schema!ColumnName, Schema!IntegerTypes
<1>3. CASE json
  <2>1. x.name.base = "JSON"
    BY <1>2, <1>3
  <2>2. Schema!ConvertRawColumnType(x) = Fixed("JSON")
    BY <1>1, <2>1, ConvertFixed DEF FixedTypes
  <2>3. Schema!ConvertRawColumnType(x).type = <<"json">>
    BY <2>2 DEF Fixed, Schema!Converted, Schema!SpatialTypes
  <2> QED
    BY <1>3, <2>3 DEF x
<1>4. CASE ~json
  <2>1. x.name.base = "LONGTEXT"
    BY <1>2, <1>4
  <2>2. Schema!ConvertRawColumnType(x) = Schema!Converted(Schema!DefaultConvert(x), "none")
    BY <1>1, <2>1, ConvertOther DEF ConvertedTypes, FixedTypes, Schema!SpatialTypes
  <2>3. Schema!DefaultConvert(x) = <<"string">>
    BY <2>1 DEF Schema!DefaultConvert, Schema!IntegerTypes
  <2> QED
    BY <1>4, <2>2, <2>3 DEF Schema!Converted, x
<1> QED
  BY <1>3, <1>4

(* The fields are those of the columns of the world.                       *)
LEMMA FieldOf ==
  ASSUME SchemaInv, pc = "returned", NEW n \in DOMAIN fields
  PROVE  LET c == world.columns[Table][n]
             j == n \in jsonColumns
         IN  /\ n \in DOMAIN world.columns[Table] /\ DOMAIN columns = DOMAIN world.columns[Table]
             /\ Schema!IsColumn(c) /\ columns[n] = Schema!InfoRow(c)
             /\ fields[n] = Schema!ConvertRawColumnType(Schema!ColumnType(Schema!InfoRow(c), j))
BY DEF SchemaInv, SchemaRows, Schema!IsWorld

LEMMA JsonHolds == SchemaInv => Schema!JsonExact
<1> SUFFICES ASSUME SchemaInv, pc = "returned", answered # None,
                    NEW n \in DOMAIN fields, columns[n].dataType = "LONGTEXT"
             PROVE  fields[n].type = <<"json">> <=>
                      \E c \in answered.checks : c.tab = Table /\ n \in c.json
  BY DEF Schema!JsonExact
<1>1. fields[n].type = (IF n \in jsonColumns THEN <<"json">> ELSE <<"string">>)
  <2> DEFINE j == n \in jsonColumns
  <2>1. fields[n] = Schema!ConvertRawColumnType(Schema!ColumnType(columns[n], j))
    BY FieldOf
  <2>2. j \in BOOLEAN
    OBVIOUS
  <2> HIDE DEF j
  <2>3. fields[n].type = (IF j THEN <<"json">> ELSE <<"string">>)
    BY <2>1, <2>2, JsonConverted
  <2> QED
    BY <2>3 DEF j
<1>2. fields[n].type = <<"json">> <=> n \in jsonColumns
  BY <1>1
<1>3. answered = world /\ jsonColumns = (UNION Schema!CheckClauses) \cap DOMAIN columns
      /\ n \in DOMAIN columns
  BY FieldOf DEF SchemaInv
<1>4. n \in UNION Schema!CheckClauses <=> \E c \in world.checks : c.tab = Table /\ n \in c.json
  <2>1. \A c, d \in world.checks : c.tab = Table /\ c.name = d.name => d.tab = Table
    BY DEF SchemaInv, Schema!IsWorld
  <2>2. n \in UNION Schema!CheckClauses <=>
          \E d \in world.checks : n \in d.json
            /\ \E t \in world.checks : t.tab = Table /\ t.name = d.name
    BY DEF Schema!CheckClauses
  <2> QED
    BY <2>1, <2>2
<1>5. n \in jsonColumns <=> n \in UNION Schema!CheckClauses
  BY <1>3, Zenon
<1> QED
  BY <1>2, <1>3, <1>4, <1>5, Zenon

(* A VECTOR whose width the result omits, under either name, is binary.    *)
LEMMA WidthlessIsBinary ==
  ASSUME NEW c, Schema!IsColumn(c), c.type = "VECTOR", NEW base \in {"VECTOR", "BLOB"}
  PROVE  Schema!ConvertRawColumnType(Schema!WidthlessColumn(c, base)).type = <<"binary">>
<1> DEFINE w == Schema!WidthlessColumn(c, base)
<1>1. /\ w = [name |-> w.name, precision |-> w.precision, scale |-> w.scale, length |-> w.length]
      /\ w.name = [base |-> base, sign |-> "none"] /\ w.length = None
  <2> DEFINE y == Schema!ResultColumn(c)
  <2>1. ~c.unsigned
    BY DEF Schema!IsColumn, Schema!IntegerTypes
  <2>2. /\ y = [name |-> y.name, precision |-> y.precision, scale |-> y.scale, length |-> y.length]
        /\ y.name = [base |-> y.name.base, sign |-> "none"]
    BY <2>1 DEF Schema!ResultColumn
  <2>3. w = [y EXCEPT !.name.base = base, !.length = None]
    BY DEF Schema!WidthlessColumn
  <2> HIDE DEF w, y
  <2>4. w = [name |-> [y.name EXCEPT !.base = base], precision |-> y.precision,
             scale |-> y.scale, length |-> None]
    BY <2>2, <2>3
  <2>5. [y.name EXCEPT !.base = base] = [base |-> base, sign |-> "none"]
    BY <2>2
  <2> QED
    BY <2>4, <2>5
<1> HIDE DEF w
<1>2. Schema!normalizeUnsignedTypeName(w.name) = w.name
  BY <1>1 DEF Schema!normalizeUnsignedTypeName
<1>3. [w EXCEPT !.name = Schema!normalizeUnsignedTypeName(@)] = w /\ w.name.base = base
  BY <1>1, <1>2
<1>4. CASE base = "VECTOR"
  <2>1. Schema!ConvertRawColumnType(w) = Schema!ConvertVector(w.length)
    BY <1>3, <1>4 DEF Schema!ConvertRawColumnType, Schema!SpatialTypes
  <2> QED
    BY <1>1, <2>1 DEF Schema!ConvertVector, Schema!Converted, w
<1>5. CASE base = "BLOB"
  <2>1. Schema!ConvertRawColumnType(w) = Schema!Converted(Schema!DefaultConvert(w), "none")
    BY <1>3, <1>5, ConvertOther DEF ConvertedTypes, FixedTypes, Schema!SpatialTypes
  <2>2. Schema!DefaultConvert(w) = <<"binary">>
    BY <1>3, <1>5 DEF Schema!DefaultConvert, Schema!IntegerTypes
  <2> QED
    BY <2>1, <2>2 DEF Schema!Converted, w
<1> QED
  BY <1>4, <1>5

LEMMA ResultsAgree ==
  ASSUME SchemaInv, pc = "returned", NEW n \in DOMAIN fields
  PROVE  Schema!ResultAgrees(n)
<1> DEFINE c == world.columns[Table][n]
<1>1. Schema!IsColumn(c) /\ Schema!Column(n) = c
  BY FieldOf DEF Schema!Column
<1>2. CASE n \in jsonColumns
  BY <1>2 DEF Schema!ResultAgrees
<1>3. CASE n \notin jsonColumns
  <2>1. fields[n] = Schema!ConvertRawColumnType(Schema!ColumnType(Schema!InfoRow(c), FALSE))
    <3> DEFINE j == n \in jsonColumns
    <3>1. fields[n] = Schema!ConvertRawColumnType(Schema!ColumnType(Schema!InfoRow(c), j))
      BY FieldOf
    <3>2. j = FALSE
      BY <1>3
    <3> HIDE DEF j
    <3> QED
      BY <3>1, <3>2
  <2> HIDE DEF c
  <2>2. CASE c.type # "UUID"
    BY <1>1, <2>1, <2>2, ConvertAgrees, WidthlessIsBinary DEF Schema!ResultAgrees
  <2>3. CASE c.type = "UUID"
    <3> DEFINE x == Schema!ColumnType(Schema!InfoRow(c), FALSE)
    <3>1. /\ [x EXCEPT !.name = Schema!normalizeUnsignedTypeName(@)] = x
          /\ x.name = Schema!ColumnName(Schema!InfoRow(c), FALSE)
      BY NamedAs
    <3>2. x.name.base = "UUID"
      <4>1. Schema!InfoRow(c).dataType = "UUID"
        BY <2>3 DEF Schema!InfoRow
      <4> DEFINE name == Schema!ColumnName(Schema!InfoRow(c), FALSE)
      <4>2. name = [base |-> "UUID", sign |-> "none"] /\ x.name = name
        BY <3>1, <4>1 DEF Schema!ColumnName, Schema!IntegerTypes
      <4> HIDE DEF name, x
      <4> QED
        BY <4>2
    <3> HIDE DEF x
    <3>3. Schema!ConvertRawColumnType(x) = Fixed("UUID")
      BY <3>1, <3>2, ConvertFixed DEF FixedTypes
    <3>4. Schema!ConvertRawColumnType(x).type = <<"uuid">>
      BY <3>3 DEF Fixed, Schema!Converted, Schema!SpatialTypes
    <3> QED
      BY <1>1, <2>1, <2>3, <3>4 DEF Schema!ResultAgrees, x
  <2> QED
    BY <2>2, <2>3
<1> QED
  BY <1>2, <1>3

(* What GetObjects says of the size and the digits.                        *)
LEMMA SizeAgrees ==
  ASSUME NEW c, Schema!IsColumn(c)
  PROVE  LET row  == Schema!InfoRow(c)
             info == Schema!buildColumnInfo(row)
         IN  /\ info.size # None => info.size \in 0 .. MaxInt32
             /\ row.charMax # None /\ row.charMax <= MaxInt32 => info.size = row.charMax
<1> DEFINE row  == Schema!InfoRow(c)
           info == Schema!buildColumnInfo(row)
<1>1. {row.charMax, row.numeric, row.datetime} \subseteq Nat \cup {None}
  <2>1. {c.precision, c.width} \subseteq Nat \cup {None}
    BY DEF Schema!IsColumn
  <2> QED
    BY <2>1, SchemaAssumption DEF Schema!InfoRow
<1>2. info.size = (IF Schema!ColumnSize(row) = None THEN None
                   ELSE Schema!clampInt32(Schema!ColumnSize(row)))
  BY DEF Schema!buildColumnInfo
<1> HIDE DEF row, info
<1>3. Schema!ColumnSize(row) \in Nat \cup {None}
  BY <1>1 DEF Schema!ColumnSize
<1>4. info.size # None => info.size \in 0 .. MaxInt32
  BY <1>2, <1>3, SchemaAssumption DEF Schema!clampInt32
<1>5. row.charMax # None /\ row.charMax <= MaxInt32 => info.size = row.charMax
  BY <1>1, <1>2, SchemaAssumption DEF Schema!clampInt32, Schema!ColumnSize
<1> QED
  BY <1>4, <1>5 DEF row, info

(* Only temporal columns become durations and timestamps.                  *)
LEMMA UnitOf ==
  ASSUME NEW c, Schema!IsColumn(c), NEW json \in BOOLEAN,
         Schema!ConvertRawColumnType(Schema!ColumnType(Schema!InfoRow(c), json)).type[1]
           \in {"duration", "timestamp"}
  PROVE  /\ c.type \in Schema!TemporalTypes
         /\ Schema!ConvertRawColumnType(Schema!ColumnType(Schema!InfoRow(c), json)).type[2] =
              Schema!TimeUnit(c.precision)
<1> DEFINE row == Schema!InfoRow(c)
           x   == Schema!ColumnType(row, json)
           t   == Schema!ConvertRawColumnType(x).type
<1>1. /\ [x EXCEPT !.name = Schema!normalizeUnsignedTypeName(@)] = x
      /\ x.name = Schema!ColumnName(row, json) /\ x.precision = Schema!ColumnPrecision(row)
  BY NamedAs
<1>2. /\ row.dataType = (IF c.type = "JSON" THEN "LONGTEXT" ELSE c.type)
      /\ row.numeric = (IF c.type = "DECIMAL" THEN c.precision ELSE None)
      /\ row.datetime = (IF c.type \in Schema!TemporalTypes THEN c.precision ELSE None)
  BY DEF Schema!InfoRow
<1>3. t[1] \in {"duration", "timestamp"}
  OBVIOUS
<1> HIDE DEF row, x, t
<1>4. x.name.base \in {row.dataType, "JSON"}
  BY <1>1 DEF Schema!ColumnName
<1>5. CASE x.name.base \in FixedTypes
  <2>1. t = Fixed(x.name.base).type
    BY <1>1, <1>5, ConvertFixed DEF t
  <2>2. \E k \in {"uuid", "string", "json", "int16", "binary"} : \E g :
          Fixed(x.name.base) = Schema!Converted(<<k>>, g)
    BY <1>5 DEF Fixed
  <2>3. \E k \in {"uuid", "string", "json", "int16", "binary"} : t = <<k>>
    BY <2>1, <2>2 DEF Schema!Converted
  <2> QED
    BY <1>3, <2>3
<1>6. CASE x.name.base = "DECIMAL"
  <2>1. t = <<"string">> \/ t = Schema!DefaultConvert(x)
    BY <1>1, <1>6, ConvertDecimal DEF t, Schema!Converted
  <2>2. Schema!DefaultConvert(x) = <<"decimal", x.precision, x.scale>>
    BY <1>6 DEF Schema!DefaultConvert, Schema!IntegerTypes
  <2> QED
    BY <1>3, <2>1, <2>2
<1>7. CASE x.name.base = "VECTOR"
  <2>1. Schema!ConvertRawColumnType(x) = Schema!ConvertVector(x.length)
    BY <1>1, <1>7 DEF Schema!ConvertRawColumnType, Schema!SpatialTypes
  <2>2. t[1] \in {"vector", "binary"}
    BY <2>1 DEF Schema!ConvertVector, Schema!Converted, t
  <2> QED
    BY <1>3, <2>2
<1>8. ASSUME x.name.base \in Schema!TemporalTypes
      PROVE  c.type \in Schema!TemporalTypes /\ x.precision = c.precision
  <2>1. c.type = x.name.base
    BY <1>2, <1>4, <1>8 DEF Schema!TemporalTypes
  <2>2. c.type \in Schema!TemporalTypes /\ c.precision # None
    BY <1>8, <2>1 DEF Schema!IsColumn
  <2> QED
    BY <1>1, <1>2, <2>1, <2>2 DEF Schema!ColumnPrecision, Schema!TemporalTypes
<1>9. CASE x.name.base \in {"TIME", "TIMESTAMP"}
  <2>1. t = (IF x.name.base = "TIME" THEN <<"duration", Schema!TimeUnit(x.precision)>>
                                     ELSE <<"timestamp", Schema!TimeUnit(x.precision), TRUE>>)
    <3>1. Schema!ConvertRawColumnType(x) =
            IF x.name.base = "TIME"
              THEN Schema!Converted(<<"duration", Schema!TimeUnit(x.precision)>>, "time_duration")
              ELSE Schema!Converted(<<"timestamp", Schema!TimeUnit(x.precision), TRUE>>, "none")
      BY <1>1, <1>9, ConvertTime
    <3>2. \A k, g : Schema!Converted(k, g).type = k
      BY DEF Schema!Converted
    <3> QED
      BY <3>1, <3>2 DEF t
  <2>2. t[2] = Schema!TimeUnit(x.precision)
    BY <2>1
  <2> QED
    BY <1>8, <1>9, <2>2 DEF Schema!TemporalTypes, t, x, row
<1>10. CASE x.name.base \notin ConvertedTypes
  <2>1. t = Schema!DefaultConvert(x)
    BY <1>1, <1>10, ConvertOther DEF Schema!Converted, t
  <2>2. CASE x.name.base = "DATETIME"
    <3>1. t = <<"timestamp", Schema!TimeUnit(x.precision), FALSE>>
      BY <2>1, <2>2 DEF Schema!DefaultConvert, Schema!IntegerTypes
    <3> QED
      BY <1>8, <2>2, <3>1 DEF Schema!TemporalTypes, t, x, row
  <2>3. CASE x.name.base # "DATETIME"
    <3>1. CASE x.name.base \in Schema!IntegerTypes /\ x.name.sign \in {"none", "after"}
      <4>1. t \in {<<Schema!SignedTypes[x.name.base]>>, <<Schema!UnsignedTypes[x.name.base]>>}
        BY <2>1, <3>1 DEF Schema!DefaultConvert, Schema!IntegerTypes
      <4>2. t[1] \in {Schema!SignedTypes[x.name.base], Schema!UnsignedTypes[x.name.base]}
        BY <4>1
      <4> QED
        BY <1>3, <3>1, <4>2 DEF Schema!IntegerTypes, Schema!SignedTypes, Schema!UnsignedTypes
    <3>2. CASE ~(x.name.base \in Schema!IntegerTypes /\ x.name.sign \in {"none", "after"})
      <4>1. \E k \in {"float32", "float64", "date32", "binary", "string"} : t = <<k>>
        BY <1>10, <2>1, <2>3, <3>2 DEF Schema!DefaultConvert, ConvertedTypes
      <4> QED
        BY <1>3, <4>1
    <3> QED
      BY <3>1, <3>2
  <2> QED
    BY <2>2, <2>3
<1> QED
  BY <1>5, <1>6, <1>7, <1>9, <1>10 DEF ConvertedTypes

LEMMA AgreeHolds == SchemaInv => Schema!SchemasAgree
<1> SUFFICES ASSUME SchemaInv, pc = "returned", NEW n \in DOMAIN fields
             PROVE  Schema!ObjectAgrees(n)
  BY ResultsAgree DEF Schema!SchemasAgree
<1> DEFINE c    == world.columns[Table][n]
           row  == columns[n]
           info == Schema!buildColumnInfo(row)
           j    == n \in jsonColumns
<1>1. /\ Schema!IsColumn(c) /\ row = Schema!InfoRow(c)
      /\ fields[n] = Schema!ConvertRawColumnType(Schema!ColumnType(row, j))
      /\ j \in BOOLEAN
  BY FieldOf
<1> HIDE DEF c, row, j
<1>2. ~j => fields[n] = Schema!ConvertRawColumnType([Schema!ColumnType(row, FALSE) EXCEPT !.name = info.typeName])
  <2> DEFINE x == Schema!ColumnType(row, FALSE)
  <2>1. /\ x = [name |-> x.name, precision |-> x.precision, scale |-> x.scale, length |-> x.length]
        /\ x.name = Schema!ColumnName(row, FALSE)
    BY DEF Schema!ColumnType
  <2>2. info.typeName = Schema!ColumnName(row, FALSE)
    BY DEF Schema!buildColumnInfo
  <2> HIDE DEF x, info
  <2>3. [x EXCEPT !.name = info.typeName] = x
    BY <2>1, <2>2
  <2>4. ~j => fields[n] = Schema!ConvertRawColumnType(x)
    <3>1. ~j => j = FALSE
      BY <1>1
    <3> QED
      BY <1>1, <3>1 DEF x
  <2> QED
    BY <2>3, <2>4 DEF x
<1>3. fields[n].type[1] \in {"duration", "timestamp"} => Schema!TimeUnit(info.digits) = fields[n].type[2]
  <2> SUFFICES ASSUME fields[n].type[1] \in {"duration", "timestamp"}
               PROVE  Schema!TimeUnit(info.digits) = fields[n].type[2]
    OBVIOUS
  <2>1. c.type \in Schema!TemporalTypes /\ fields[n].type[2] = Schema!TimeUnit(c.precision)
    BY <1>1, UnitOf
  <2>2. c.scale = None
    BY <1>1, <2>1 DEF Schema!IsColumn, Schema!TemporalTypes
  <2>3. info.digits = c.precision
    BY <1>1, <2>1, <2>2 DEF Schema!buildColumnInfo, Schema!InfoRow
  <2> QED
    BY <2>1, <2>3
<1>4. /\ info.size # None => info.size \in 0 .. MaxInt32
      /\ row.charMax # None /\ row.charMax <= MaxInt32 => info.size = row.charMax
  BY <1>1, SizeAgrees
<1> QED
  BY <1>2, <1>3, <1>4 DEF Schema!ObjectAgrees, row, j

(* The digits an ingest asks for are read back as the unit.                *)
LEMMA UnitKept ==
  ASSUME NEW u \in ArrowUnits
  PROVE  Schema!TimeUnit(Schema!UnitDigits[u]) = IF u = "ns" THEN "us" ELSE u
BY TypeConversionAssumption DEF Schema!TimeUnit, Schema!UnitDigits, ArrowUnits

(* The conversion of a column declared without precision, or with one.     *)
Field(c) == Schema!ConvertRawColumnType(Schema!ColumnType(Schema!InfoRow(c), FALSE)).type

LEMMA ColumnGiven ==
  ASSUME NEW c, c.type # "JSON"
  PROVE  LET x == Schema!ColumnType(Schema!InfoRow(c), FALSE)
         IN  /\ [x EXCEPT !.name = Schema!normalizeUnsignedTypeName(@)] = x
             /\ x.name.base = c.type
             /\ x.name.sign = IF c.type \in Schema!IntegerTypes /\ c.unsigned THEN "after" ELSE "none"
             /\ c.type \in Schema!TemporalTypes /\ c.precision # None => x.precision = c.precision
             /\ c.type = "DECIMAL" => x.precision = c.precision
             /\ x.scale = c.scale
<1> DEFINE row == Schema!InfoRow(c)
           x   == Schema!ColumnType(row, FALSE)
<1>1. /\ [x EXCEPT !.name = Schema!normalizeUnsignedTypeName(@)] = x
      /\ x.name = Schema!ColumnName(row, FALSE) /\ x.precision = Schema!ColumnPrecision(row)
      /\ x.scale = row.scale
  BY NamedAs
<1>2. /\ row.dataType = c.type /\ row.unsigned = c.unsigned /\ row.scale = c.scale
      /\ row.numeric = (IF c.type = "DECIMAL" THEN c.precision ELSE None)
      /\ row.datetime = (IF c.type \in Schema!TemporalTypes THEN c.precision ELSE None)
  BY DEF Schema!InfoRow
<1> HIDE DEF row, x
<1>3. x.name.base = c.type
      /\ x.name.sign = IF c.type \in Schema!IntegerTypes /\ c.unsigned THEN "after" ELSE "none"
  BY <1>1, <1>2 DEF Schema!ColumnName
<1>4. /\ c.type \in Schema!TemporalTypes /\ c.precision # None => x.precision = c.precision
      /\ c.type = "DECIMAL" => x.precision = c.precision
  BY <1>1, <1>2 DEF Schema!ColumnPrecision, Schema!TemporalTypes
<1> QED
  BY <1>1, <1>2, <1>3, <1>4 DEF x, row

LEMMA PlainField ==
  ASSUME NEW t \in {"TINYINT", "FLOAT", "DOUBLE", "BLOB", "LONGBLOB", "DATE", "TEXT"}
  PROVE  Field(Schema!Declared(t)) =
           CASE t = "TINYINT" -> <<"int8">>
             [] t = "FLOAT" -> <<"float32">>
             [] t = "DOUBLE" -> <<"float64">>
             [] t \in {"BLOB", "LONGBLOB"} -> <<"binary">>
             [] t = "DATE" -> <<"date32">>
             [] OTHER -> <<"string">>
<1> DEFINE c == Schema!Declared(t)
           x == Schema!ColumnType(Schema!InfoRow(c), FALSE)
<1>1. c.type = t /\ c.unsigned = FALSE
  BY DEF Schema!Declared
<1> HIDE DEF c
<1>2. c.type # "JSON"
  BY <1>1
<1>3. /\ [x EXCEPT !.name = Schema!normalizeUnsignedTypeName(@)] = x
      /\ x.name.base = t /\ x.name.sign = "none"
  BY <1>1, <1>2, ColumnGiven
<1> HIDE DEF x
<1>4. Field(c) = Schema!DefaultConvert(x)
  <2>1. x.name.base \notin ConvertedTypes
    BY <1>3 DEF ConvertedTypes, FixedTypes, Schema!SpatialTypes
  <2>2. Schema!ConvertRawColumnType(x) = Schema!Converted(Schema!DefaultConvert(x), "none")
    BY <1>3, <2>1, ConvertOther
  <2>3. Schema!ConvertRawColumnType(x).type = Schema!DefaultConvert(x)
    BY <2>2 DEF Schema!Converted
  <2> QED
    BY <2>3 DEF Field, x
<1>5. Field(c) = CASE t = "TINYINT" -> <<"int8">>
                   [] t = "FLOAT" -> <<"float32">>
                   [] t = "DOUBLE" -> <<"float64">>
                   [] t \in {"BLOB", "LONGBLOB"} -> <<"binary">>
                   [] t = "DATE" -> <<"date32">>
                   [] OTHER -> <<"string">>
  BY <1>3, <1>4 DEF Schema!DefaultConvert, Schema!IntegerTypes, Schema!SignedTypes
<1> QED
  BY <1>5 DEF c

LEMMA IntegerField ==
  ASSUME NEW k \in DOMAIN Schema!IntegerOf, NEW u \in BOOLEAN,
         u <=> k \in {"uint8", "uint16", "uint32", "uint64"}
  PROVE  Field([Schema!Declared(Schema!IntegerOf[k]) EXCEPT !.unsigned = u]) = <<k>>
<1> DEFINE c == [Schema!Declared(Schema!IntegerOf[k]) EXCEPT !.unsigned = u]
           x == Schema!ColumnType(Schema!InfoRow(c), FALSE)
           t == Schema!IntegerOf[k]
<1>1. c.type = t /\ c.unsigned = u
  BY DEF Schema!Declared
<1>2. t \in Schema!IntegerTypes
  BY DEF Schema!IntegerOf, Schema!IntegerTypes
<1> HIDE DEF c, t
<1>3. c.type # "JSON"
  BY <1>1, <1>2 DEF Schema!IntegerTypes
<1>4. /\ [x EXCEPT !.name = Schema!normalizeUnsignedTypeName(@)] = x
      /\ x.name.base = t /\ x.name.sign = IF u THEN "after" ELSE "none"
  BY <1>1, <1>2, <1>3, ColumnGiven
<1> HIDE DEF x
<1>5. Field(c) = Schema!DefaultConvert(x)
  <2>1. x.name.base \notin ConvertedTypes
    BY <1>2, <1>4 DEF ConvertedTypes, FixedTypes, Schema!SpatialTypes, Schema!IntegerTypes
  <2>2. Schema!ConvertRawColumnType(x) = Schema!Converted(Schema!DefaultConvert(x), "none")
    BY <1>4, <2>1, ConvertOther
  <2>3. Schema!ConvertRawColumnType(x).type = Schema!DefaultConvert(x)
    BY <2>2 DEF Schema!Converted
  <2> QED
    BY <2>3 DEF Field, x
<1>6. /\ u => Schema!DefaultConvert(x) = <<Schema!UnsignedTypes[t]>>
      /\ ~u => Schema!DefaultConvert(x) = <<Schema!SignedTypes[t]>>
  <2>1. CASE u
    <3>1. x.name.sign = "after"
      BY <1>4, <2>1
    <3> QED
      BY <1>2, <1>4, <2>1, <3>1 DEF Schema!DefaultConvert, Schema!IntegerTypes
  <2>2. CASE ~u
    <3>1. x.name.sign = "none"
      BY <1>4, <2>2
    <3> QED
      BY <1>2, <1>4, <2>2, <3>1 DEF Schema!DefaultConvert, Schema!IntegerTypes
  <2> QED
    BY <2>1, <2>2
<1>7. (u => Schema!UnsignedTypes[t] = k) /\ (~u => Schema!SignedTypes[t] = k)
  BY DEF Schema!IntegerOf, Schema!UnsignedTypes, Schema!SignedTypes, t
<1>8. Schema!DefaultConvert(x) = <<k>>
  BY <1>6, <1>7
<1> QED
  BY <1>5, <1>8 DEF c, t

LEMMA TimeField ==
  ASSUME NEW t \in Schema!TemporalTypes, NEW p \in Nat
  PROVE  Field(Schema!WithPrecision(t, p)) =
           IF t = "TIME" THEN <<"duration", Schema!TimeUnit(p)>>
                         ELSE <<"timestamp", Schema!TimeUnit(p), t = "TIMESTAMP">>
<1> DEFINE c == Schema!WithPrecision(t, p)
           x == Schema!ColumnType(Schema!InfoRow(c), FALSE)
           r == Schema!ConvertRawColumnType(x)
<1>1. c.type = t /\ c.precision = p /\ p # None
  BY TypeConversionAssumption DEF Schema!WithPrecision, Schema!Declared
<1> HIDE DEF c
<1>2. c.type # "JSON"
  BY <1>1 DEF Schema!TemporalTypes
<1>3. /\ [x EXCEPT !.name = Schema!normalizeUnsignedTypeName(@)] = x
      /\ x.name.base = t /\ x.precision = p
  BY <1>1, <1>2, ColumnGiven
<1> HIDE DEF x
<1>4. \A k, g : Schema!Converted(k, g).type = k
  BY DEF Schema!Converted
<1>5. CASE t = "TIME"
  <2>1. r = Schema!Converted(<<"duration", Schema!TimeUnit(p)>>, "time_duration")
    BY <1>3, <1>5, ConvertTime
  <2>2. r.type = <<"duration", Schema!TimeUnit(p)>>
    BY <1>4, <2>1
  <2> QED
    BY <1>5, <2>2 DEF Field, x, c
<1>6. CASE t = "TIMESTAMP"
  <2>1. r = Schema!Converted(<<"timestamp", Schema!TimeUnit(p), TRUE>>, "none")
    <3>1. x.name.base = "TIMESTAMP" /\ x.name.base # "TIME"
      BY <1>3, <1>6
    <3>2. r = IF x.name.base = "TIME"
                THEN Schema!Converted(<<"duration", Schema!TimeUnit(x.precision)>>, "time_duration")
                ELSE Schema!Converted(<<"timestamp", Schema!TimeUnit(x.precision), TRUE>>, "none")
      BY <1>3, <3>1, ConvertTime
    <3> QED
      BY <1>3, <3>1, <3>2
  <2>2. r.type = <<"timestamp", Schema!TimeUnit(p), TRUE>>
    BY <1>4, <2>1
  <2>3. Field(c) = <<"timestamp", Schema!TimeUnit(p), TRUE>>
    BY <2>2 DEF Field, x
  <2> QED
    BY <1>6, <2>3 DEF c
<1>7. CASE t = "DATETIME"
  <2>1. r = Schema!Converted(Schema!DefaultConvert(x), "none")
    BY <1>3, <1>7, ConvertOther DEF ConvertedTypes, FixedTypes, Schema!SpatialTypes
  <2>2. Schema!DefaultConvert(x) = <<"timestamp", Schema!TimeUnit(p), FALSE>>
    BY <1>3, <1>7 DEF Schema!DefaultConvert, Schema!IntegerTypes
  <2>3. r.type = <<"timestamp", Schema!TimeUnit(p), FALSE>>
    BY <1>4, <2>1, <2>2
  <2> QED
    BY <1>7, <2>3 DEF Field, x, c
<1> QED
  BY <1>5, <1>6, <1>7 DEF Schema!TemporalTypes

LEMMA DecimalField ==
  ASSUME NEW p \in Nat, NEW q \in Nat
  PROVE  Field([Schema!Declared("DECIMAL") EXCEPT !.precision = p, !.scale = q]) =
           IF p > MaxDecimal THEN <<"string">> ELSE <<"decimal", p, q>>
<1> DEFINE c == [Schema!Declared("DECIMAL") EXCEPT !.precision = p, !.scale = q]
           x == Schema!ColumnType(Schema!InfoRow(c), FALSE)
           r == Schema!ConvertRawColumnType(x)
<1>1. c.type = "DECIMAL" /\ c.precision = p /\ c.scale = q /\ p # None /\ q # None
  BY TypeConversionAssumption DEF Schema!Declared
<1> HIDE DEF c
<1>2. c.type # "JSON"
  BY <1>1
<1>3. /\ [x EXCEPT !.name = Schema!normalizeUnsignedTypeName(@)] = x
      /\ x.name.base = "DECIMAL" /\ x.precision = p /\ x.scale = q
  BY <1>1, <1>2, ColumnGiven
<1> HIDE DEF x
<1>4. \A k, g : Schema!Converted(k, g).type = k
  BY DEF Schema!Converted
<1>5. CASE p > MaxDecimal
  <2>1. r = Schema!Converted(<<"string">>, "decimal256")
    BY <1>1, <1>3, <1>5, ConvertDecimal
  <2>2. r.type = <<"string">>
    BY <1>4, <2>1
  <2> QED
    BY <1>5, <2>2 DEF Field, x, c
<1>6. CASE ~(p > MaxDecimal)
  <2>1. r = Schema!Converted(Schema!DefaultConvert(x), "none")
    BY <1>1, <1>3, <1>6, ConvertDecimal
  <2>2. Schema!DefaultConvert(x) = <<"decimal", p, q>>
    BY <1>3 DEF Schema!DefaultConvert, Schema!IntegerTypes
  <2>3. r.type = <<"decimal", p, q>>
    BY <1>4, <2>1, <2>2
  <2> QED
    BY <1>6, <2>3 DEF Field, x, c
<1> QED
  BY <1>5, <1>6

LEMMA StoredKind ==
  ASSUME NEW k \in ArrowKinds
  PROVE  Field(Schema!arrowToMariaDBType(<<k>>)) = Schema!StoredAs(<<k>>)
<1> DEFINE a == <<k>>
<1>1. a[1] = k
  OBVIOUS
<1>2. CASE k \in DOMAIN Schema!IntegerOf
  <2> DEFINE u == k \in {"uint8", "uint16", "uint32", "uint64"}
  <2>1. u \in BOOLEAN
    OBVIOUS
  <2>2. Schema!arrowToMariaDBType(a) = [Schema!Declared(Schema!IntegerOf[k]) EXCEPT !.unsigned = u]
    BY <1>1, <1>2 DEF Schema!arrowToMariaDBType, Schema!IntegerOf
  <2>3. Field([Schema!Declared(Schema!IntegerOf[k]) EXCEPT !.unsigned = u]) = a
    BY <1>2, <2>1, IntegerField
  <2>4. Schema!StoredAs(a) = a
    BY <1>1, <1>2 DEF Schema!StoredAs, Schema!IntegerOf
  <2> QED
    BY <2>2, <2>3, <2>4
<1>3. CASE k \notin DOMAIN Schema!IntegerOf
  <2> DEFINE t == CASE k = "boolean" -> "TINYINT"
                    [] k = "float32" -> "FLOAT"
                    [] k = "float64" -> "DOUBLE"
                    [] k \in {"binary", "fixed_size_binary", "binary_view"} -> "BLOB"
                    [] k = "large_binary" -> "LONGBLOB"
                    [] k = "date32" -> "DATE"
                    [] OTHER -> "TEXT"
  <2>1. Schema!arrowToMariaDBType(a) = Schema!Declared(t)
    BY <1>1, <1>3 DEF Schema!arrowToMariaDBType, ArrowKinds
  <2>2. t \in {"TINYINT", "FLOAT", "DOUBLE", "BLOB", "LONGBLOB", "DATE", "TEXT"}
    OBVIOUS
  <2>3. Field(Schema!Declared(t)) =
           CASE t = "TINYINT" -> <<"int8">>
             [] t = "FLOAT" -> <<"float32">>
             [] t = "DOUBLE" -> <<"float64">>
             [] t \in {"BLOB", "LONGBLOB"} -> <<"binary">>
             [] t = "DATE" -> <<"date32">>
             [] OTHER -> <<"string">>
    <3> HIDE DEF t
    <3> QED
      BY <2>2, PlainField
  <2>4. Field(Schema!Declared(t)) = Schema!StoredAs(a)
    BY <1>1, <1>3, <2>3 DEF Schema!StoredAs, Schema!IntegerOf, ArrowKinds
  <2> QED
    BY <2>1, <2>4
<1> QED
  BY <1>2, <1>3

LEMMA Stored ==
  ASSUME NEW a \in ArrowType
  PROVE  Field(Schema!arrowToMariaDBType(a)) = Schema!StoredAs(a)
<1>1. CASE a \in {<<k>> : k \in ArrowKinds}
  BY <1>1, StoredKind
<1>2. CASE a \in {"timestamp"} \X ArrowUnits \X BOOLEAN
  <2>1. PICK u \in ArrowUnits, z \in BOOLEAN : a = <<"timestamp", u, z>>
    BY <1>2
  <2> DEFINE t == IF z THEN "TIMESTAMP" ELSE "DATETIME"
             v == IF u = "ns" THEN "us" ELSE u
  <2>2. Schema!arrowToMariaDBType(a) = Schema!WithPrecision(t, Schema!UnitDigits[u])
    BY <2>1 DEF Schema!arrowToMariaDBType, Schema!IntegerOf
  <2>3. Field(Schema!arrowToMariaDBType(a)) = <<"timestamp", v, t = "TIMESTAMP">>
    <3>1. t \in Schema!TemporalTypes /\ t # "TIME"
      BY DEF Schema!TemporalTypes
    <3>2. Schema!UnitDigits[u] \in Nat /\ Schema!TimeUnit(Schema!UnitDigits[u]) = v
      BY UnitDigitsOK, UnitKept
    <3> HIDE DEF t, v
    <3> QED
      BY <2>2, <3>1, <3>2, TimeField
  <2>4. (t = "TIMESTAMP") = z
    OBVIOUS
  <2>5. Schema!StoredAs(a) = <<"timestamp", v, z>>
    BY <2>1 DEF Schema!StoredAs
  <2> QED
    BY <2>3, <2>4, <2>5
<1>3. CASE a \in {"time32", "time64", "duration"} \X ArrowUnits
  <2>1. PICK k \in {"time32", "time64", "duration"}, u \in ArrowUnits : a = <<k, u>>
    BY <1>3
  <2> DEFINE v == IF u = "ns" THEN "us" ELSE u
  <2>2. Schema!arrowToMariaDBType(a) = Schema!WithPrecision("TIME", Schema!UnitDigits[u])
    BY <2>1 DEF Schema!arrowToMariaDBType, Schema!IntegerOf
  <2>3. Field(Schema!arrowToMariaDBType(a)) = <<"duration", v>>
    <3>1. Schema!UnitDigits[u] \in Nat /\ Schema!TimeUnit(Schema!UnitDigits[u]) = v
      BY UnitDigitsOK, UnitKept
    <3> HIDE DEF v
    <3> QED
      BY <2>2, <3>1, TimeField DEF Schema!TemporalTypes
  <2>4. Schema!StoredAs(a) = <<"duration", v>>
    BY <2>1 DEF Schema!StoredAs
  <2> QED
    BY <2>3, <2>4
<1>4. CASE a \in {"decimal"} \X Nat \X Nat
  <2>1. PICK p \in Nat, q \in Nat : a = <<"decimal", p, q>>
    BY <1>4
  <2>2. Schema!arrowToMariaDBType(a) =
          [Schema!Declared("DECIMAL") EXCEPT !.precision = p, !.scale = q]
    BY <2>1 DEF Schema!arrowToMariaDBType, Schema!IntegerOf
  <2>3. Schema!StoredAs(a) = IF p > MaxDecimal THEN <<"string">> ELSE a
    BY <2>1 DEF Schema!StoredAs
  <2> QED
    BY <2>1, <2>2, <2>3, DecimalField
<1>5. CASE a \in {"vector"} \X Nat
  <2>1. a[1] = "vector"
    BY <1>5
  <2>2. Schema!arrowToMariaDBType(a) = Schema!Declared("TEXT")
    BY <2>1 DEF Schema!arrowToMariaDBType, Schema!IntegerOf
  <2>3. Field(Schema!Declared("TEXT")) = <<"string">>
    BY PlainField
  <2>4. Schema!StoredAs(a) = <<"string">>
    BY <2>1 DEF Schema!StoredAs
  <2> QED
    BY <2>2, <2>3, <2>4
<1> QED
  BY <1>1, <1>2, <1>3, <1>4, <1>5 DEF ArrowType

LEMMA IngestHolds == SchemaInv => Schema!IngestTypesKept
<1> SUFFICES ASSUME SchemaInv, NEW a \in SchemaArrowTypes, pc = "returned",
                    world = Schema!Ingested(a)
             PROVE  fields["c"].type = Schema!StoredAs(a)
  BY DEF Schema!IngestTypesKept
<1>1. /\ world.columns[Table] = [n \in {"c"} |-> Schema!arrowToMariaDBType(a)]
      /\ world.checks = {}
  BY DEF Schema!Ingested
<1>2. DOMAIN fields = DOMAIN world.columns[Table]
  BY DEF SchemaInv, SchemaRows
<1>3. "c" \in DOMAIN fields
  BY <1>1, <1>2
<1>4. jsonColumns = {}
  <2>1. Schema!CheckClauses = {}
    BY <1>1 DEF Schema!CheckClauses
  <2> QED
    BY <2>1 DEF SchemaInv
<1>5. fields["c"] =
        Schema!ConvertRawColumnType(Schema!ColumnType(Schema!InfoRow(Schema!arrowToMariaDBType(a)), FALSE))
  <2> DEFINE c == world.columns[Table]["c"]
             j == "c" \in jsonColumns
  <2>1. fields["c"] = Schema!ConvertRawColumnType(Schema!ColumnType(Schema!InfoRow(c), j))
    BY <1>3, FieldOf
  <2>2. c = Schema!arrowToMariaDBType(a) /\ j = FALSE
    BY <1>1, <1>4
  <2> HIDE DEF c, j
  <2> QED
    BY <2>1, <2>2
<1>6. Field(Schema!arrowToMariaDBType(a)) = Schema!StoredAs(a)
  BY SchemaAssumption, Stored
<1> QED
  BY <1>5, <1>6 DEF Field

-----------------------------------------------------------------------------
(* GetObjects: the rows of the first query.                                *)

Before(r, s) ==
  \/ Objects!Weight(r.cat) < Objects!Weight(s.cat)
  \/ /\ Objects!Weight(r.cat) = Objects!Weight(s.cat)
     /\ \/ Objects!Weight(r.tab) < Objects!Weight(s.tab)
        \/ /\ Objects!Weight(r.tab) = Objects!Weight(s.tab)
           /\ Objects!Position(r.pos) < Objects!Position(s.pos)

KeyInfo   == [name : Nat, type : STRING, cols : Seq(Nat), refs : Seq(Nat)]
TableInfo == [tab : Nat, type : STRING, cols : Seq(Nat), keys : Seq(KeyInfo)]
CatInfo   == [cat : Nat, schemas : {0, 1, None}, tables : Seq(TableInfo)]

(* list lists the catalogs of the rows D, in order.                        *)
CatalogsListed(list, D) ==
  /\ \A i \in 1 .. Len(list) : \E r \in D : r.cat = list[i].cat
  /\ \A r \in D : \E i \in 1 .. Len(list) : list[i].cat = r.cat
  /\ \A i, j \in 1 .. Len(list) :
       i < j => Objects!Weight(list[i].cat) < Objects!Weight(list[j].cat)

TablesListed(list, D) ==
  /\ \A i \in 1 .. Len(list) : \A x \in 1 .. Len(list[i].tables) :
       \E r \in D : /\ r.cat = list[i].cat /\ r.tab = list[i].tables[x].tab
                    /\ r.type = list[i].tables[x].type /\ r.tab # None
  /\ \A r \in D : r.tab # None =>
       \E i \in 1 .. Len(list) : \E x \in 1 .. Len(list[i].tables) :
         list[i].cat = r.cat /\ list[i].tables[x].tab = r.tab
  /\ \A i \in 1 .. Len(list) : \A x, y \in 1 .. Len(list[i].tables) :
       x < y => Objects!Weight(list[i].tables[x].tab) < Objects!Weight(list[i].tables[y].tab)

PositionsRead(t, D) ==
  {p \in Objects!ColumnsJoined(t) : \E r \in D : r.cat = t.cat /\ r.tab = t.tab /\ r.pos = p}

ColumnsRead(t, cols, D) ==
  /\ Len(cols) = Objects!Cardinality(PositionsRead(t, D))
  /\ \A m \in 1 .. Len(cols) : \E p \in PositionsRead(t, D) :
       Objects!Rank(Objects!ColumnsJoined(t), p) = m /\ cols[m] = t.cols[p]

ColumnsListed(w, list, D) ==
  \A i \in 1 .. Len(list) : \A x \in 1 .. Len(list[i].tables) : \A t \in w.tables :
    t.cat = list[i].cat /\ t.tab = list[i].tables[x].tab =>
      ColumnsRead(t, list[i].tables[x].cols, D)

LastOf(list) ==
  IF list = <<>> THEN Objects!NoPlace
  ELSE IF list[Len(list)].tables = <<>> THEN Objects!NoPlace
  ELSE <<Len(list), Len(list[Len(list)].tables)>>

NoKeys(list) == \A i \in 1 .. Len(list) : \A x \in 1 .. Len(list[i].tables) :
                  list[i].tables[x].keys = <<>>

ObjectsSeen == Objects!ObjectRows(answered.objects)

Grouped(w, list, D) ==
  CatalogsListed(list, D) /\ TablesListed(list, D) /\ ColumnsListed(w, list, D)


LEMMA WeightOf ==
  /\ \A a \in Nat : Objects!Weight(a) \in Nat
  /\ Objects!Weight(None) = -1
<1>1. \A a \in Nat : a # None
  BY TypeConversionAssumption
<1> QED
  BY <1>1 DEF Objects!Weight

(* The rows of the first query.                                            *)
Joined(w, cat) == Objects!TablesJoined(w, cat, Objects!SchemaJoined)

CatalogRow(cat)      == Objects!ObjectRow(cat, None, None, None, None)
TableRowOf(cat, t)   == Objects!ObjectRow(cat, t.tab, t.type, None, None)
ColumnRow(cat, t, p) == Objects!ObjectRow(cat, t.tab, t.type, p, t.cols[p])

LEMMA ColumnRowsAre ==
  ASSUME NEW cat, NEW t, NEW r
  PROVE  r \in Objects!ColumnRows(cat, t) <=>
           \/ Objects!ColumnsJoined(t) = {} /\ r = TableRowOf(cat, t)
           \/ \E p \in Objects!ColumnsJoined(t) : r = ColumnRow(cat, t, p)
BY DEF Objects!ColumnRows, TableRowOf, ColumnRow

LEMMA CatalogRowsAre ==
  ASSUME NEW w, NEW cat, NEW r
  PROVE  r \in Objects!CatalogRows(w, cat) <=>
           \/ Joined(w, cat) = {} /\ r = CatalogRow(cat)
           \/ \E t \in Joined(w, cat) : r \in Objects!ColumnRows(cat, t)
<1>1. Objects!CatalogRows(w, cat) =
        IF Joined(w, cat) = {} THEN {CatalogRow(cat)}
        ELSE UNION {Objects!ColumnRows(cat, t) : t \in Joined(w, cat)}
  BY DEF Objects!CatalogRows, CatalogRow, Joined
<1>2. r \in UNION {Objects!ColumnRows(cat, t) : t \in Joined(w, cat)} <=>
        \E t \in Joined(w, cat) : r \in Objects!ColumnRows(cat, t)
  OBVIOUS
<1>3. CASE Joined(w, cat) = {}
  BY <1>1, <1>3
<1>4. CASE Joined(w, cat) # {}
  BY <1>1, <1>2, <1>4
<1> QED
  BY <1>3, <1>4

LEMMA ObjectRowsAre ==
  ASSUME NEW w, NEW r
  PROVE  r \in Objects!ObjectRows(w) <=>
           \E cat \in w.catalogs \cap request.cats :
             \/ Joined(w, cat) = {} /\ r = CatalogRow(cat)
             \/ \E t \in Joined(w, cat) :
                  \/ Objects!ColumnsJoined(t) = {} /\ r = TableRowOf(cat, t)
                  \/ \E p \in Objects!ColumnsJoined(t) : r = ColumnRow(cat, t, p)
<1>1. r \in Objects!ObjectRows(w) <=>
        \E cat \in w.catalogs \cap request.cats : r \in Objects!CatalogRows(w, cat)
  BY DEF Objects!ObjectRows
<1> QED
  BY <1>1, CatalogRowsAre, ColumnRowsAre

(* What a row says, and how it compares with others.                       *)
LEMMA JoinedIs ==
  ASSUME NEW w, Objects!IsWorld(w), NEW cat, NEW t \in Joined(w, cat)
  PROVE  /\ t \in w.tables /\ t.cat = cat /\ Objects!TableMatches(t)
         /\ t.tab \in Nat /\ t.tab # None /\ t.type \in STRING /\ t.cols \in Seq(Nat)
         /\ Objects!SchemaJoined /\ Objects!includeTables
         /\ \A u \in w.tables :
              u.cat = cat /\ Objects!Weight(u.tab) = Objects!Weight(t.tab) => u = t
<1>1. t \in w.tables /\ t.cat = cat /\ Objects!TableMatches(t) /\ Objects!SchemaJoined
      /\ Objects!includeTables
  BY DEF Joined, Objects!TablesJoined
<1>2. Objects!TableOK(w, t)
  BY <1>1 DEF Objects!IsWorld
<1>3. \A a \in Nat : a # None
  BY TypeConversionAssumption
<1> QED
  BY <1>1, <1>2, <1>3 DEF Objects!TableOK

LEMMA PositionIs ==
  ASSUME NEW t, t.cols \in Seq(Nat), NEW p \in Objects!ColumnsJoined(t)
  PROVE  /\ p \in Nat /\ p # 0 /\ p # None /\ Objects!Position(p) = p
         /\ t.cols[p] \in Nat /\ t.cols[p] # None
<1>1. p \in 1 .. Len(t.cols)
  BY DEF Objects!ColumnsJoined
<1>2. \A a \in Nat : a # None
  BY TypeConversionAssumption
<1> QED
  BY <1>1, <1>2 DEF Objects!Position

(* A row of the query, as fields.                                          *)
LEMMA RowIs ==
  ASSUME NEW w, Objects!IsWorld(w), NEW r \in Objects!ObjectRows(w)
  PROVE  /\ r.cat \in w.catalogs /\ r.cat \in request.cats /\ r.cat \in Nat
         /\ r.schema = Objects!SchemaJoined
         /\ r.tab = None => r = CatalogRow(r.cat) /\ Joined(w, r.cat) = {}
         /\ r.tab # None => \E t \in Joined(w, r.cat) :
              /\ r.tab = t.tab /\ r.type = t.type
              /\ \/ Objects!ColumnsJoined(t) = {} /\ r = TableRowOf(r.cat, t)
                 \/ r.pos \in Objects!ColumnsJoined(t) /\ r = ColumnRow(r.cat, t, r.pos)
<1>1. PICK cat \in w.catalogs \cap request.cats :
        \/ Joined(w, cat) = {} /\ r = CatalogRow(cat)
        \/ \E t \in Joined(w, cat) :
             \/ Objects!ColumnsJoined(t) = {} /\ r = TableRowOf(cat, t)
             \/ \E p \in Objects!ColumnsJoined(t) : r = ColumnRow(cat, t, p)
  BY ObjectRowsAre
<1>2. r.cat = cat /\ r.schema = Objects!SchemaJoined
  BY <1>1 DEF CatalogRow, TableRowOf, ColumnRow, Objects!ObjectRow
<1>3. cat \in Nat
  BY DEF Objects!IsWorld
<1>4. CASE Joined(w, cat) = {} /\ r = CatalogRow(cat)
  <2>1. r.tab = None
    BY <1>4 DEF CatalogRow, Objects!ObjectRow
  <2> QED
    BY <1>2, <1>3, <1>4, <2>1
<1>5. ASSUME NEW t \in Joined(w, cat), Objects!ColumnsJoined(t) = {}, r = TableRowOf(cat, t)
      PROVE  /\ r.tab # None
             /\ r.tab = t.tab /\ r.type = t.type
  BY <1>5, JoinedIs DEF TableRowOf, Objects!ObjectRow
<1>6. ASSUME NEW t \in Joined(w, cat), NEW p \in Objects!ColumnsJoined(t), r = ColumnRow(cat, t, p)
      PROVE  r.tab # None /\ r.tab = t.tab /\ r.type = t.type /\ r.pos = p
  BY <1>6, JoinedIs DEF ColumnRow, Objects!ObjectRow
<1> QED
  BY <1>1, <1>2, <1>3, <1>4, <1>5, <1>6

(* The order of the rows.                                                  *)
LEMMA PrecedesIs ==
  ASSUME NEW a \in Int, NEW b \in Int, NEW c \in Int, NEW d \in Int, NEW e \in Int, NEW f \in Int
  PROVE  Objects!Precedes(<<a, b, c>>, <<d, e, f>>) <=>
           a < d \/ (a = d /\ (b < e \/ (b = e /\ c < f)))
<1> DEFINE k1 == <<a, b, c>>
           k2 == <<d, e, f>>
<1>1. k1[1] = a /\ k1[2] = b /\ k1[3] = c /\ k2[1] = d /\ k2[2] = e /\ k2[3] = f
      /\ DOMAIN k1 = 1 .. 3
  OBVIOUS
<1> HIDE DEF k1, k2
<1>2. Objects!Precedes(k1, k2) <=>
        \E i \in 1 .. 3 : k1[i] < k2[i] /\ \A j \in 1 .. i - 1 : k1[j] = k2[j]
  BY <1>1 DEF Objects!Precedes
<1>3. (\E i \in 1 .. 3 : k1[i] < k2[i] /\ \A j \in 1 .. i - 1 : k1[j] = k2[j]) <=>
        a < d \/ (a = d /\ (b < e \/ (b = e /\ c < f)))
  BY <1>1
<1> QED
  BY <1>2, <1>3 DEF k1, k2

LEMMA RowWeights ==
  ASSUME NEW w, Objects!IsWorld(w), NEW r \in Objects!ObjectRows(w)
  PROVE  /\ Objects!Weight(r.cat) \in Int /\ Objects!Weight(r.tab) \in Int
         /\ Objects!Position(r.pos) \in Int
         /\ r.tab # None => r.tab \in Nat /\ Objects!Weight(r.tab) \in Nat
         /\ r.tab = None => Objects!Weight(r.tab) = -1
<1>1. r.cat \in Nat /\ Objects!Weight(r.cat) \in Int
  BY RowIs, WeightOf
<1>2. CASE r.tab = None
  <2>1. r.pos = None
    BY <1>2, RowIs DEF CatalogRow, Objects!ObjectRow
  <2> QED
    BY <1>1, <1>2, <2>1, WeightOf DEF Objects!Position
<1>3. CASE r.tab # None
  <2>1. PICK t \in Joined(w, r.cat) :
          /\ r.tab = t.tab
          /\ \/ Objects!ColumnsJoined(t) = {} /\ r = TableRowOf(r.cat, t)
             \/ r.pos \in Objects!ColumnsJoined(t) /\ r = ColumnRow(r.cat, t, r.pos)
    BY <1>3, RowIs
  <2>2. t.tab \in Nat /\ t.cols \in Seq(Nat)
    BY JoinedIs
  <2>3. r.tab \in Nat /\ Objects!Weight(r.tab) \in Nat
    BY <2>1, <2>2, WeightOf
  <2>4. Objects!Position(r.pos) \in Int
    <3>1. CASE r = TableRowOf(r.cat, t)
      <4>1. r.pos = None
        BY <3>1 DEF TableRowOf, Objects!ObjectRow
      <4> QED
        BY <4>1 DEF Objects!Position
    <3>2. CASE r.pos \in Objects!ColumnsJoined(t)
      BY <2>2, <3>2, PositionIs
    <3> QED
      BY <2>1, <3>1, <3>2
  <2>5. Objects!Weight(r.tab) \in Int
    BY <2>3
  <2> QED
    BY <1>1, <1>3, <2>3, <2>4, <2>5
<1> QED
  BY <1>2, <1>3

LEMMA BeforeIs ==
  ASSUME NEW w, Objects!IsWorld(w), NEW r \in Objects!ObjectRows(w), NEW s \in Objects!ObjectRows(w)
  PROVE  Objects!Precedes(Objects!ObjectKey(r), Objects!ObjectKey(s)) <=> Before(r, s)
<1>1. /\ Objects!Weight(r.cat) \in Int /\ Objects!Weight(r.tab) \in Int
      /\ Objects!Position(r.pos) \in Int
      /\ Objects!Weight(s.cat) \in Int /\ Objects!Weight(s.tab) \in Int
      /\ Objects!Position(s.pos) \in Int
  BY RowWeights
<1> QED
  BY <1>1, PrecedesIs DEF Objects!ObjectKey, Before

(* Rows that tie are of one catalog, and of one table.                     *)
LEMMA TiesAre ==
  ASSUME NEW w, Objects!IsWorld(w), NEW r \in Objects!ObjectRows(w), NEW s \in Objects!ObjectRows(w),
         Objects!Weight(r.cat) = Objects!Weight(s.cat)
  PROVE  /\ r.cat = s.cat
         /\ Objects!Weight(r.tab) = Objects!Weight(s.tab) => r.tab = s.tab
         /\ r.tab = None \/ s.tab = None => r = s
<1>1. r.cat = s.cat
  <2>1. r.cat \in w.catalogs /\ s.cat \in w.catalogs
    BY RowIs
  <2> QED
    BY <2>1 DEF Objects!IsWorld
<1>2. ASSUME r.tab = None \/ s.tab = None PROVE r = s
  <2>1. Joined(w, r.cat) = {}
    BY <1>1, <1>2, RowIs
  <2>2. r.tab = None /\ s.tab = None
    BY <1>1, <2>1, RowIs
  <2> QED
    BY <1>1, <2>2, RowIs
<1>3. ASSUME r.tab # None, s.tab # None, Objects!Weight(r.tab) = Objects!Weight(s.tab)
      PROVE  r.tab = s.tab
  <2>1. PICK t \in Joined(w, r.cat) : r.tab = t.tab
    BY <1>3, RowIs
  <2>2. PICK u \in Joined(w, s.cat) : s.tab = u.tab
    BY <1>3, RowIs
  <2>3. u \in w.tables /\ u.cat = r.cat
    BY <1>1, JoinedIs
  <2>4. u = t
    BY <1>3, <2>1, <2>2, <2>3, JoinedIs
  <2> QED
    BY <2>1, <2>2, <2>4
<1> QED
  BY <1>1, <1>2, <1>3

LEMMA BeforeTotal ==
  ASSUME NEW w, Objects!IsWorld(w), NEW r \in Objects!ObjectRows(w), NEW s \in Objects!ObjectRows(w),
         r # s
  PROVE  Before(r, s) \/ Before(s, r)
<1> SUFFICES ASSUME ~Before(r, s), ~Before(s, r) PROVE FALSE
  OBVIOUS
<1>1. /\ Objects!Weight(r.cat) = Objects!Weight(s.cat) /\ Objects!Weight(r.tab) = Objects!Weight(s.tab)
      /\ Objects!Position(r.pos) = Objects!Position(s.pos)
  BY RowWeights DEF Before
<1>2. r.cat = s.cat /\ r.tab = s.tab /\ r.tab # None /\ s.tab # None
  BY <1>1, TiesAre
<1>3. PICK t \in Joined(w, r.cat) :
        /\ r.tab = t.tab
        /\ \/ Objects!ColumnsJoined(t) = {} /\ r = TableRowOf(r.cat, t)
           \/ r.pos \in Objects!ColumnsJoined(t) /\ r = ColumnRow(r.cat, t, r.pos)
  BY <1>2, RowIs
<1>4. PICK u \in Joined(w, s.cat) :
        /\ s.tab = u.tab
        /\ \/ Objects!ColumnsJoined(u) = {} /\ s = TableRowOf(s.cat, u)
           \/ s.pos \in Objects!ColumnsJoined(u) /\ s = ColumnRow(s.cat, u, s.pos)
  BY <1>2, RowIs
<1>5. u = t /\ t.cols \in Seq(Nat)
  <2>1. u \in w.tables /\ u.cat = r.cat /\ t.cols \in Seq(Nat)
    BY <1>2, JoinedIs
  <2>2. Objects!Weight(u.tab) = Objects!Weight(t.tab)
    BY <1>2, <1>3, <1>4
  <2> QED
    BY <2>1, <2>2, JoinedIs
<1>6. CASE Objects!ColumnsJoined(t) = {}
  BY <1>2, <1>3, <1>4, <1>5, <1>6
<1>7. CASE Objects!ColumnsJoined(t) # {}
  <2>1. r.pos \in Objects!ColumnsJoined(t) /\ s.pos \in Objects!ColumnsJoined(t)
    BY <1>3, <1>4, <1>5, <1>7
  <2>2. r.pos = s.pos
    BY <1>1, <1>5, <2>1, PositionIs
  <2> QED
    BY <1>2, <1>3, <1>4, <1>5, <1>7, <2>2
<1> QED
  BY <1>6, <1>7

LEMMA NextIs ==
  ASSUME NEW w, Objects!IsWorld(w), todo \subseteq Objects!ObjectRows(w),
         NEW r \in Objects!NextRows(Objects!ObjectKey)
  PROVE  r \in todo /\ \A s \in todo : s # r => Before(r, s)
<1>1. r \in todo /\ \A s \in todo : ~Objects!Precedes(Objects!ObjectKey(s), Objects!ObjectKey(r))
  BY DEF Objects!NextRows
<1> QED
  BY <1>1, BeforeIs, BeforeTotal

(* Lists after an element is added or changed.                             *)
LEMMA AppendIs ==
  ASSUME NEW T, NEW s \in Seq(T), NEW e \in T
  PROVE  /\ Append(s, e) \in Seq(T) /\ Len(Append(s, e)) = Len(s) + 1
         /\ \A i \in 1 .. Len(s) : Append(s, e)[i] = s[i]
         /\ Append(s, e)[Len(s) + 1] = e
         /\ Append(s, e) # <<>> /\ Len(s) \in Nat
OBVIOUS

LEMMA LenIs ==
  ASSUME NEW T, NEW s \in Seq(T)
  PROVE  /\ Len(s) \in Nat /\ DOMAIN s = 1 .. Len(s)
         /\ s = <<>> <=> Len(s) = 0
         /\ \A i \in 1 .. Len(s) : s[i] \in T
OBVIOUS

LEMMA NewInfoIs ==
  ASSUME NEW w, Objects!IsWorld(w), NEW r \in Objects!ObjectRows(w)
  PROVE  Objects!NewInfo(r) \in CatInfo /\ Objects!NewInfo(r).cat = r.cat
         /\ Objects!NewInfo(r).tables = <<>>
<1>1. r.cat \in Nat
  BY RowIs
<1>2. <<>> \in Seq(TableInfo)
  OBVIOUS
<1> QED
  BY <1>1, <1>2 DEF Objects!NewInfo, CatInfo

(* One row of the first query, in the three steps of the loop: a new       *)
(* catalog?                                                                *)
LEMMA CatalogStep ==
  ASSUME NEW w, Objects!IsWorld(w), NEW D, D \subseteq Objects!ObjectRows(w),
         NEW r \in Objects!ObjectRows(w), \A s \in D : Before(s, r),
         infos \in Seq(CatInfo), Grouped(w, infos, D), NoKeys(infos), current.table = LastOf(infos)
  PROVE  LET c == Objects!CatalogChange(r)
         IN  /\ c.infos \in Seq(CatInfo) /\ NoKeys(c.infos) /\ c.table = LastOf(c.infos)
             /\ CatalogsListed(c.infos, D \cup {r})
             /\ TablesListed(c.infos, D) /\ ColumnsListed(w, c.infos, D)
             /\ Len(c.infos) # 0 /\ c.infos[Len(c.infos)].cat = r.cat
<1> DEFINE n == Len(infos)
<1>1. /\ n \in Nat /\ (infos = <<>> <=> n = 0)
      /\ \A i \in 1 .. n : infos[i] \in CatInfo /\ infos[i].cat \in Nat
  <2>1. n \in Nat /\ (infos = <<>> <=> n = 0) /\ \A i \in 1 .. n : infos[i] \in CatInfo
    BY LenIs
  <2> HIDE DEF n
  <2> QED
    BY <2>1 DEF CatInfo
<1>2. CASE infos # <<>> /\ infos[n].cat = r.cat
  <2>1. Objects!CatalogChange(r) = [infos |-> infos, table |-> current.table]
    BY <1>2 DEF Objects!CatalogChange
  <2>2. CatalogsListed(infos, D \cup {r})
    BY <1>1, <1>2 DEF Grouped, CatalogsListed
  <2> QED
    BY <1>1, <1>2, <2>1, <2>2 DEF Grouped
<1>3. CASE ~(infos # <<>> /\ infos[n].cat = r.cat)
  <2> DEFINE e    == Objects!NewInfo(r)
             list == Append(infos, e)
  <2>1. Objects!CatalogChange(r) = [infos |-> list, table |-> Objects!NoPlace]
    BY <1>3 DEF Objects!CatalogChange
  <2>2. e \in CatInfo /\ e.cat = r.cat /\ e.tables = <<>>
    BY NewInfoIs
  <2> HIDE DEF e
  <2>3. /\ list \in Seq(CatInfo) /\ Len(list) = n + 1 /\ list # <<>>
        /\ \A i \in 1 .. n : list[i] = infos[i]
        /\ list[n + 1] = e
    BY <2>2, AppendIs
  <2> HIDE DEF list, n
  <2>4. Len(e.tables) = 0
    BY <2>2
  <2>5. LastOf(list) = Objects!NoPlace
    BY <2>2, <2>3 DEF LastOf
  <2>6. NoKeys(list) /\ TablesListed(list, D) /\ ColumnsListed(w, list, D)
    <3>1. NoKeys(list)
      BY <1>1, <2>3, <2>4 DEF NoKeys, n
    <3>2. TablesListed(list, D)
      <4>1. TablesListed(infos, D)
        BY DEF Grouped
      <4>2. \A i \in 1 .. Len(list) : (i \in 1 .. n /\ list[i] = infos[i]) \/ Len(list[i].tables) = 0
        BY <1>1, <2>3, <2>4
      <4>3. \A s \in D : s.tab # None =>
              \E i \in 1 .. Len(list) : \E x \in 1 .. Len(list[i].tables) :
                list[i].cat = s.cat /\ list[i].tables[x].tab = s.tab
        <5> SUFFICES ASSUME NEW s \in D, s.tab # None
                     PROVE  \E i \in 1 .. Len(list) : \E x \in 1 .. Len(list[i].tables) :
                              list[i].cat = s.cat /\ list[i].tables[x].tab = s.tab
          OBVIOUS
        <5>1. PICK i \in 1 .. n : \E x \in 1 .. Len(infos[i].tables) :
                infos[i].cat = s.cat /\ infos[i].tables[x].tab = s.tab
          BY <4>1 DEF TablesListed, n
        <5>2. i \in 1 .. Len(list) /\ list[i] = infos[i]
          BY <1>1, <2>3
        <5> QED
          BY <5>1, <5>2
      <4>4. ASSUME NEW i \in 1 .. Len(list), NEW x \in 1 .. Len(list[i].tables)
            PROVE  i \in 1 .. n /\ list[i] = infos[i]
        BY <4>2, <4>4
      <4>5. \A i \in 1 .. Len(list) : \A x \in 1 .. Len(list[i].tables) :
              \E s \in D : /\ s.cat = list[i].cat /\ s.tab = list[i].tables[x].tab
                           /\ s.type = list[i].tables[x].type /\ s.tab # None
        <5> SUFFICES ASSUME NEW i \in 1 .. Len(list), NEW x \in 1 .. Len(list[i].tables)
                     PROVE  \E s \in D : /\ s.cat = list[i].cat /\ s.tab = list[i].tables[x].tab
                                         /\ s.type = list[i].tables[x].type /\ s.tab # None
          OBVIOUS
        <5>1. i \in 1 .. n /\ list[i] = infos[i]
          BY <4>4
        <5>2. i \in 1 .. Len(infos) /\ x \in 1 .. Len(infos[i].tables)
          BY <5>1 DEF n
        <5>3. \E s \in D : /\ s.cat = infos[i].cat /\ s.tab = infos[i].tables[x].tab
                           /\ s.type = infos[i].tables[x].type /\ s.tab # None
          BY <4>1, <5>2 DEF TablesListed
        <5> QED
          BY <5>1, <5>3
      <4>6. \A i \in 1 .. Len(list) : \A x, y \in 1 .. Len(list[i].tables) :
              x < y => Objects!Weight(list[i].tables[x].tab) < Objects!Weight(list[i].tables[y].tab)
        BY <4>1, <4>4 DEF TablesListed, n
      <4> QED
        BY <4>3, <4>5, <4>6 DEF TablesListed
    <3>3. ColumnsListed(w, list, D)
      BY <1>1, <2>3, <2>4 DEF Grouped, ColumnsListed, n
    <3> QED
      BY <3>1, <3>2, <3>3
  <2>7. \A i \in 1 .. n : Objects!Weight(infos[i].cat) < Objects!Weight(r.cat)
    <3>1. \A i \in 1 .. n : /\ Objects!Weight(infos[i].cat) <= Objects!Weight(r.cat)
                            /\ Objects!Weight(infos[i].cat) = Objects!Weight(r.cat) => infos[i].cat = r.cat
                            /\ Objects!Weight(infos[i].cat) \in Int /\ Objects!Weight(r.cat) \in Int
      <4> SUFFICES ASSUME NEW i \in 1 .. n
                   PROVE  /\ Objects!Weight(infos[i].cat) <= Objects!Weight(r.cat)
                          /\ Objects!Weight(infos[i].cat) = Objects!Weight(r.cat) => infos[i].cat = r.cat
                          /\ Objects!Weight(infos[i].cat) \in Int /\ Objects!Weight(r.cat) \in Int
        OBVIOUS
      <4>1. PICK s \in D : s.cat = infos[i].cat
        BY DEF Grouped, CatalogsListed, n
      <4>2. s \in Objects!ObjectRows(w) /\ Before(s, r)
        OBVIOUS
      <4>3. Objects!Weight(s.cat) \in Int /\ Objects!Weight(r.cat) \in Int
        BY <4>2, RowWeights
      <4>4. Objects!Weight(s.cat) <= Objects!Weight(r.cat)
        BY <4>2, <4>3 DEF Before
      <4>5. Objects!Weight(s.cat) = Objects!Weight(r.cat) => s.cat = r.cat
        BY <4>2, TiesAre
      <4> QED
        BY <4>1, <4>3, <4>4, <4>5
    <3>2. \A i \in 1 .. n : i < n => Objects!Weight(infos[i].cat) < Objects!Weight(infos[n].cat)
      BY <1>1 DEF Grouped, CatalogsListed, n
    <3> QED
      BY <1>1, <1>3, <3>1, <3>2
  <2>8. CatalogsListed(list, D \cup {r})
    <3>1. \A i \in 1 .. Len(list) : \E s \in D \cup {r} : s.cat = list[i].cat
      BY <1>1, <2>2, <2>3 DEF Grouped, CatalogsListed, n
    <3>2. \A s \in D \cup {r} : \E i \in 1 .. Len(list) : list[i].cat = s.cat
      <4>1. ASSUME NEW s \in D PROVE \E i \in 1 .. Len(list) : list[i].cat = s.cat
        <5>1. PICK i \in 1 .. n : infos[i].cat = s.cat
          BY DEF Grouped, CatalogsListed, n
        <5> QED
          BY <1>1, <2>3, <5>1
      <4>2. n + 1 \in 1 .. Len(list) /\ list[n + 1].cat = r.cat
        BY <1>1, <2>2, <2>3
      <4> QED
        BY <4>1, <4>2
    <3>3. \A i, j \in 1 .. Len(list) :
            i < j => Objects!Weight(list[i].cat) < Objects!Weight(list[j].cat)
      <4> SUFFICES ASSUME NEW i \in 1 .. Len(list), NEW j \in 1 .. Len(list), i < j
                   PROVE  Objects!Weight(list[i].cat) < Objects!Weight(list[j].cat)
        OBVIOUS
      <4>1. i \in 1 .. n /\ list[i] = infos[i]
        BY <1>1, <2>3
      <4>2. CASE j = n + 1
        BY <2>2, <2>3, <2>7, <4>1, <4>2
      <4>3. CASE j # n + 1
        <5>1. j \in 1 .. n /\ list[j] = infos[j]
          BY <1>1, <2>3, <4>3
        <5> QED
          BY <4>1, <5>1 DEF Grouped, CatalogsListed, n
      <4> QED
        BY <4>2, <4>3
    <3> QED
      BY <3>1, <3>2, <3>3 DEF CatalogsListed
  <2> QED
    BY <1>1, <2>1, <2>2, <2>3, <2>5, <2>6, <2>8
<1> QED
  BY <1>2, <1>3

LEMMA SetTables ==
  ASSUME NEW list \in Seq(CatInfo), NEW n \in 1 .. Len(list), NEW ts \in Seq(TableInfo)
  PROVE  LET l == [list EXCEPT ![n].tables = ts]
         IN  /\ l \in Seq(CatInfo) /\ Len(l) = Len(list)
             /\ \A i \in 1 .. Len(list) : i # n => l[i] = list[i]
             /\ l[n].cat = list[n].cat /\ l[n].tables = ts
             /\ \A i \in 1 .. Len(list) : l[i].cat = list[i].cat
<1> DEFINE e == [list[n] EXCEPT !.tables = ts]
           l == [list EXCEPT ![n] = e]
<1>1. list[n] \in CatInfo
  BY LenIs
<1>2. e \in CatInfo /\ e.cat = list[n].cat /\ e.tables = ts
  BY <1>1 DEF CatInfo
<1> HIDE DEF e
<1>3. /\ l \in Seq(CatInfo) /\ Len(l) = Len(list)
      /\ \A i \in 1 .. Len(list) : i # n => l[i] = list[i]
      /\ l[n] = e
  BY <1>2
<1>4. l = [list EXCEPT ![n].tables = ts]
  BY DEF e
<1> HIDE DEF l
<1> QED
  BY <1>2, <1>3, <1>4

LEMMA LastIs ==
  ASSUME NEW list \in Seq(CatInfo), Len(list) # 0
  PROVE  LET n == Len(list)
             m == Len(list[n].tables)
         IN  /\ n \in 1 .. Len(list) /\ list[n].tables \in Seq(TableInfo) /\ m \in Nat
             /\ LastOf(list) = Objects!NoPlace <=> m = 0
             /\ m # 0 => LastOf(list) = <<n, m>>
<1> DEFINE n == Len(list)
           m == Len(list[n].tables)
<1>1. n \in 1 .. Len(list) /\ list # <<>> /\ list[n] \in CatInfo
  BY LenIs
<1>2. list[n].tables \in Seq(TableInfo)
  BY <1>1 DEF CatInfo
<1> DEFINE ts == list[n].tables
<1>3. m \in Nat /\ (ts = <<>> <=> m = 0)
  <2> HIDE DEF ts
  <2>1. Len(ts) \in Nat /\ (ts = <<>> <=> Len(ts) = 0)
    BY <1>2, LenIs DEF ts
  <2> QED
    BY <2>1 DEF ts
<1>4. m # 0 => <<n, m>> # Objects!NoPlace
  BY <1>3 DEF Objects!NoPlace
<1> QED
  BY <1>1, <1>2, <1>3, <1>4 DEF LastOf

(* A row whose table is listed already, or that has none.                  *)
LEMMA TablesListedMore ==
  ASSUME NEW l, NEW D, NEW r, TablesListed(l, D),
         r.tab # None => \E i \in 1 .. Len(l) : \E x \in 1 .. Len(l[i].tables) :
                           l[i].cat = r.cat /\ l[i].tables[x].tab = r.tab
  PROVE  TablesListed(l, D \cup {r})
<1>1. ASSUME NEW s \in D \cup {r}, s.tab # None
      PROVE  \E i \in 1 .. Len(l) : \E x \in 1 .. Len(l[i].tables) :
               l[i].cat = s.cat /\ l[i].tables[x].tab = s.tab
  BY <1>1 DEF TablesListed
<1>2. ASSUME NEW i \in 1 .. Len(l), NEW x \in 1 .. Len(l[i].tables)
      PROVE  \E s \in D \cup {r} : /\ s.cat = l[i].cat /\ s.tab = l[i].tables[x].tab
                                    /\ s.type = l[i].tables[x].type /\ s.tab # None
  <2>1. PICK s \in D : /\ s.cat = l[i].cat /\ s.tab = l[i].tables[x].tab
                       /\ s.type = l[i].tables[x].type /\ s.tab # None
    BY DEF TablesListed
  <2> QED
    BY <2>1
<1>3. \A i \in 1 .. Len(l) : \A x, y \in 1 .. Len(l[i].tables) :
        x < y => Objects!Weight(l[i].tables[x].tab) < Objects!Weight(l[i].tables[y].tab)
  BY DEF TablesListed
<1> QED
  BY <1>1, <1>2, <1>3 DEF TablesListed

(* A new table?                                                            *)
TableAdded(w, d, D, r) ==
  LET list == d.infos
      n    == Len(list)
      m    == Len(list[n].tables)
  IN  /\ list \in Seq(CatInfo) /\ NoKeys(list) /\ d.table = <<n, m>>
      /\ CatalogsListed(list, D \cup {r})
      /\ TablesListed(list, D \cup {r}) /\ ColumnsListed(w, list, D)
      /\ n \in Nat /\ n # 0 /\ list[n].cat = r.cat
      /\ m \in Nat /\ m # 0 /\ list[n].tables[m].tab = r.tab

LEMMA TableStep ==
  ASSUME NEW w, Objects!IsWorld(w), NEW D, D \subseteq Objects!ObjectRows(w),
         NEW r \in Objects!ObjectRows(w), r.tab # None, \A s \in D : Before(s, r),
         NEW c, c.infos \in Seq(CatInfo), NoKeys(c.infos), c.table = LastOf(c.infos),
         CatalogsListed(c.infos, D \cup {r}),
         TablesListed(c.infos, D), ColumnsListed(w, c.infos, D),
         Len(c.infos) # 0, c.infos[Len(c.infos)].cat = r.cat
  PROVE  TableAdded(w, Objects!TableChange(c, r), D, r)
<1> DEFINE n  == Len(c.infos)
           ts == c.infos[n].tables
           m  == Len(ts)
<1>1. /\ n \in Nat /\ n \in 1 .. n /\ ts \in Seq(TableInfo) /\ m \in Nat
      /\ c.table = Objects!NoPlace <=> m = 0
      /\ m # 0 => c.table = <<n, m>>
      /\ m # 0 => Objects!TableAt(c.infos, c.table) = ts[m]
  <2>1. /\ n \in 1 .. n /\ ts \in Seq(TableInfo) /\ m \in Nat
        /\ c.table = Objects!NoPlace <=> m = 0
        /\ m # 0 => c.table = <<n, m>>
    BY LastIs
  <2> QED
    BY <2>1 DEF Objects!TableAt
<1>2. CASE m # 0 /\ ts[m].tab = r.tab
  <2>1. Objects!TableChange(c, r) = c
    BY <1>1, <1>2 DEF Objects!TableChange
  <2>2. TablesListed(c.infos, D \cup {r})
    <3> DEFINE l == c.infos
    <3>1. \E i \in 1 .. Len(l) : \E x \in 1 .. Len(l[i].tables) :
            l[i].cat = r.cat /\ l[i].tables[x].tab = r.tab
      <4>1. n \in 1 .. Len(l) /\ m \in 1 .. Len(l[n].tables)
        BY <1>1, <1>2
      <4>2. l[n].cat = r.cat /\ l[n].tables[m].tab = r.tab
        BY <1>2
      <4> HIDE DEF l, n, m
      <4> QED
        BY <4>1, <4>2
    <3>2. TablesListed(l, D)
      OBVIOUS
    <3> HIDE DEF l
    <3>3. TablesListed(l, D \cup {r})
      BY <3>1, <3>2, TablesListedMore
    <3> QED
      BY <3>3 DEF l
  <2> QED
    BY <1>1, <1>2, <2>1, <2>2 DEF TableAdded
<1>3. CASE ~(m # 0 /\ ts[m].tab = r.tab)
  <2> DEFINE e    == Objects!NewTable(r)
             us   == Append(ts, e)
             list == [c.infos EXCEPT ![n].tables = us]
  <2>1. Objects!TableChange(c, r) = [infos |-> list, table |-> <<n, m + 1>>]
    BY <1>1, <1>3 DEF Objects!TableChange
  <2>2. /\ e \in TableInfo /\ e.tab = r.tab /\ e.type = r.type /\ e.cols = <<>> /\ e.keys = <<>>
    <3>1. r.tab \in Nat /\ r.type \in STRING
      BY RowIs, JoinedIs
    <3>2. <<>> \in Seq(Nat) /\ <<>> \in Seq(KeyInfo)
      OBVIOUS
    <3> QED
      BY <3>1, <3>2 DEF Objects!NewTable, TableInfo
  <2> HIDE DEF e
  <2>3. /\ us \in Seq(TableInfo) /\ Len(us) = m + 1
        /\ \A x \in 1 .. m : us[x] = ts[x]
        /\ us[m + 1] = e
    <3> HIDE DEF ts
    <3> QED
      BY <1>1, <2>2, AppendIs
  <2> HIDE DEF us
  <2>4. /\ list \in Seq(CatInfo) /\ Len(list) = n
        /\ \A i \in 1 .. n : i # n => list[i] = c.infos[i]
        /\ list[n].cat = r.cat /\ list[n].tables = us
        /\ \A i \in 1 .. n : list[i].cat = c.infos[i].cat
    BY <1>1, <2>3, SetTables
  <2> HIDE DEF list
  <2>5. \A x \in 1 .. m : /\ Objects!Weight(ts[x].tab) < Objects!Weight(r.tab)
                          /\ Objects!Weight(ts[x].tab) \in Int /\ Objects!Weight(r.tab) \in Int
    <3>1. ASSUME NEW x \in 1 .. m
          PROVE  /\ Objects!Weight(ts[x].tab) <= Objects!Weight(r.tab)
                 /\ Objects!Weight(ts[x].tab) = Objects!Weight(r.tab) => ts[x].tab = r.tab
                 /\ Objects!Weight(ts[x].tab) \in Int /\ Objects!Weight(r.tab) \in Int
      <4>1. PICK s \in D : s.cat = r.cat /\ s.tab = ts[x].tab
        BY <1>1 DEF TablesListed
      <4>2. s \in Objects!ObjectRows(w) /\ Before(s, r)
        OBVIOUS
      <4>3. /\ Objects!Weight(s.tab) \in Int /\ Objects!Weight(r.tab) \in Int
            /\ Objects!Weight(s.cat) \in Int
        BY <4>2, RowWeights
      <4>4. Objects!Weight(s.tab) <= Objects!Weight(r.tab)
        BY <4>1, <4>2, <4>3 DEF Before
      <4>5. Objects!Weight(s.tab) = Objects!Weight(r.tab) => s.tab = r.tab
        BY <4>1, <4>2, TiesAre
      <4> QED
        BY <4>1, <4>3, <4>4, <4>5
    <3>2. \A x \in 1 .. m : x < m => Objects!Weight(ts[x].tab) < Objects!Weight(ts[m].tab)
      <4>1. \A x, y \in 1 .. m : x < y => Objects!Weight(ts[x].tab) < Objects!Weight(ts[y].tab)
        BY <1>1 DEF TablesListed
      <4> HIDE DEF n, ts, m
      <4> QED
        BY <1>1, <4>1
    <3> HIDE DEF n, ts, m
    <3> QED
      BY <1>1, <1>3, <3>1, <3>2
  <2>6. \A i \in 1 .. n : \A x \in 1 .. Len(list[i].tables) :
          \/ /\ x \in 1 .. Len(c.infos[i].tables) /\ list[i].tables[x] = c.infos[i].tables[x]
          \/ /\ i = n /\ x = m + 1 /\ list[i].tables[x] = e
    <3> SUFFICES ASSUME NEW i \in 1 .. n, NEW x \in 1 .. Len(list[i].tables)
                 PROVE  \/ /\ x \in 1 .. Len(c.infos[i].tables)
                           /\ list[i].tables[x] = c.infos[i].tables[x]
                        \/ /\ i = n /\ x = m + 1 /\ list[i].tables[x] = e
      OBVIOUS
    <3>1. CASE i # n
      BY <2>4, <3>1
    <3>2. CASE i = n
      <4>1. list[i].tables = us /\ c.infos[i].tables = ts /\ x \in 1 .. m + 1
        BY <2>3, <2>4, <3>2
      <4> HIDE DEF n, m, ts
      <4> QED
        BY <1>1, <2>3, <3>2, <4>1 DEF m
    <3> QED
      BY <3>1, <3>2
  <2>7. \A i \in 1 .. n : \A x \in 1 .. Len(c.infos[i].tables) :
          x \in 1 .. Len(list[i].tables) /\ list[i].tables[x] = c.infos[i].tables[x]
    <3> SUFFICES ASSUME NEW i \in 1 .. n, NEW x \in 1 .. Len(c.infos[i].tables)
                 PROVE  x \in 1 .. Len(list[i].tables) /\ list[i].tables[x] = c.infos[i].tables[x]
      OBVIOUS
    <3>1. CASE i # n
      BY <2>4, <3>1
    <3>2. CASE i = n
      <4>1. list[i].tables = us /\ c.infos[i].tables = ts /\ x \in 1 .. m
        BY <2>4, <3>2
      <4> HIDE DEF n, m, ts
      <4> QED
        BY <1>1, <2>3, <3>2, <4>1
    <3> QED
      BY <3>1, <3>2
  <2>8. NoKeys(list)
    <3> SUFFICES ASSUME NEW i \in 1 .. Len(list), NEW x \in 1 .. Len(list[i].tables)
                 PROVE  list[i].tables[x].keys = <<>>
      BY DEF NoKeys
    <3>1. i \in 1 .. n /\ i \in 1 .. Len(c.infos)
      BY <2>4
    <3>2. CASE x \in 1 .. Len(c.infos[i].tables) /\ list[i].tables[x] = c.infos[i].tables[x]
      BY <3>1, <3>2 DEF NoKeys
    <3>3. CASE list[i].tables[x] = e
      BY <2>2, <3>3
    <3> QED
      BY <2>6, <3>1, <3>2, <3>3
  <2>9. CatalogsListed(list, D \cup {r})
    BY <2>4 DEF CatalogsListed
  <2>10. TablesListed(list, D \cup {r})
    <3>1. \A i \in 1 .. n : \A x \in 1 .. Len(list[i].tables) :
            \E s \in D \cup {r} : /\ s.cat = list[i].cat /\ s.tab = list[i].tables[x].tab
                                  /\ s.type = list[i].tables[x].type /\ s.tab # None
      <4> SUFFICES ASSUME NEW i \in 1 .. n, NEW x \in 1 .. Len(list[i].tables)
                   PROVE  \E s \in D \cup {r} : /\ s.cat = list[i].cat /\ s.tab = list[i].tables[x].tab
                                                /\ s.type = list[i].tables[x].type /\ s.tab # None
        OBVIOUS
      <4>1. CASE i = n /\ list[i].tables[x] = e
        BY <2>2, <2>4, <4>1
      <4>2. CASE x \in 1 .. Len(c.infos[i].tables) /\ list[i].tables[x] = c.infos[i].tables[x]
        <5>1. PICK s \in D : /\ s.cat = c.infos[i].cat /\ s.tab = c.infos[i].tables[x].tab
                             /\ s.type = c.infos[i].tables[x].type /\ s.tab # None
          BY <4>2 DEF TablesListed
        <5> QED
          BY <2>4, <4>2, <5>1
      <4> QED
        BY <2>6, <4>1, <4>2
    <3>2. \A s \in D \cup {r} : s.tab # None =>
            \E i \in 1 .. n : \E x \in 1 .. Len(list[i].tables) :
              list[i].cat = s.cat /\ list[i].tables[x].tab = s.tab
      <4>1. ASSUME NEW s \in D, s.tab # None
            PROVE  \E i \in 1 .. n : \E x \in 1 .. Len(list[i].tables) :
                     list[i].cat = s.cat /\ list[i].tables[x].tab = s.tab
        <5>1. PICK i \in 1 .. n : \E x \in 1 .. Len(c.infos[i].tables) :
                c.infos[i].cat = s.cat /\ c.infos[i].tables[x].tab = s.tab
          BY <4>1 DEF TablesListed
        <5> QED
          BY <2>4, <2>7, <5>1
      <4>2. n \in 1 .. n /\ m + 1 \in 1 .. Len(list[n].tables) /\ list[n].cat = r.cat
            /\ list[n].tables[m + 1].tab = r.tab
        BY <1>1, <2>2, <2>3, <2>4
      <4> QED
        BY <4>1, <4>2
    <3>3. ASSUME NEW i \in 1 .. n, NEW x \in 1 .. Len(list[i].tables),
                 NEW y \in 1 .. Len(list[i].tables), x < y
          PROVE  Objects!Weight(list[i].tables[x].tab) < Objects!Weight(list[i].tables[y].tab)
      <4>1. CASE i = n /\ y = m + 1
        <5>1. x \in 1 .. m /\ list[i].tables[x] = ts[x] /\ list[i].tables[y] = e
          BY <1>1, <2>3, <2>4, <3>3, <4>1
        <5> QED
          BY <2>2, <2>5, <5>1
      <4>2. CASE ~(i = n /\ y = m + 1)
        <5>1. y \in 1 .. Len(c.infos[i].tables) /\ list[i].tables[y] = c.infos[i].tables[y]
          BY <2>6, <4>2
        <5>2. x \in 1 .. Len(c.infos[i].tables)
          BY <3>3, <5>1
        <5>3. list[i].tables[x] = c.infos[i].tables[x]
          BY <2>7, <5>2
        <5> QED
          BY <3>3, <5>1, <5>2, <5>3 DEF TablesListed
      <4> QED
        BY <4>1, <4>2
    <3>4. Len(list) = n
      BY <2>4
    <3> HIDE DEF n
    <3> QED
      BY <3>1, <3>2, <3>3, <3>4 DEF TablesListed
  <2>11. ColumnsListed(w, list, D)
    <3> SUFFICES ASSUME NEW i \in 1 .. n, NEW x \in 1 .. Len(list[i].tables), NEW t \in w.tables,
                        t.cat = list[i].cat, t.tab = list[i].tables[x].tab
                 PROVE  ColumnsRead(t, list[i].tables[x].cols, D)
      BY <2>4 DEF ColumnsListed
    <3>1. CASE x \in 1 .. Len(c.infos[i].tables) /\ list[i].tables[x] = c.infos[i].tables[x]
      BY <2>4, <3>1 DEF ColumnsListed
    <3>2. CASE i = n /\ list[i].tables[x] = e
      <4>1. t.cat = r.cat /\ t.tab = r.tab
        BY <2>2, <2>4, <3>2
      <4>2. PositionsRead(t, D) = {}
        <5> SUFFICES ASSUME NEW s \in D, s.cat = t.cat, s.tab = t.tab PROVE FALSE
          BY DEF PositionsRead
        <5>1. PICK j \in 1 .. n : \E y \in 1 .. Len(c.infos[j].tables) :
                c.infos[j].cat = r.cat /\ c.infos[j].tables[y].tab = r.tab
          BY <4>1 DEF TablesListed
        <5>2. j = n
          <6>1. c.infos[j].cat = c.infos[n].cat
            BY <5>1
          <6>2. Objects!Weight(r.cat) \in Int
            BY RowWeights
          <6>3. j < n => Objects!Weight(c.infos[j].cat) < Objects!Weight(c.infos[n].cat)
            BY <1>1 DEF CatalogsListed
          <6> HIDE DEF n
          <6> QED
            BY <1>1, <5>1, <6>1, <6>2, <6>3
        <5>3. PICK y \in 1 .. m : ts[y].tab = r.tab
          BY <5>1, <5>2
        <5> QED
          BY <2>5, <5>3
      <4>3. Objects!Cardinality(PositionsRead(t, D)) = 0
        <5>1. Objects!Cardinality({}) = Cardinality({})
          BY DEF Objects!Cardinality, Cardinality
        <5> QED
          BY <4>2, <5>1, FS_EmptySet
      <4>4. Len(e.cols) = 0
        BY <2>2
      <4> QED
        BY <3>2, <4>3, <4>4 DEF ColumnsRead
    <3> QED
      BY <2>6, <3>1, <3>2
  <2>12. list[n].tables[m + 1].tab = r.tab /\ Len(list[n].tables) = m + 1
    BY <2>2, <2>3, <2>4
  <2> HIDE DEF n, m, ts
  <2> QED
    BY <1>1, <2>1, <2>4, <2>8, <2>9, <2>10, <2>11, <2>12 DEF TableAdded
<1> QED
  BY <1>2, <1>3

WithTable(list, n, m, e) == [list EXCEPT ![n].tables[m] = e]

LEMMA SetTable ==
  ASSUME NEW list \in Seq(CatInfo), NEW n \in 1 .. Len(list), NEW m \in 1 .. Len(list[n].tables),
         NEW e \in TableInfo
  PROVE  LET l == WithTable(list, n, m, e)
         IN  /\ l \in Seq(CatInfo) /\ Len(l) = Len(list)
             /\ \A i \in 1 .. Len(list) :
                  l[i].cat = list[i].cat /\ Len(l[i].tables) = Len(list[i].tables)
             /\ \A i \in 1 .. Len(list) : \A x \in 1 .. Len(list[i].tables) :
                  l[i].tables[x] = IF i = n /\ x = m THEN e ELSE list[i].tables[x]
<1> DEFINE ts == list[n].tables
           us == [ts EXCEPT ![m] = e]
           l  == [list EXCEPT ![n].tables = us]
<1>1. ts \in Seq(TableInfo)
  <2>1. list[n] \in CatInfo
    BY LenIs
  <2> QED
    BY <2>1 DEF CatInfo
<1>2. /\ us \in Seq(TableInfo) /\ Len(us) = Len(ts)
      /\ \A x \in 1 .. Len(ts) : us[x] = IF x = m THEN e ELSE ts[x]
  <2> HIDE DEF ts
  <2>1. m \in 1 .. Len(ts)
    BY DEF ts
  <2> QED
    BY <1>1, <2>1
<1>3. l = WithTable(list, n, m, e)
  BY DEF WithTable
<1> HIDE DEF us
<1>4. /\ l \in Seq(CatInfo) /\ Len(l) = Len(list)
      /\ \A i \in 1 .. Len(list) : i # n => l[i] = list[i]
      /\ l[n].cat = list[n].cat /\ l[n].tables = us
  BY <1>2, SetTables
<1> HIDE DEF l
<1>5. ASSUME NEW i \in 1 .. Len(list)
      PROVE  /\ l[i].cat = list[i].cat /\ Len(l[i].tables) = Len(list[i].tables)
             /\ \A x \in 1 .. Len(list[i].tables) :
                  l[i].tables[x] = IF i = n /\ x = m THEN e ELSE list[i].tables[x]
  BY <1>2, <1>4
<1>6. /\ l \in Seq(CatInfo) /\ Len(l) = Len(list)
      /\ \A i \in 1 .. Len(list) :
           l[i].cat = list[i].cat /\ Len(l[i].tables) = Len(list[i].tables)
      /\ \A i \in 1 .. Len(list) : \A x \in 1 .. Len(list[i].tables) :
           l[i].tables[x] = IF i = n /\ x = m THEN e ELSE list[i].tables[x]
  BY <1>4, <1>5
<1> QED
  BY <1>3, <1>6

(* One more position read of a table.                                      *)
LEMMA RankIs ==
  ASSUME NEW J \in SUBSET Nat, NEW P \in SUBSET J, NEW p \in J \ P, IsFiniteSet(P),
         \A q \in P : q < p, \A q \in J : q < p => q \in P
  PROVE  /\ Objects!Rank(J, p) = Cardinality(P) + 1
         /\ Cardinality(P \cup {p}) = Cardinality(P) + 1
<1>1. {q \in J : q <= p} = P \cup {p}
  <2>1. \A q \in J : q <= p <=> q \in P \/ q = p
    OBVIOUS
  <2> QED
    BY <2>1
<1>2. Cardinality(P \cup {p}) = Cardinality(P) + 1
  BY FS_AddElement
<1>3. Objects!Cardinality(P \cup {p}) = Cardinality(P \cup {p})
  BY DEF Objects!Cardinality, Cardinality
<1> QED
  BY <1>1, <1>2, <1>3 DEF Objects!Rank

LEMMA PositionsFinite ==
  ASSUME NEW t, t.cols \in Seq(Nat), NEW D
  PROVE  /\ PositionsRead(t, D) \subseteq Objects!ColumnsJoined(t)
         /\ Objects!ColumnsJoined(t) \subseteq Nat
         /\ IsFiniteSet(Objects!ColumnsJoined(t))
         /\ IsFiniteSet(PositionsRead(t, D)) /\ Cardinality(PositionsRead(t, D)) \in Nat
         /\ Objects!Cardinality(PositionsRead(t, D)) = Cardinality(PositionsRead(t, D))
<1>1. Objects!ColumnsJoined(t) \subseteq 1 .. Len(t.cols) /\ Len(t.cols) \in Nat
  BY DEF Objects!ColumnsJoined
<1>2. IsFiniteSet(1 .. Len(t.cols))
  BY <1>1, FS_Interval
<1>3. PositionsRead(t, D) \subseteq Objects!ColumnsJoined(t)
  BY DEF PositionsRead
<1>4. IsFiniteSet(Objects!ColumnsJoined(t)) /\ IsFiniteSet(PositionsRead(t, D))
  BY <1>1, <1>2, <1>3, FS_Subset
<1>5. Objects!Cardinality(PositionsRead(t, D)) = Cardinality(PositionsRead(t, D))
  BY DEF Objects!Cardinality, Cardinality
<1> QED
  BY <1>1, <1>3, <1>4, <1>5, FS_CardinalityType

LEMMA ColumnsReadMore ==
  ASSUME NEW w, Objects!IsWorld(w), NEW D, D \subseteq Objects!ObjectRows(w),
         NEW r \in Objects!ObjectRows(w), r \notin D, \A s \in D : Before(s, r),
         \A s \in Objects!ObjectRows(w) : s \notin D /\ s # r => Before(r, s),
         NEW t \in Joined(w, r.cat), r.tab = t.tab, r.pos \in Objects!ColumnsJoined(t),
         r = ColumnRow(r.cat, t, r.pos), r.cat \in w.catalogs \cap request.cats,
         NEW cols \in Seq(Nat), ColumnsRead(t, cols, D)
  PROVE  ColumnsRead(t, Append(cols, r.col), D \cup {r})
<1> DEFINE J == Objects!ColumnsJoined(t)
           P == PositionsRead(t, D)
           p == r.pos
<1>1. t.cols \in Seq(Nat) /\ t.cat = r.cat
  BY JoinedIs
<1>2. /\ P \subseteq J /\ J \subseteq Nat /\ IsFiniteSet(P) /\ Cardinality(P) \in Nat
      /\ Objects!Cardinality(P) = Cardinality(P)
  BY <1>1, PositionsFinite
<1>3. r.col = t.cols[p] /\ r.col \in Nat /\ p \in J
  <2>1. r.col = t.cols[p]
    BY DEF ColumnRow, Objects!ObjectRow
  <2> QED
    BY <1>1, <2>1, PositionIs
<1>4. PositionsRead(t, D \cup {r}) = P \cup {p}
  BY <1>1, <1>3 DEF PositionsRead
<1>5. \A q \in J : ColumnRow(r.cat, t, q) \in Objects!ObjectRows(w)
  BY ObjectRowsAre
<1>6. \A q \in J : /\ ColumnRow(r.cat, t, q).cat = t.cat /\ ColumnRow(r.cat, t, q).tab = t.tab
                   /\ ColumnRow(r.cat, t, q).pos = q
  BY <1>1 DEF ColumnRow, Objects!ObjectRow
<1>7. \A q \in J : q \in Nat /\ Objects!Position(q) = q
  BY <1>1, PositionIs
<1>8. Objects!Weight(r.cat) \in Int /\ Objects!Weight(r.tab) \in Int
  BY RowWeights
<1>9. \A q \in P : q < p
  <2> SUFFICES ASSUME NEW q \in P PROVE q < p
    OBVIOUS
  <2>1. PICK s \in D : s.cat = t.cat /\ s.tab = t.tab /\ s.pos = q
    BY DEF PositionsRead
  <2>2. Before(s, r)
    OBVIOUS
  <2> QED
    BY <1>1, <1>2, <1>3, <1>7, <1>8, <2>1, <2>2 DEF Before
<1>10. \A q \in J : q < p => q \in P
  <2> SUFFICES ASSUME NEW q \in J, q < p PROVE q \in P
    OBVIOUS
  <2> DEFINE s == ColumnRow(r.cat, t, q)
  <2>1. s \in Objects!ObjectRows(w) /\ s.cat = t.cat /\ s.tab = t.tab /\ s.pos = q
    BY <1>5, <1>6
  <2> HIDE DEF s
  <2>2. ~Before(r, s)
    BY <1>1, <1>3, <1>7, <1>8, <2>1 DEF Before
  <2>3. s # r
    BY <1>7, <1>3, <2>1
  <2>4. s \in D
    BY <2>1, <2>2, <2>3
  <2> QED
    BY <2>1, <2>4 DEF PositionsRead
<1>11. p \notin P
  BY <1>3, <1>7, <1>9
<1>12. Objects!Rank(J, p) = Cardinality(P) + 1 /\ Cardinality(P \cup {p}) = Cardinality(P) + 1
  <2> HIDE DEF J, P, p
  <2> QED
    BY <1>2, <1>3, <1>9, <1>10, <1>11, RankIs
<1>13. Objects!Cardinality(P \cup {p}) = Cardinality(P \cup {p})
  BY DEF Objects!Cardinality, Cardinality
<1> DEFINE more == Append(cols, r.col)
<1>14. /\ Len(more) = Len(cols) + 1 /\ Len(cols) \in Nat
       /\ \A m \in 1 .. Len(cols) : more[m] = cols[m]
       /\ more[Len(cols) + 1] = r.col
  BY <1>3, AppendIs
<1>15. Len(cols) = Cardinality(P)
  BY <1>2 DEF ColumnsRead
<1>16. \A m \in 1 .. Len(cols) : \E q \in P : Objects!Rank(J, q) = m /\ cols[m] = t.cols[q]
  BY DEF ColumnsRead
<1> HIDE DEF more, P, J, p
<1>17. Len(more) = Objects!Cardinality(PositionsRead(t, D \cup {r}))
  BY <1>4, <1>12, <1>13, <1>14, <1>15
<1>18. \A m \in 1 .. Len(more) : \E q \in P \cup {p} : Objects!Rank(J, q) = m /\ more[m] = t.cols[q]
  <2> SUFFICES ASSUME NEW m \in 1 .. Len(more)
               PROVE  \E q \in P \cup {p} : Objects!Rank(J, q) = m /\ more[m] = t.cols[q]
    OBVIOUS
  <2>1. CASE m = Len(cols) + 1
    BY <1>3, <1>12, <1>14, <1>15, <2>1
  <2>2. CASE m # Len(cols) + 1
    <3>1. m \in 1 .. Len(cols)
      BY <1>14, <2>2
    <3> QED
      BY <1>14, <1>16, <3>1
  <2> QED
    BY <2>1, <2>2
<1> QED
  BY <1>4, <1>17, <1>18 DEF ColumnsRead, more, J

WithCols(t, cols) == [t EXCEPT !.cols = cols]

LEMMA SetCols ==
  ASSUME NEW t \in TableInfo, NEW cols \in Seq(Nat)
  PROVE  /\ WithCols(t, cols) \in TableInfo
         /\ WithCols(t, cols).tab = t.tab /\ WithCols(t, cols).type = t.type
         /\ WithCols(t, cols).cols = cols /\ WithCols(t, cols).keys = t.keys
BY DEF WithCols, TableInfo

(* The rows of other tables do not count.                                  *)
LEMMA PositionsSame ==
  ASSUME NEW t, NEW D, NEW r, t.cols \in Seq(Nat), r.cat # t.cat \/ r.tab # t.tab \/ r.pos = None
  PROVE  PositionsRead(t, D \cup {r}) = PositionsRead(t, D)
<1>1. \A p \in Objects!ColumnsJoined(t) : p # None
  BY PositionIs
<1> QED
  BY <1>1 DEF PositionsRead

(* Lists that name the same catalogs and tables.                           *)
SameTables(a, b) ==
  /\ Len(b) = Len(a)
  /\ \A i \in 1 .. Len(a) :
       /\ b[i].cat = a[i].cat /\ Len(b[i].tables) = Len(a[i].tables)
       /\ \A x \in 1 .. Len(a[i].tables) :
            b[i].tables[x].tab = a[i].tables[x].tab /\ b[i].tables[x].type = a[i].tables[x].type

LEMMA SameTablesListed ==
  ASSUME NEW a, NEW b, SameTables(a, b), NEW D
  PROVE  /\ CatalogsListed(a, D) => CatalogsListed(b, D)
         /\ TablesListed(a, D) => TablesListed(b, D)
<1>1. CatalogsListed(a, D) => CatalogsListed(b, D)
  BY DEF SameTables, CatalogsListed
<1>2. ASSUME TablesListed(a, D) PROVE TablesListed(b, D)
  <2>1. ASSUME NEW i \in 1 .. Len(b), NEW x \in 1 .. Len(b[i].tables)
        PROVE  \E r \in D : /\ r.cat = b[i].cat /\ r.tab = b[i].tables[x].tab
                            /\ r.type = b[i].tables[x].type /\ r.tab # None
    <3>1. /\ i \in 1 .. Len(a) /\ x \in 1 .. Len(a[i].tables) /\ b[i].cat = a[i].cat
          /\ b[i].tables[x].tab = a[i].tables[x].tab /\ b[i].tables[x].type = a[i].tables[x].type
      BY DEF SameTables
    <3> QED
      BY <1>2, <3>1 DEF TablesListed
  <2>2. ASSUME NEW r \in D, r.tab # None
        PROVE  \E i \in 1 .. Len(b) : \E x \in 1 .. Len(b[i].tables) :
                 b[i].cat = r.cat /\ b[i].tables[x].tab = r.tab
    <3>1. PICK i \in 1 .. Len(a) : \E x \in 1 .. Len(a[i].tables) :
            a[i].cat = r.cat /\ a[i].tables[x].tab = r.tab
      BY <1>2, <2>2 DEF TablesListed
    <3>2. PICK x \in 1 .. Len(a[i].tables) : a[i].cat = r.cat /\ a[i].tables[x].tab = r.tab
      BY <3>1
    <3>3. /\ i \in 1 .. Len(b) /\ x \in 1 .. Len(b[i].tables) /\ b[i].cat = a[i].cat
          /\ b[i].tables[x].tab = a[i].tables[x].tab
      BY DEF SameTables
    <3> QED
      BY <3>2, <3>3
  <2>3. ASSUME NEW i \in 1 .. Len(b), NEW x \in 1 .. Len(b[i].tables),
               NEW y \in 1 .. Len(b[i].tables), x < y
        PROVE  Objects!Weight(b[i].tables[x].tab) < Objects!Weight(b[i].tables[y].tab)
    <3>1. /\ i \in 1 .. Len(a) /\ x \in 1 .. Len(a[i].tables) /\ y \in 1 .. Len(a[i].tables)
          /\ b[i].tables[x].tab = a[i].tables[x].tab /\ b[i].tables[y].tab = a[i].tables[y].tab
      BY DEF SameTables
    <3>2. Objects!Weight(a[i].tables[x].tab) < Objects!Weight(a[i].tables[y].tab)
      BY <1>2, <2>3, <3>1 DEF TablesListed
    <3> QED
      BY <3>1, <3>2
  <2> QED
    BY <2>1, <2>2, <2>3 DEF TablesListed
<1> QED
  BY <1>1, <1>2

(* A catalog and a table are listed at one place only.                     *)
LEMMA OnePlace ==
  ASSUME NEW w, Objects!IsWorld(w), NEW D, D \subseteq Objects!ObjectRows(w),
         NEW a, Len(a) \in Nat, \A i \in 1 .. Len(a) : Len(a[i].tables) \in Nat,
         CatalogsListed(a, D), TablesListed(a, D),
         NEW i \in 1 .. Len(a), NEW j \in 1 .. Len(a), a[i].cat = a[j].cat
  PROVE  /\ i = j
         /\ \A x, y \in 1 .. Len(a[i].tables) : a[i].tables[x].tab = a[i].tables[y].tab => x = y
<1>1. Objects!Weight(a[i].cat) \in Int
  <2>1. PICK r \in D : r.cat = a[i].cat
    BY DEF CatalogsListed
  <2> QED
    BY <2>1, RowWeights
<1>2. i = j
  <2>1. i < j => Objects!Weight(a[i].cat) < Objects!Weight(a[j].cat)
    BY DEF CatalogsListed
  <2>2. j < i => Objects!Weight(a[j].cat) < Objects!Weight(a[i].cat)
    BY DEF CatalogsListed
  <2> QED
    BY <1>1, <2>1, <2>2
<1>3. ASSUME NEW x \in 1 .. Len(a[i].tables), NEW y \in 1 .. Len(a[i].tables),
             a[i].tables[x].tab = a[i].tables[y].tab
      PROVE  x = y
  <2>1. Objects!Weight(a[i].tables[x].tab) \in Int
    <3>1. PICK r \in D : r.tab = a[i].tables[x].tab
      BY DEF TablesListed
    <3> QED
      BY <3>1, RowWeights
  <2>2. x < y => Objects!Weight(a[i].tables[x].tab) < Objects!Weight(a[i].tables[y].tab)
    BY DEF TablesListed
  <2>3. y < x => Objects!Weight(a[i].tables[y].tab) < Objects!Weight(a[i].tables[x].tab)
    BY DEF TablesListed
  <2> QED
    BY <1>3, <2>1, <2>2, <2>3
<1> QED
  BY <1>2, <1>3

LEMMA ListTypes ==
  ASSUME NEW a \in Seq(CatInfo)
  PROVE  /\ Len(a) \in Nat
         /\ \A i \in 1 .. Len(a) :
              /\ a[i] \in CatInfo /\ a[i].tables \in Seq(TableInfo) /\ Len(a[i].tables) \in Nat
              /\ \A x \in 1 .. Len(a[i].tables) : a[i].tables[x] \in TableInfo
<1>1. Len(a) \in Nat /\ \A i \in 1 .. Len(a) : a[i] \in CatInfo
  BY LenIs
<1>2. \A i \in 1 .. Len(a) : a[i].tables \in Seq(TableInfo)
  BY <1>1 DEF CatInfo
<1>3. ASSUME NEW i \in 1 .. Len(a)
      PROVE  Len(a[i].tables) \in Nat /\ \A x \in 1 .. Len(a[i].tables) : a[i].tables[x] \in TableInfo
  BY <1>2, LenIs
<1> QED
  BY <1>1, <1>2, <1>3

LEMMA OnePlaceRead ==
  ASSUME NEW w, Objects!IsWorld(w), NEW a \in Seq(CatInfo), Grouped(w, a, Objects!ObjectRows(w)),
         NEW i \in 1 .. Len(a), NEW j \in 1 .. Len(a), a[i].cat = a[j].cat
  PROVE  /\ i = j
         /\ \A x, y \in 1 .. Len(a[i].tables) : a[i].tables[x].tab = a[i].tables[y].tab => x = y
<1> DEFINE D == Objects!ObjectRows(w)
<1>1. Len(a) \in Nat /\ \A k \in 1 .. Len(a) : Len(a[k].tables) \in Nat
  BY ListTypes
<1>2. CatalogsListed(a, D) /\ TablesListed(a, D) /\ D \subseteq Objects!ObjectRows(w)
  BY DEF Grouped
<1> HIDE DEF D
<1> QED
  BY <1>1, <1>2, OnePlace

(* Columns set in table m of catalog n.                                    *)
ColsAt(a, n, m, cols) == [a EXCEPT ![n].tables[m].cols = cols]

LEMMA ColumnsSet ==
  ASSUME NEW a \in Seq(CatInfo), NEW n \in 1 .. Len(a), NEW m \in 1 .. Len(a[n].tables),
         NEW cols \in Seq(Nat)
  PROVE  /\ ColsAt(a, n, m, cols) \in Seq(CatInfo) /\ SameTables(a, ColsAt(a, n, m, cols))
         /\ NoKeys(a) => NoKeys(ColsAt(a, n, m, cols))
         /\ \A i \in 1 .. Len(a) : \A x \in 1 .. Len(a[i].tables) :
              ColsAt(a, n, m, cols)[i].tables[x].cols =
                IF i = n /\ x = m THEN cols ELSE a[i].tables[x].cols
<1> DEFINE t == a[n].tables[m]
           e == WithCols(t, cols)
           b == WithTable(a, n, m, e)
<1>1. ColsAt(a, n, m, cols) = b
  BY DEF ColsAt, WithTable, WithCols
<1>2. t \in TableInfo
  BY ListTypes
<1>3. e \in TableInfo /\ e.tab = t.tab /\ e.type = t.type /\ e.cols = cols /\ e.keys = t.keys
  BY <1>2, SetCols
<1> HIDE DEF e
<1>4. /\ b \in Seq(CatInfo) /\ Len(b) = Len(a)
      /\ \A i \in 1 .. Len(a) : b[i].cat = a[i].cat /\ Len(b[i].tables) = Len(a[i].tables)
      /\ \A i \in 1 .. Len(a) : \A x \in 1 .. Len(a[i].tables) :
           b[i].tables[x] = IF i = n /\ x = m THEN e ELSE a[i].tables[x]
  BY <1>3, SetTable
<1> HIDE DEF b
<1>5. \A i \in 1 .. Len(a) : \A x \in 1 .. Len(a[i].tables) :
        /\ b[i].tables[x].tab = a[i].tables[x].tab /\ b[i].tables[x].type = a[i].tables[x].type
        /\ b[i].tables[x].keys = a[i].tables[x].keys
        /\ b[i].tables[x].cols = IF i = n /\ x = m THEN cols ELSE a[i].tables[x].cols
  <2> SUFFICES ASSUME NEW i \in 1 .. Len(a), NEW x \in 1 .. Len(a[i].tables)
               PROVE  /\ b[i].tables[x].tab = a[i].tables[x].tab
                      /\ b[i].tables[x].type = a[i].tables[x].type
                      /\ b[i].tables[x].keys = a[i].tables[x].keys
                      /\ b[i].tables[x].cols = IF i = n /\ x = m THEN cols ELSE a[i].tables[x].cols
    OBVIOUS
  <2>1. b[i].tables[x] = IF i = n /\ x = m THEN e ELSE a[i].tables[x]
    BY <1>4
  <2> QED
    BY <1>3, <2>1
<1>6. SameTables(a, b)
  BY <1>4, <1>5 DEF SameTables
<1>7. NoKeys(a) => NoKeys(b)
  <2> SUFFICES ASSUME NoKeys(a), NEW i \in 1 .. Len(b), NEW x \in 1 .. Len(b[i].tables)
               PROVE  b[i].tables[x].keys = <<>>
    BY DEF NoKeys
  <2>1. i \in 1 .. Len(a) /\ x \in 1 .. Len(a[i].tables)
    BY <1>4
  <2>2. b[i].tables[x].keys = a[i].tables[x].keys
    BY <1>5, <2>1
  <2> QED
    BY <2>1, <2>2 DEF NoKeys
<1> QED
  BY <1>1, <1>4, <1>5, <1>6, <1>7

(* A column?                                                               *)
LEMMA ColumnStep ==
  ASSUME NEW w, Objects!IsWorld(w), NEW D, D \subseteq Objects!ObjectRows(w),
         NEW r \in Objects!ObjectRows(w), r \notin D, r.tab # None, \A s \in D : Before(s, r),
         \A s \in Objects!ObjectRows(w) : s \notin D /\ s # r => Before(r, s),
         NEW a \in Seq(CatInfo), CatalogsListed(a, D \cup {r}), TablesListed(a, D \cup {r}),
         ColumnsListed(w, a, D),
         NEW n \in 1 .. Len(a), NEW m \in 1 .. Len(a[n].tables),
         a[n].cat = r.cat, a[n].tables[m].tab = r.tab
  PROVE  LET b == Objects!AddColumn([infos |-> a, table |-> <<n, m>>], r)
         IN  /\ b \in Seq(CatInfo) /\ SameTables(a, b) /\ (NoKeys(a) => NoKeys(b))
             /\ ColumnsListed(w, b, D \cup {r})
<1> DEFINE c == [infos |-> a, table |-> <<n, m>>]
<1>1. PICK u \in Joined(w, r.cat) :
        /\ r.tab = u.tab
        /\ \/ Objects!ColumnsJoined(u) = {} /\ r = TableRowOf(r.cat, u)
           \/ r.pos \in Objects!ColumnsJoined(u) /\ r = ColumnRow(r.cat, u, r.pos)
  <2>1. \E u \in Joined(w, r.cat) :
          /\ r.tab = u.tab /\ r.type = u.type
          /\ \/ Objects!ColumnsJoined(u) = {} /\ r = TableRowOf(r.cat, u)
             \/ r.pos \in Objects!ColumnsJoined(u) /\ r = ColumnRow(r.cat, u, r.pos)
    BY RowIs
  <2> QED
    BY <2>1
<1>2. /\ u \in w.tables /\ u.cols \in Seq(Nat) /\ u.cat = r.cat
      /\ \A t \in w.tables : t.cat = r.cat /\ t.tab = r.tab => t = u
  BY <1>1, JoinedIs
<1>3. \A t \in w.tables : t.cols \in Seq(Nat)
  BY DEF Objects!IsWorld, Objects!TableOK
<1>4. CASE r = TableRowOf(r.cat, u)
  <2>1. r.pos = None /\ r.col = None
    BY <1>4 DEF TableRowOf, Objects!ObjectRow
  <2>2. Objects!AddColumn(c, r) = a
    BY <2>1 DEF Objects!AddColumn
  <2>3. ColumnsListed(w, a, D \cup {r})
    <3>1. \A t \in w.tables : PositionsRead(t, D \cup {r}) = PositionsRead(t, D)
      BY <1>3, <2>1, PositionsSame
    <3>2. ASSUME NEW i \in 1 .. Len(a), NEW x \in 1 .. Len(a[i].tables), NEW t \in w.tables,
                 t.cat = a[i].cat, t.tab = a[i].tables[x].tab
          PROVE  ColumnsRead(t, a[i].tables[x].cols, D \cup {r})
      <4>1. ColumnsRead(t, a[i].tables[x].cols, D)
        BY <3>2 DEF ColumnsListed
      <4> QED
        BY <3>1, <4>1 DEF ColumnsRead
    <3> QED
      BY <3>2 DEF ColumnsListed
  <2>4. SameTables(a, a)
    BY DEF SameTables
  <2> QED
    BY <2>2, <2>3, <2>4
<1>5. CASE r.pos \in Objects!ColumnsJoined(u) /\ r = ColumnRow(r.cat, u, r.pos)
  <2> DEFINE old  == a[n].tables[m].cols
             cols == Append(old, r.col)
             b    == ColsAt(a, n, m, cols)
  <2>2. r.col = u.cols[r.pos] /\ r.col \in Nat /\ r.col # None
    <3>1. r.col = u.cols[r.pos]
      BY <1>5 DEF ColumnRow, Objects!ObjectRow
    <3> QED
      BY <1>2, <1>5, <3>1, PositionIs
  <2>3. old \in Seq(Nat)
    <3>1. a[n].tables[m] \in TableInfo
      BY ListTypes
    <3> QED
      BY <3>1 DEF TableInfo
  <2>4. cols \in Seq(Nat)
    BY <2>2, <2>3, AppendIs
  <2>6. Objects!AddColumn(c, r) = b
    BY <2>2 DEF Objects!AddColumn, ColsAt
  <2> HIDE DEF cols
  <2>8. /\ b \in Seq(CatInfo) /\ SameTables(a, b)
        /\ NoKeys(a) => NoKeys(b)
        /\ \A i \in 1 .. Len(a) : \A x \in 1 .. Len(a[i].tables) :
             b[i].tables[x].cols = IF i = n /\ x = m THEN cols ELSE a[i].tables[x].cols
    BY <2>4, ColumnsSet
  <2> HIDE DEF b
  <2>13. ColumnsListed(w, b, D \cup {r})
    <3> SUFFICES ASSUME NEW i \in 1 .. Len(b), NEW x \in 1 .. Len(b[i].tables), NEW t \in w.tables,
                        t.cat = b[i].cat, t.tab = b[i].tables[x].tab
                 PROVE  ColumnsRead(t, b[i].tables[x].cols, D \cup {r})
      BY DEF ColumnsListed
    <3>0. /\ i \in 1 .. Len(a) /\ x \in 1 .. Len(a[i].tables)
          /\ t.cat = a[i].cat /\ t.tab = a[i].tables[x].tab
          /\ b[i].tables[x].cols = IF i = n /\ x = m THEN cols ELSE a[i].tables[x].cols
      BY <2>8 DEF SameTables
    <3>1. ColumnsRead(t, a[i].tables[x].cols, D)
      BY <3>0 DEF ColumnsListed
    <3>2. CASE i = n /\ x = m
      <4>1. t = u /\ b[i].tables[x].cols = cols
        BY <1>2, <3>0, <3>2
      <4>2. ColumnsRead(u, old, D)
        BY <3>1, <3>2, <4>1
      <4>3. r.cat \in w.catalogs \cap request.cats
        BY RowIs
      <4> HIDE DEF old
      <4>4. ColumnsRead(u, Append(old, r.col), D \cup {r})
        BY <1>1, <1>5, <2>3, <4>2, <4>3, ColumnsReadMore
      <4> QED
        BY <4>1, <4>4 DEF cols
    <3>3. CASE ~(i = n /\ x = m)
      <4>1. b[i].tables[x].cols = a[i].tables[x].cols
        BY <3>0, <3>3
      <4>2. ~(t.cat = r.cat /\ t.tab = r.tab)
        <5> SUFFICES ASSUME t.cat = r.cat, t.tab = r.tab PROVE FALSE
          OBVIOUS
        <5>1. a[i].cat = a[n].cat /\ D \cup {r} \subseteq Objects!ObjectRows(w)
          BY <3>0
        <5>2. i = n /\ \A y, z \in 1 .. Len(a[i].tables) :
                         a[i].tables[y].tab = a[i].tables[z].tab => y = z
          <6>1. Len(a) \in Nat /\ \A j \in 1 .. Len(a) : Len(a[j].tables) \in Nat
            BY ListTypes
          <6> QED
            BY <3>0, <5>1, <6>1, OnePlace
        <5> QED
          BY <3>0, <3>3, <5>2
      <4>3. PositionsRead(t, D \cup {r}) = PositionsRead(t, D)
        BY <1>3, <4>2, PositionsSame
      <4> DEFINE cs == b[i].tables[x].cols
      <4>4. ColumnsRead(t, cs, D)
        BY <3>1, <4>1
      <4> HIDE DEF cs
      <4>5. ColumnsRead(t, cs, D \cup {r})
        BY <4>3, <4>4 DEF ColumnsRead
      <4> QED
        BY <4>5 DEF cs
    <3> QED
      BY <3>2, <3>3
  <2> QED
    BY <2>6, <2>8, <2>13
<1> QED
  BY <1>1, <1>4, <1>5

(* One row of the first query: the rows read stay grouped.                 *)
RowTable(r) == IF r.tab # None /\ r.schema THEN Objects!TableChange(Objects!CatalogChange(r), r)
               ELSE Objects!CatalogChange(r)

RowInfos(r) == IF r.tab # None /\ r.schema THEN Objects!AddColumn(RowTable(r), r)
               ELSE RowTable(r).infos

LEMMA SameLast ==
  ASSUME NEW a, NEW b, a \in Seq(CatInfo), b \in Seq(CatInfo), SameTables(a, b), Len(a) # 0
  PROVE  LastOf(b) = LastOf(a)
<1> DEFINE n == Len(a)
<1>1. Len(b) = n /\ n \in 1 .. n /\ Len(b[n].tables) = Len(a[n].tables)
  <2>1. n \in Nat
    BY LenIs
  <2> QED
    BY <2>1 DEF SameTables
<1>2. Len(a[n].tables) = 0 => LastOf(a) = Objects!NoPlace /\ LastOf(b) = Objects!NoPlace
  BY <1>1, LastIs
<1>3. Len(a[n].tables) # 0 => /\ LastOf(a) = <<n, Len(a[n].tables)>>
                              /\ LastOf(b) = <<n, Len(a[n].tables)>>
  BY <1>1, LastIs
<1> QED
  BY <1>2, <1>3

LEMMA RowStep ==
  ASSUME NEW w, Objects!IsWorld(w), NEW D, D \subseteq Objects!ObjectRows(w),
         NEW r \in Objects!ObjectRows(w), r \notin D, \A s \in D : Before(s, r),
         \A s \in Objects!ObjectRows(w) : s \notin D /\ s # r => Before(r, s),
         infos \in Seq(CatInfo), Grouped(w, infos, D), NoKeys(infos), current.table = LastOf(infos)
  PROVE  /\ r.tab # None => r.schema
         /\ RowInfos(r) \in Seq(CatInfo) /\ NoKeys(RowInfos(r))
         /\ RowTable(r).table = LastOf(RowInfos(r))
         /\ Grouped(w, RowInfos(r), D \cup {r})
<1> DEFINE c == Objects!CatalogChange(r)
<1>1. /\ c.infos \in Seq(CatInfo) /\ NoKeys(c.infos) /\ c.table = LastOf(c.infos)
      /\ CatalogsListed(c.infos, D \cup {r})
      /\ TablesListed(c.infos, D) /\ ColumnsListed(w, c.infos, D)
      /\ Len(c.infos) # 0 /\ c.infos[Len(c.infos)].cat = r.cat
  BY CatalogStep
<1> HIDE DEF c
<1>2. CASE r.tab = None
  <2>1. RowInfos(r) = c.infos /\ RowTable(r).table = c.table
    BY <1>2 DEF RowInfos, RowTable, c
  <2>2. TablesListed(c.infos, D \cup {r})
    <3> DEFINE l == c.infos
    <3>1. TablesListed(l, D)
      BY <1>1
    <3> HIDE DEF l
    <3>2. TablesListed(l, D \cup {r})
      BY <1>2, <3>1, TablesListedMore
    <3> QED
      BY <3>2 DEF l
  <2>3. r.pos = None
    BY <1>2, RowIs DEF CatalogRow, Objects!ObjectRow
  <2>4. ColumnsListed(w, c.infos, D \cup {r})
    <3>1. \A t \in w.tables : t.cols \in Seq(Nat)
      BY DEF Objects!IsWorld, Objects!TableOK
    <3>2. ASSUME NEW i \in 1 .. Len(c.infos), NEW x \in 1 .. Len(c.infos[i].tables),
                 NEW t \in w.tables,
                 t.cat = c.infos[i].cat, t.tab = c.infos[i].tables[x].tab
          PROVE  ColumnsRead(t, c.infos[i].tables[x].cols, D \cup {r})
      <4>1. ColumnsRead(t, c.infos[i].tables[x].cols, D)
        BY <1>1, <3>2 DEF ColumnsListed
      <4>2. PositionsRead(t, D \cup {r}) = PositionsRead(t, D)
        BY <2>3, <3>1, PositionsSame
      <4> QED
        BY <4>1, <4>2 DEF ColumnsRead
    <3> QED
      BY <3>2 DEF ColumnsListed
  <2> QED
    BY <1>1, <1>2, <2>1, <2>2, <2>4 DEF Grouped
<1>3. CASE r.tab # None
  <2> DEFINE d == Objects!TableChange(c, r)
             a == d.infos
             n == Len(a)
             m == Len(a[n].tables)
  <2>1. r.schema
    <3>1. PICK t \in Joined(w, r.cat) : r.tab = t.tab
      BY <1>3, RowIs
    <3>2. r.schema = Objects!SchemaJoined
      BY RowIs
    <3> QED
      BY <3>1, <3>2, JoinedIs
  <2>2. RowTable(r) = d /\ RowInfos(r) = Objects!AddColumn(d, r)
    BY <1>3, <2>1 DEF RowInfos, RowTable, c
  <2>3. /\ a \in Seq(CatInfo) /\ NoKeys(a) /\ d.table = <<n, m>>
        /\ CatalogsListed(a, D \cup {r})
        /\ TablesListed(a, D \cup {r}) /\ ColumnsListed(w, a, D)
        /\ n \in Nat /\ n # 0 /\ a[n].cat = r.cat
        /\ m \in Nat /\ m # 0 /\ a[n].tables[m].tab = r.tab
    <3>1. TableAdded(w, d, D, r)
      BY <1>1, <1>3, TableStep
    <3> QED
      BY <3>1 DEF TableAdded
  <2>4. LastOf(a) = <<n, m>>
    BY <2>3, LastIs
  <2>5. Objects!AddColumn(d, r) = Objects!AddColumn([infos |-> a, table |-> <<n, m>>], r)
    BY <2>3 DEF Objects!AddColumn
  <2> DEFINE b == Objects!AddColumn([infos |-> a, table |-> <<n, m>>], r)
  <2>6. n \in 1 .. Len(a) /\ m \in 1 .. Len(a[n].tables)
    BY <2>3
  <2> HIDE DEF d, a
  <2>7. /\ b \in Seq(CatInfo) /\ SameTables(a, b) /\ (NoKeys(a) => NoKeys(b))
        /\ ColumnsListed(w, b, D \cup {r})
    BY <1>3, <2>3, <2>6, ColumnStep
  <2> HIDE DEF b
  <2>8. LastOf(b) = <<n, m>>
    BY <2>3, <2>4, <2>7, SameLast
  <2>9. CatalogsListed(b, D \cup {r}) /\ TablesListed(b, D \cup {r})
    BY <2>3, <2>7, SameTablesListed
  <2>10. RowTable(r).table = <<n, m>> /\ RowInfos(r) = b
    BY <2>2, <2>3, <2>5 DEF b
  <2> QED
    BY <2>1, <2>3, <2>7, <2>8, <2>9, <2>10 DEF Grouped
<1> QED
  BY <1>2, <1>3

(* What the grouped rows of the whole query say.                           *)
LEMMA RankInjective ==
  ASSUME NEW J, J \subseteq Nat, IsFiniteSet(J), NEW p \in J, NEW q \in J,
         Objects!Rank(J, p) = Objects!Rank(J, q)
  PROVE  p = q
<1>1. ASSUME NEW a \in J, NEW b \in J, Objects!Rank(J, a) = Objects!Rank(J, b) PROVE ~(a < b)
  <2> DEFINE A == {x \in J : x <= a}
             B == {x \in J : x <= b}
  <2>1. Cardinality(A) = Cardinality(B)
    <3>1. Objects!Cardinality(A) = Cardinality(A) /\ Objects!Cardinality(B) = Cardinality(B)
      BY DEF Objects!Cardinality, Cardinality
    <3> QED
      BY <1>1, <3>1 DEF Objects!Rank
  <2>2. IsFiniteSet(B)
    BY FS_Subset
  <2> SUFFICES ASSUME a < b PROVE FALSE
    OBVIOUS
  <2>3. A \in SUBSET B
    <3>1. ASSUME NEW x \in J, x <= a PROVE x <= b
      <4>1. x \in Nat /\ a \in Nat /\ b \in Nat
        OBVIOUS
      <4> QED
        BY <3>1, <4>1
    <3> QED
      BY <3>1
  <2>4. b \in B /\ b \notin A
    OBVIOUS
  <2> HIDE DEF A, B
  <2> QED
    BY <2>1, <2>2, <2>3, <2>4, FS_Subset
<1> QED
  BY <1>1

LEMMA RowExists ==
  ASSUME NEW w, Objects!IsWorld(w), NEW cat \in w.catalogs \cap request.cats
  PROVE  /\ \E r \in Objects!ObjectRows(w) : r.cat = cat
         /\ \A t \in Joined(w, cat) :
              /\ \E r \in Objects!ObjectRows(w) : r.cat = cat /\ r.tab = t.tab
              /\ \A p \in Objects!ColumnsJoined(t) :
                   \E r \in Objects!ObjectRows(w) : r.cat = cat /\ r.tab = t.tab /\ r.pos = p
<1>1. ASSUME NEW t \in Joined(w, cat), NEW p \in Objects!ColumnsJoined(t)
      PROVE  \E r \in Objects!ObjectRows(w) : r.cat = cat /\ r.tab = t.tab /\ r.pos = p
  <2>1. ColumnRow(cat, t, p) \in Objects!ObjectRows(w)
    BY ObjectRowsAre
  <2> QED
    BY <2>1 DEF ColumnRow, Objects!ObjectRow
<1>2. ASSUME NEW t \in Joined(w, cat)
      PROVE  \E r \in Objects!ObjectRows(w) : r.cat = cat /\ r.tab = t.tab
  <2>1. CASE Objects!ColumnsJoined(t) = {}
    <3>1. TableRowOf(cat, t) \in Objects!ObjectRows(w)
      BY <2>1, ObjectRowsAre
    <3> QED
      BY <3>1 DEF TableRowOf, Objects!ObjectRow
  <2>2. CASE Objects!ColumnsJoined(t) # {}
    BY <1>1, <2>2
  <2> QED
    BY <2>1, <2>2
<1>3. \E r \in Objects!ObjectRows(w) : r.cat = cat
  <2>1. CASE Joined(w, cat) = {}
    <3>1. CatalogRow(cat) \in Objects!ObjectRows(w)
      BY <2>1, ObjectRowsAre
    <3> QED
      BY <3>1 DEF CatalogRow, Objects!ObjectRow
  <2>2. CASE Joined(w, cat) # {}
    BY <1>2, <2>2
  <2> QED
    BY <2>1, <2>2
<1> QED
  BY <1>1, <1>2, <1>3

LEMMA ColumnsAreAll ==
  ASSUME NEW w, Objects!IsWorld(w), NEW cat \in w.catalogs \cap request.cats,
         NEW t \in Joined(w, cat), NEW cols \in Seq(Nat),
         ColumnsRead(t, cols, Objects!ObjectRows(w))
  PROVE  cols = Objects!TableCols(t)
<1> DEFINE J == Objects!ColumnsJoined(t)
           k == Objects!Cardinality(J)
<1>1. t.cat = cat /\ t.cols \in Seq(Nat)
  BY JoinedIs
<1>2. PositionsRead(t, Objects!ObjectRows(w)) = J
  <2>1. \A p \in J : \E r \in Objects!ObjectRows(w) : r.cat = t.cat /\ r.tab = t.tab /\ r.pos = p
    BY <1>1, RowExists
  <2> QED
    BY <2>1 DEF PositionsRead
<1>3. J \subseteq Nat /\ IsFiniteSet(J)
  BY <1>1, PositionsFinite
<1>4. Len(cols) = k /\ \A m \in 1 .. Len(cols) : \E p \in J : Objects!Rank(J, p) = m /\ cols[m] = t.cols[p]
  BY <1>2 DEF ColumnsRead
<1>5. Objects!TableCols(t) = [n \in 1 .. k |-> t.cols[CHOOSE p \in J : Objects!Rank(J, p) = n]]
  BY DEF Objects!TableCols
<1>6. cols = [n \in 1 .. Len(cols) |-> cols[n]]
  OBVIOUS
<1> HIDE DEF J, k
<1>7. \A n \in 1 .. k : cols[n] = t.cols[CHOOSE p \in J : Objects!Rank(J, p) = n]
  <2> SUFFICES ASSUME NEW n \in 1 .. k
               PROVE  cols[n] = t.cols[CHOOSE p \in J : Objects!Rank(J, p) = n]
    OBVIOUS
  <2>1. PICK p \in J : Objects!Rank(J, p) = n /\ cols[n] = t.cols[p]
    BY <1>4
  <2> DEFINE q == CHOOSE q \in J : Objects!Rank(J, q) = n
  <2>2. q \in J /\ Objects!Rank(J, q) = n
    BY <2>1
  <2> HIDE DEF q
  <2>3. q = p
    BY <1>3, <2>1, <2>2, RankInjective
  <2> QED
    BY <2>1, <2>3 DEF q
<1> QED
  BY <1>4, <1>5, <1>6, <1>7

(* An entry of the result is a table the filters match.                    *)
LEMMA EntryIs ==
  ASSUME NEW w, Objects!IsWorld(w), NEW a \in Seq(CatInfo), Grouped(w, a, Objects!ObjectRows(w)),
         NEW i \in 1 .. Len(a), NEW x \in 1 .. Len(a[i].tables)
  PROVE  /\ a[i].cat \in w.catalogs \cap request.cats
         /\ \E t \in Joined(w, a[i].cat) :
              /\ a[i].tables[x].tab = t.tab /\ a[i].tables[x].type = t.type
              /\ a[i].tables[x].cols = Objects!TableCols(t)
<1> DEFINE e == a[i].tables[x]
<1>1. e.cols \in Seq(Nat)
  <2>1. e \in TableInfo
    BY ListTypes
  <2> QED
    BY <2>1 DEF TableInfo
<1>2. PICK r \in Objects!ObjectRows(w) :
        r.cat = a[i].cat /\ r.tab = e.tab /\ r.type = e.type /\ r.tab # None
  BY DEF Grouped, TablesListed
<1>3. a[i].cat \in w.catalogs \cap request.cats
  BY <1>2, RowIs
<1>4. PICK t \in Joined(w, a[i].cat) : r.tab = t.tab /\ r.type = t.type
  BY <1>2, RowIs
<1>5. t \in w.tables /\ t.cat = a[i].cat
  BY JoinedIs
<1>6. ColumnsRead(t, e.cols, Objects!ObjectRows(w))
  BY <1>2, <1>4, <1>5 DEF Grouped, ColumnsListed
<1>7. e.cols = Objects!TableCols(t)
  BY <1>1, <1>3, <1>6, ColumnsAreAll
<1> QED
  BY <1>2, <1>3, <1>4, <1>7

LEMMA ExactWhenGrouped ==
  ASSUME NEW w, Objects!IsWorld(w), infos \in Seq(CatInfo),
         Grouped(w, infos, Objects!ObjectRows(w))
  PROVE  /\ {infos[i].cat : i \in 1 .. Len(infos)} = w.catalogs \cap request.cats
         /\ \A i, j \in 1 .. Len(infos) : infos[i].cat = infos[j].cat => i = j
         /\ \A i \in 1 .. Len(infos) :
              /\ Objects!ListedTables(i) = Objects!ExpectedTables(w, infos[i].cat)
              /\ \A j, k \in 1 .. Len(infos[i].tables) :
                   infos[i].tables[j].tab = infos[i].tables[k].tab => j = k
<1>1. /\ Len(infos) \in Nat
      /\ \A i \in 1 .. Len(infos) : Len(infos[i].tables) \in Nat /\ infos[i].tables \in Seq(TableInfo)
  BY ListTypes
<1>2. {infos[i].cat : i \in 1 .. Len(infos)} = w.catalogs \cap request.cats
  <2>1. ASSUME NEW i \in 1 .. Len(infos) PROVE infos[i].cat \in w.catalogs \cap request.cats
    <3>1. PICK r \in Objects!ObjectRows(w) : r.cat = infos[i].cat
      BY DEF Grouped, CatalogsListed
    <3> QED
      BY <3>1, RowIs
  <2>2. ASSUME NEW cat \in w.catalogs \cap request.cats
        PROVE  \E i \in 1 .. Len(infos) : infos[i].cat = cat
    <3>1. PICK r \in Objects!ObjectRows(w) : r.cat = cat
      BY RowExists
    <3> QED
      BY <3>1 DEF Grouped, CatalogsListed
  <2> QED
    BY <2>1, <2>2
<1>3. ASSUME NEW i \in 1 .. Len(infos), NEW j \in 1 .. Len(infos), infos[i].cat = infos[j].cat
      PROVE  /\ i = j
             /\ \A x, y \in 1 .. Len(infos[i].tables) :
                  infos[i].tables[x].tab = infos[i].tables[y].tab => x = y
  BY <1>3, OnePlaceRead
<1>4. ASSUME NEW i \in 1 .. Len(infos)
      PROVE  Objects!ListedTables(i) = Objects!ExpectedTables(w, infos[i].cat)
  <2> DEFINE cat   == infos[i].cat
             ts    == infos[i].tables
             E(t)  == [tab |-> t.tab, type |-> t.type, cols |-> Objects!TableCols(t)]
             L(t)  == [tab |-> t.tab, type |-> t.type, cols |-> t.cols]
  <2>1. cat \in w.catalogs \cap request.cats
    BY <1>2
  <2>2. Objects!ExpectedTables(w, cat) = {E(t) : t \in Joined(w, cat)}
    <3>1. {u \in w.tables : Objects!includeTables /\ request.schema /\ u.cat = cat
                             /\ Objects!TableMatches(u)} = Joined(w, cat)
      BY DEF Joined, Objects!TablesJoined, Objects!SchemaJoined, Objects!includeSchemas,
             Objects!includeTables
    <3> QED
      BY <3>1 DEF Objects!ExpectedTables
  <2>3. Objects!ListedTables(i) = {L(ts[x]) : x \in 1 .. Len(ts)}
    <3>1. Objects!ToSet(ts) = {ts[x] : x \in DOMAIN ts}
      BY DEF Objects!ToSet
    <3>2. DOMAIN ts = 1 .. Len(ts)
      BY <1>1, LenIs
    <3> HIDE DEF ts
    <3> QED
      BY <3>1, <3>2 DEF Objects!ListedTables, ts
  <2>4. \A x \in 1 .. Len(ts) : \E t \in Joined(w, cat) :
          ts[x].tab = t.tab /\ ts[x].type = t.type /\ ts[x].cols = Objects!TableCols(t)
    BY EntryIs
  <2>5. \A x \in 1 .. Len(ts) : \E t \in Joined(w, cat) : L(ts[x]) = E(t)
    <3> HIDE DEF ts, cat
    <3> QED
      BY <2>4
  <2>6. \A t \in Joined(w, cat) : \E x \in 1 .. Len(ts) : E(t) = L(ts[x])
    <3> SUFFICES ASSUME NEW t \in Joined(w, cat) PROVE \E x \in 1 .. Len(ts) : E(t) = L(ts[x])
      OBVIOUS
    <3>1. PICK r \in Objects!ObjectRows(w) : r.cat = cat /\ r.tab = t.tab
      BY <2>1, RowExists
    <3>2. t.tab # None /\ t \in w.tables /\ t.cat = cat
      BY JoinedIs
    <3>3. PICK j \in 1 .. Len(infos) : \E x \in 1 .. Len(infos[j].tables) :
            infos[j].cat = r.cat /\ infos[j].tables[x].tab = r.tab
      BY <3>1, <3>2 DEF Grouped, TablesListed
    <3>4. j = i
      BY <1>3, <3>1, <3>3
    <3>5. PICK x \in 1 .. Len(ts) : ts[x].tab = t.tab
      BY <3>1, <3>3, <3>4
    <3>6. PICK u \in Joined(w, cat) :
            ts[x].tab = u.tab /\ ts[x].type = u.type /\ ts[x].cols = Objects!TableCols(u)
      BY <2>4
    <3>7. u = t
      <4>1. u \in w.tables /\ u.cat = cat
        BY JoinedIs
      <4>2. Objects!Weight(u.tab) = Objects!Weight(t.tab)
        BY <3>5, <3>6
      <4>3. \A v \in w.tables : v.cat = cat /\ Objects!Weight(v.tab) = Objects!Weight(t.tab) => v = t
        BY JoinedIs
      <4> QED
        BY <4>1, <4>2, <4>3
    <3> HIDE DEF ts, cat
    <3> QED
      BY <3>6, <3>7
  <2> HIDE DEF ts, E, L
  <2>7. {L(ts[x]) : x \in 1 .. Len(ts)} = {E(t) : t \in Joined(w, cat)}
    BY <2>5, <2>6
  <2> QED
    BY <2>2, <2>3, <2>7
<1> QED
  BY <1>2, <1>3, <1>4

-----------------------------------------------------------------------------
(* The rows of the second query.                                           *)
References(k) == k.type = "FOREIGN KEY"

KeyColumnRow(k, p) ==
  [cat |-> k.cat, tab |-> k.tab, name |-> k.name, type |-> k.type,
   pos |-> p, col |-> k.cols[p], ref |-> References(k)]

BareRow(k) ==
  [cat |-> k.cat, tab |-> k.tab, name |-> k.name, type |-> k.type,
   pos |-> None, col |-> None, ref |-> FALSE]

(* The constraints of a table are told apart by the weight of their names. *)
LEMMA KeyIs ==
  ASSUME NEW w, Objects!IsWorld(w), NEW k \in w.keys
  PROVE  /\ k.cat \in w.catalogs /\ k.cat \in Nat /\ k.tab \in Nat /\ k.name \in Nat
         /\ k.type \in STRING /\ k.cols \in Seq(Nat)
         /\ \A l \in w.keys :
              l.cat = k.cat /\ l.tab = k.tab /\ Objects!Weight(l.name) = Objects!Weight(k.name) => l = k
         /\ \E t \in w.tables : t.cat = k.cat /\ t.tab = k.tab
<1>1. Objects!KeyOK(w, k)
  BY DEF Objects!IsWorld
<1>2. PICK t \in w.tables : t.cat = k.cat /\ t.tab = k.tab
  BY <1>1 DEF Objects!KeyOK
<1>3. t.cat \in w.catalogs /\ t.tab \in Nat
  BY DEF Objects!IsWorld, Objects!TableOK
<1>4. t.cat \in Nat
  BY <1>3 DEF Objects!IsWorld
<1> QED
  BY <1>1, <1>2, <1>3, <1>4 DEF Objects!KeyOK

LEMMA KeyUsageIs ==
  ASSUME NEW w, Objects!IsWorld(w), NEW k \in w.keys
  PROVE  Objects!KeyUsage(w, k) =
           {[pos |-> p, col |-> k.cols[p], ref |-> References(k)] : p \in 1 .. Len(k.cols)}
<1>1. {v \in w.keys : v.cat = k.cat /\ v.tab = k.tab /\ v.name = k.name} = {k}
  BY KeyIs
<1> DEFINE U(u) == {[pos |-> p, col |-> u.cols[p], ref |-> References(u)] : p \in 1 .. Len(u.cols)}
<1>2. Objects!KeyUsage(w, k) = UNION {U(u) : u \in {k}}
  BY <1>1 DEF Objects!KeyUsage, References
<1>3. UNION {U(u) : u \in {k}} = U(k)
  <2> HIDE DEF U
  <2> QED
    OBVIOUS
<1> QED
  BY <1>2, <1>3

LEMMA KeyRowsAre ==
  ASSUME NEW w, Objects!IsWorld(w), NEW r
  PROVE  r \in Objects!ConstraintRows(w) <=>
           \E k \in w.keys :
             /\ Objects!KeyMatches(w, k)
             /\ \/ Len(k.cols) = 0 /\ r = BareRow(k)
                \/ \E p \in 1 .. Len(k.cols) : r = KeyColumnRow(k, p)
<1>1. r \in Objects!ConstraintRows(w) <=>
        \E k \in w.keys : Objects!KeyMatches(w, k) /\ r \in Objects!KeyRows(w, k)
  BY DEF Objects!ConstraintRows
<1>2. ASSUME NEW k \in w.keys
      PROVE  r \in Objects!KeyRows(w, k) <=>
               \/ Len(k.cols) = 0 /\ r = BareRow(k)
               \/ \E p \in 1 .. Len(k.cols) : r = KeyColumnRow(k, p)
  <2> DEFINE row(u) == [cat |-> k.cat, tab |-> k.tab, name |-> k.name, type |-> k.type,
                        pos |-> u.pos, col |-> u.col, ref |-> u.ref]
             use(p) == [pos |-> p, col |-> k.cols[p], ref |-> References(k)]
             usage  == {use(p) : p \in 1 .. Len(k.cols)}
             bare   == [pos |-> None, col |-> None, ref |-> FALSE]
  <2>1. Objects!KeyRows(w, k) = {row(u) : u \in IF usage = {} THEN {bare} ELSE usage}
    BY KeyUsageIs DEF Objects!KeyRows
  <2>2. Len(k.cols) \in Nat
    BY KeyIs
  <2>3. row(bare) = BareRow(k)
    BY DEF BareRow
  <2>4. \A p \in 1 .. Len(k.cols) : row(use(p)) = KeyColumnRow(k, p)
    BY DEF KeyColumnRow
  <2> HIDE DEF row, use, bare
  <2>5. usage = {} <=> Len(k.cols) = 0
    BY <2>2
  <2>6. CASE Len(k.cols) = 0
    BY <2>1, <2>3, <2>5, <2>6
  <2>7. CASE Len(k.cols) # 0
    <3>1. r \in Objects!KeyRows(w, k) <=> \E p \in 1 .. Len(k.cols) : r = row(use(p))
      BY <2>1, <2>5, <2>7
    <3> QED
      BY <2>4, <2>7, <3>1
  <2> QED
    BY <2>6, <2>7
<1> QED
  BY <1>1, <1>2

(* The constraint of a row of the query.                                   *)
RowOfKey(w, k, r) ==
  /\ k \in w.keys /\ Objects!KeyMatches(w, k)
  /\ r.cat = k.cat /\ r.tab = k.tab /\ r.name = k.name /\ r.type = k.type
  /\ \/ /\ Len(k.cols) = 0 /\ r.pos = None /\ r.col = None /\ r.ref = FALSE
        /\ r = BareRow(k)
     \/ /\ r.pos \in 1 .. Len(k.cols) /\ r.col = k.cols[r.pos] /\ r.ref = References(k)
        /\ r = KeyColumnRow(k, r.pos)

LEMMA KeyRowIs ==
  ASSUME NEW w, Objects!IsWorld(w), NEW r \in Objects!ConstraintRows(w)
  PROVE  \E k \in w.keys : RowOfKey(w, k, r)
<1>1. PICK k \in w.keys :
        /\ Objects!KeyMatches(w, k)
        /\ \/ Len(k.cols) = 0 /\ r = BareRow(k)
           \/ \E p \in 1 .. Len(k.cols) : r = KeyColumnRow(k, p)
  BY KeyRowsAre
<1>2. CASE Len(k.cols) = 0 /\ r = BareRow(k)
  <2>1. /\ r.cat = k.cat /\ r.tab = k.tab /\ r.name = k.name /\ r.type = k.type
        /\ r.pos = None /\ r.col = None /\ r.ref = FALSE
    BY <1>2 DEF BareRow
  <2> QED
    BY <1>1, <1>2, <2>1 DEF RowOfKey
<1>3. ASSUME NEW p \in 1 .. Len(k.cols), r = KeyColumnRow(k, p)
      PROVE  RowOfKey(w, k, r)
  <2>1. /\ r.cat = k.cat /\ r.tab = k.tab /\ r.name = k.name /\ r.type = k.type
        /\ r.pos = p /\ r.col = k.cols[p] /\ r.ref = References(k)
    BY <1>3 DEF KeyColumnRow
  <2> QED
    BY <1>1, <1>3, <2>1 DEF RowOfKey
<1> QED
  BY <1>1, <1>2, <1>3

(* Their order.                                                            *)
KeyBefore(r, s) ==
  \/ Objects!Weight(r.cat) < Objects!Weight(s.cat)
  \/ /\ Objects!Weight(r.cat) = Objects!Weight(s.cat)
     /\ \/ Objects!Weight(r.tab) < Objects!Weight(s.tab)
        \/ /\ Objects!Weight(r.tab) = Objects!Weight(s.tab)
           /\ \/ Objects!Weight(r.name) < Objects!Weight(s.name)
              \/ /\ Objects!Weight(r.name) = Objects!Weight(s.name)
                 /\ Objects!Position(r.pos) < Objects!Position(s.pos)

LEMMA KeyPrecedesIs ==
  ASSUME NEW k1, NEW k2, DOMAIN k1 = 1 .. 4,
         \A i \in 1 .. 4 : k1[i] \in Int /\ k2[i] \in Int
  PROVE  Objects!Precedes(k1, k2) <=>
           \/ k1[1] < k2[1]
           \/ /\ k1[1] = k2[1]
              /\ \/ k1[2] < k2[2]
                 \/ /\ k1[2] = k2[2]
                    /\ k1[3] < k2[3] \/ (k1[3] = k2[3] /\ k1[4] < k2[4])
<1>1. Objects!Precedes(k1, k2) <=>
        \E i \in 1 .. 4 : k1[i] < k2[i] /\ \A j \in 1 .. i - 1 : k1[j] = k2[j]
  BY DEF Objects!Precedes
<1>2. \A i \in 1 .. 4 : i = 1 \/ i = 2 \/ i = 3 \/ i = 4
  OBVIOUS
<1> QED
  BY <1>1, <1>2

LEMMA KeyRowWeights ==
  ASSUME NEW w, Objects!IsWorld(w), NEW r \in Objects!ConstraintRows(w)
  PROVE  /\ r.cat \in Nat /\ r.tab \in Nat /\ r.name \in Nat
         /\ r.tab # None /\ r.cat # None /\ r.name # None
         /\ Objects!Weight(r.cat) \in Int /\ Objects!Weight(r.tab) \in Int
         /\ Objects!Weight(r.name) \in Int /\ Objects!Position(r.pos) \in Int
<1>1. PICK k \in w.keys : RowOfKey(w, k, r)
  BY KeyRowIs
<1>2. r.cat \in Nat /\ r.tab \in Nat /\ r.name \in Nat /\ k.cols \in Seq(Nat)
  BY <1>1, KeyIs DEF RowOfKey
<1>3. r.pos = None \/ r.pos \in Nat
  <2>1. Len(k.cols) \in Nat
    BY <1>2
  <2> QED
    BY <1>1, <2>1 DEF RowOfKey
<1>4. \A a \in Nat : a # None
  BY TypeConversionAssumption
<1>5. Objects!Position(r.pos) \in Int
  BY <1>3 DEF Objects!Position
<1>6. /\ Objects!Weight(r.cat) \in Nat /\ Objects!Weight(r.tab) \in Nat
      /\ Objects!Weight(r.name) \in Nat
  BY <1>2, WeightOf
<1>7. r.tab # None /\ r.cat # None /\ r.name # None
  BY <1>2, <1>4
<1> QED
  BY <1>2, <1>5, <1>6, <1>7

LEMMA KeyBeforeIs ==
  ASSUME NEW w, Objects!IsWorld(w), NEW r \in Objects!ConstraintRows(w),
         NEW s \in Objects!ConstraintRows(w)
  PROVE  Objects!Precedes(Objects!ConstraintKey(r), Objects!ConstraintKey(s)) <=> KeyBefore(r, s)
<1>1. /\ Objects!Weight(r.cat) \in Int /\ Objects!Weight(r.tab) \in Int
      /\ Objects!Weight(r.name) \in Int /\ Objects!Position(r.pos) \in Int
      /\ Objects!Weight(s.cat) \in Int /\ Objects!Weight(s.tab) \in Int
      /\ Objects!Weight(s.name) \in Int /\ Objects!Position(s.pos) \in Int
  BY KeyRowWeights
<1> DEFINE k1 == Objects!ConstraintKey(r)
           k2 == Objects!ConstraintKey(s)
<1>2. /\ DOMAIN k1 = 1 .. 4
      /\ k1[1] = Objects!Weight(r.cat) /\ k1[2] = Objects!Weight(r.tab)
      /\ k1[3] = Objects!Weight(r.name) /\ k1[4] = Objects!Position(r.pos)
      /\ k2[1] = Objects!Weight(s.cat) /\ k2[2] = Objects!Weight(s.tab)
      /\ k2[3] = Objects!Weight(s.name) /\ k2[4] = Objects!Position(s.pos)
  BY DEF Objects!ConstraintKey
<1> HIDE DEF k1, k2
<1>3. \A i \in 1 .. 4 : k1[i] \in Int /\ k2[i] \in Int
  BY <1>1, <1>2
<1>4. Objects!Precedes(k1, k2) <=>
        \/ k1[1] < k2[1]
        \/ /\ k1[1] = k2[1]
           /\ \/ k1[2] < k2[2]
              \/ /\ k1[2] = k2[2]
                 /\ k1[3] < k2[3] \/ (k1[3] = k2[3] /\ k1[4] < k2[4])
  BY <1>2, <1>3, KeyPrecedesIs
<1> QED
  BY <1>2, <1>4 DEF KeyBefore, k1, k2

(* Rows that tie are of one catalog, one table and one constraint.         *)
LEMMA KeyTiesAre ==
  ASSUME NEW w, Objects!IsWorld(w), NEW r \in Objects!ConstraintRows(w),
         NEW s \in Objects!ConstraintRows(w), Objects!Weight(r.cat) = Objects!Weight(s.cat)
  PROVE  /\ r.cat = s.cat
         /\ Objects!Weight(r.tab) = Objects!Weight(s.tab) =>
              /\ r.tab = s.tab
              /\ Objects!Weight(r.name) = Objects!Weight(s.name) => r.name = s.name
<1>1. PICK k \in w.keys : RowOfKey(w, k, r)
  BY KeyRowIs
<1>2. PICK l \in w.keys : RowOfKey(w, l, s)
  BY KeyRowIs
<1>3. r.cat = s.cat
  <2>1. r.cat \in w.catalogs /\ s.cat \in w.catalogs
    BY <1>1, <1>2, KeyIs DEF RowOfKey
  <2> QED
    BY <2>1 DEF Objects!IsWorld
<1>4. ASSUME Objects!Weight(r.tab) = Objects!Weight(s.tab) PROVE r.tab = s.tab
  <2>1. PICK t \in w.tables : t.cat = r.cat /\ t.tab = r.tab
    BY <1>1, KeyIs DEF RowOfKey
  <2>2. PICK u \in w.tables : u.cat = s.cat /\ u.tab = s.tab
    BY <1>2, KeyIs DEF RowOfKey
  <2>3. u = t
    BY <1>3, <1>4, <2>1, <2>2 DEF Objects!IsWorld, Objects!TableOK
  <2> QED
    BY <2>1, <2>2, <2>3
<1>5. ASSUME r.tab = s.tab, Objects!Weight(r.name) = Objects!Weight(s.name) PROVE r.name = s.name
  BY <1>1, <1>2, <1>3, <1>5, KeyIs DEF RowOfKey
<1> QED
  BY <1>3, <1>4, <1>5

(* Rows of one constraint.                                                 *)
LEMMA SameKey ==
  ASSUME NEW w, Objects!IsWorld(w), NEW k \in w.keys, NEW l \in w.keys,
         k.cat = l.cat, k.tab = l.tab, k.name = l.name
  PROVE  k = l
BY KeyIs

LEMMA KeyBeforeTotal ==
  ASSUME NEW w, Objects!IsWorld(w), NEW r \in Objects!ConstraintRows(w),
         NEW s \in Objects!ConstraintRows(w), r # s
  PROVE  KeyBefore(r, s) \/ KeyBefore(s, r)
<1> SUFFICES ASSUME ~KeyBefore(r, s), ~KeyBefore(s, r) PROVE FALSE
  OBVIOUS
<1>1. /\ Objects!Weight(r.cat) = Objects!Weight(s.cat) /\ Objects!Weight(r.tab) = Objects!Weight(s.tab)
      /\ Objects!Weight(r.name) = Objects!Weight(s.name)
      /\ Objects!Position(r.pos) = Objects!Position(s.pos)
  BY KeyRowWeights DEF KeyBefore
<1>2. r.cat = s.cat /\ r.tab = s.tab /\ r.name = s.name
  BY <1>1, KeyTiesAre
<1>3. PICK k \in w.keys : RowOfKey(w, k, r)
  BY KeyRowIs
<1>4. PICK l \in w.keys : RowOfKey(w, l, s)
  BY KeyRowIs
<1>5. l = k
  BY <1>2, <1>3, <1>4, SameKey DEF RowOfKey
<1>6. Len(k.cols) \in Nat /\ \A a \in Nat : a # None
  BY KeyIs, TypeConversionAssumption
<1>7. CASE Len(k.cols) = 0
  BY <1>3, <1>4, <1>5, <1>6, <1>7 DEF RowOfKey
<1>8. CASE Len(k.cols) # 0
  <2>1. /\ r.pos \in 1 .. Len(k.cols) /\ r = KeyColumnRow(k, r.pos)
        /\ s.pos \in 1 .. Len(k.cols) /\ s = KeyColumnRow(k, s.pos)
    BY <1>3, <1>4, <1>5, <1>8 DEF RowOfKey
  <2>2. r.pos = s.pos
    BY <1>1, <1>6, <2>1 DEF Objects!Position
  <2> QED
    BY <2>1, <2>2
<1> QED
  BY <1>7, <1>8

LEMMA NextKeyIs ==
  ASSUME NEW w, Objects!IsWorld(w), todo \subseteq Objects!ConstraintRows(w),
         NEW r \in Objects!NextRows(Objects!ConstraintKey)
  PROVE  r \in todo /\ \A s \in todo : s # r => KeyBefore(r, s)
<1>1. r \in todo
      /\ \A s \in todo : ~Objects!Precedes(Objects!ConstraintKey(s), Objects!ConstraintKey(r))
  BY DEF Objects!NextRows
<1> QED
  BY <1>1, KeyBeforeIs, KeyBeforeTotal

(* Between two rows of a table are only rows of that table.                *)
LEMMA KeyBetween ==
  ASSUME NEW w, Objects!IsWorld(w), NEW r \in Objects!ConstraintRows(w),
         NEW s \in Objects!ConstraintRows(w), NEW u \in Objects!ConstraintRows(w),
         KeyBefore(s, r), KeyBefore(r, u), s.cat = u.cat, s.tab = u.tab
  PROVE  r.cat = u.cat /\ r.tab = u.tab
<1>1. /\ Objects!Weight(r.cat) \in Int /\ Objects!Weight(r.tab) \in Int
      /\ Objects!Weight(s.cat) \in Int /\ Objects!Weight(s.tab) \in Int
  BY KeyRowWeights
<1>2. Objects!Weight(r.cat) = Objects!Weight(u.cat) /\ Objects!Weight(r.tab) = Objects!Weight(u.tab)
  BY <1>1 DEF KeyBefore
<1> QED
  BY <1>2, KeyTiesAre

(* One constraint: y says what the rows D say of k.                        *)
RowsOf(D, k) == {r \in D : r.cat = k.cat /\ r.tab = k.tab /\ r.name = k.name}

KeyPart(k, y, D) ==
  /\ y.name = k.name /\ y.type = k.type
  /\ Len(y.cols) <= Len(k.cols)
  /\ \A p \in 1 .. Len(k.cols) : p <= Len(y.cols) <=> \E r \in RowsOf(D, k) : r.pos = p
  /\ \A p \in 1 .. Len(y.cols) : y.cols[p] = k.cols[p]
  /\ y.refs = IF k.type = "FOREIGN KEY" THEN y.cols ELSE <<>>

LEMMA GrowKeyIs ==
  ASSUME NEW y \in KeyInfo, NEW r
  PROVE  LET g == Objects!KeyWithColumn(y, r)
         IN  /\ g.name = y.name /\ g.type = y.type
             /\ g.cols = IF r.col = None THEN y.cols ELSE Append(y.cols, r.col)
             /\ g.refs = IF r.ref THEN Append(y.refs, r.col) ELSE y.refs
             /\ g.cols \in Seq(Nat) /\ g.refs \in Seq(Nat) => g \in KeyInfo
<1> DEFINE cols == IF r.col = None THEN y.cols ELSE Append(y.cols, r.col)
           refs == IF r.ref THEN Append(y.refs, r.col) ELSE y.refs
           g    == [y EXCEPT !.cols = cols, !.refs = refs]
<1>1. Objects!KeyWithColumn(y, r) = g
  BY DEF Objects!KeyWithColumn
<1> HIDE DEF cols, refs
<1>2. g.name = y.name /\ g.type = y.type /\ g.cols = cols /\ g.refs = refs
  BY DEF KeyInfo
<1>3. cols \in Seq(Nat) /\ refs \in Seq(Nat) => g \in KeyInfo
  BY DEF KeyInfo
<1> HIDE DEF g
<1> QED
  BY <1>1, <1>2, <1>3 DEF cols, refs

LEMMA KeyGrows ==
  ASSUME NEW w, Objects!IsWorld(w), NEW D, D \subseteq Objects!ConstraintRows(w),
         NEW r \in Objects!ConstraintRows(w), r \notin D, \A s \in D : KeyBefore(s, r),
         \A s \in Objects!ConstraintRows(w) : s \notin D /\ s # r => KeyBefore(r, s),
         NEW k \in w.keys, RowOfKey(w, k, r), NEW y \in KeyInfo, KeyPart(k, y, D)
  PROVE  Objects!KeyWithColumn(y, r) \in KeyInfo /\ KeyPart(k, Objects!KeyWithColumn(y, r), D \cup {r})
<1> DEFINE g == Objects!KeyWithColumn(y, r)
           n == Len(y.cols)
<1>1. /\ g.name = y.name /\ g.type = y.type
      /\ g.cols = IF r.col = None THEN y.cols ELSE Append(y.cols, r.col)
      /\ g.refs = IF r.ref THEN Append(y.refs, r.col) ELSE y.refs
      /\ g.cols \in Seq(Nat) /\ g.refs \in Seq(Nat) => g \in KeyInfo
  BY GrowKeyIs
<1> HIDE DEF g
<1>2. /\ y.name \in Nat /\ y.type \in STRING /\ y.cols \in Seq(Nat) /\ y.refs \in Seq(Nat)
      /\ k.cols \in Seq(Nat) /\ Len(k.cols) \in Nat /\ n \in Nat
  BY KeyIs DEF KeyInfo
<1>3. RowsOf(D \cup {r}, k) = RowsOf(D, k) \cup {r}
  BY DEF RowsOf, RowOfKey
<1>4. \A a \in Nat : a # None
  BY TypeConversionAssumption
<1>5. CASE r.pos = None
  <2>1. Len(k.cols) = 0 /\ r.col = None /\ r.ref = FALSE
    BY <1>2, <1>4, <1>5 DEF RowOfKey
  <2>2. g.cols = y.cols /\ g.refs = y.refs
    BY <1>1, <2>1
  <2>3. g \in KeyInfo
    BY <1>1, <1>2, <2>2
  <2>4. KeyPart(k, g, D \cup {r})
    <3>1. 1 .. Len(k.cols) = {}
      BY <2>1
    <3>2. \A p \in 1 .. Len(k.cols) : p <= Len(g.cols) <=> \E s \in RowsOf(D \cup {r}, k) : s.pos = p
      BY <3>1
    <3> QED
      BY <1>1, <2>2, <3>2 DEF KeyPart
  <2> QED
    BY <2>3, <2>4 DEF g
<1>6. CASE r.pos # None
  <2> DEFINE p == r.pos
  <2>1. p \in 1 .. Len(k.cols) /\ r.col = k.cols[p] /\ r.ref = References(k) /\ r = KeyColumnRow(k, p)
    BY <1>6 DEF RowOfKey
  <2>2. r.col \in Nat /\ r.col # None /\ p \in Nat
    BY <1>2, <1>4, <2>1
  <2>3. \A q \in 1 .. Len(k.cols) :
          /\ KeyColumnRow(k, q) \in Objects!ConstraintRows(w)
          /\ KeyColumnRow(k, q).cat = k.cat /\ KeyColumnRow(k, q).tab = k.tab
          /\ KeyColumnRow(k, q).name = k.name /\ KeyColumnRow(k, q).pos = q
    <3>1. \A q \in 1 .. Len(k.cols) : KeyColumnRow(k, q) \in Objects!ConstraintRows(w)
      BY KeyRowsAre DEF RowOfKey
    <3> QED
      BY <3>1 DEF KeyColumnRow
  <2>4. /\ Objects!Weight(r.cat) \in Int /\ Objects!Weight(r.tab) \in Int
        /\ Objects!Weight(r.name) \in Int
    BY KeyRowWeights
  <2>5. r.cat = k.cat /\ r.tab = k.tab /\ r.name = k.name
    BY DEF RowOfKey
  <2>6. \A q \in 1 .. Len(k.cols) : q < p => q <= n
    <3> SUFFICES ASSUME NEW q \in 1 .. Len(k.cols), q < p PROVE q <= n
      OBVIOUS
    <3> DEFINE s == KeyColumnRow(k, q)
    <3>1. /\ s \in Objects!ConstraintRows(w)
          /\ s.cat = k.cat /\ s.tab = k.tab /\ s.name = k.name /\ s.pos = q
      BY <2>3
    <3> HIDE DEF s
    <3>2. q \in Nat /\ Objects!Position(s.pos) = q /\ Objects!Position(r.pos) = p
      BY <1>2, <1>4, <2>2, <3>1 DEF Objects!Position
    <3>3. ~KeyBefore(r, s) /\ s # r
      BY <2>2, <2>4, <2>5, <3>1, <3>2 DEF KeyBefore
    <3>4. s \in RowsOf(D, k)
      BY <3>1, <3>3 DEF RowsOf
    <3> QED
      BY <3>1, <3>4 DEF KeyPart
  <2>7. ~(p <= n)
    <3> SUFFICES ASSUME p <= n PROVE FALSE
      OBVIOUS
    <3>1. PICK s \in RowsOf(D, k) : s.pos = p
      BY <2>1 DEF KeyPart
    <3>2. /\ s \in D /\ s.cat = k.cat /\ s.tab = k.tab /\ s.name = k.name
          /\ KeyBefore(s, r)
      BY DEF RowsOf
    <3>3. Objects!Position(p) = p
      BY <2>2, <1>4 DEF Objects!Position
    <3> QED
      BY <2>2, <2>4, <2>5, <3>1, <3>2, <3>3 DEF KeyBefore
  <2>8. p = n + 1
    <3>1. ASSUME p > n + 1 PROVE FALSE
      <4>1. n + 1 \in 1 .. Len(k.cols) /\ n + 1 < p
        BY <1>2, <2>1, <2>2, <3>1
      <4> QED
        BY <1>2, <2>6, <4>1
    <3> QED
      BY <1>2, <2>2, <2>7, <3>1
  <2>9. g.cols = Append(y.cols, r.col)
    BY <1>1, <2>2
  <2>10. /\ g.cols \in Seq(Nat) /\ Len(g.cols) = n + 1
         /\ \A q \in 1 .. n : g.cols[q] = y.cols[q]
         /\ g.cols[n + 1] = r.col
    BY <1>2, <2>2, <2>9, AppendIs
  <2>11. g.refs = IF k.type = "FOREIGN KEY" THEN g.cols ELSE <<>>
    <3>1. y.refs = IF k.type = "FOREIGN KEY" THEN y.cols ELSE <<>>
      BY DEF KeyPart
    <3>2. CASE k.type = "FOREIGN KEY"
      BY <1>1, <2>1, <2>9, <3>1, <3>2 DEF References
    <3>3. CASE k.type # "FOREIGN KEY"
      BY <1>1, <2>1, <3>1, <3>3 DEF References
    <3> QED
      BY <3>2, <3>3
  <2>12. g \in KeyInfo
    <3>1. <<>> \in Seq(Nat)
      OBVIOUS
    <3>2. g.refs \in Seq(Nat)
      BY <2>10, <2>11, <3>1
    <3> QED
      BY <1>1, <2>10, <3>2
  <2>13. \A q \in 1 .. Len(k.cols) : q <= Len(g.cols) <=> \E s \in RowsOf(D \cup {r}, k) : s.pos = q
    <3> SUFFICES ASSUME NEW q \in 1 .. Len(k.cols)
                 PROVE  q <= n + 1 <=> \E s \in RowsOf(D, k) \cup {r} : s.pos = q
      BY <1>3, <2>10
    <3>1. q <= n <=> \E s \in RowsOf(D, k) : s.pos = q
      BY DEF KeyPart
    <3>2. q = n + 1 <=> r.pos = q
      BY <2>8
    <3>3. q <= n + 1 <=> q <= n \/ q = n + 1
      BY <1>2
    <3> HIDE DEF n, p
    <3> QED
      BY <3>1, <3>2, <3>3
  <2>14. \A q \in 1 .. Len(g.cols) : g.cols[q] = k.cols[q]
    <3> SUFFICES ASSUME NEW q \in 1 .. n + 1 PROVE g.cols[q] = k.cols[q]
      BY <2>10
    <3>1. CASE q = n + 1
      BY <2>1, <2>8, <2>10, <3>1
    <3>2. CASE q # n + 1
      <4>1. q \in 1 .. n
        BY <1>2, <3>2
      <4> QED
        BY <2>10, <4>1 DEF KeyPart
    <3> QED
      BY <3>1, <3>2
  <2>15. Len(g.cols) <= Len(k.cols)
    BY <2>1, <2>8, <2>10
  <2> HIDE DEF n, p
  <2>16. KeyPart(k, g, D \cup {r})
    BY <1>1, <2>11, <2>13, <2>14, <2>15 DEF KeyPart
  <2> QED
    BY <2>12, <2>16 DEF g
<1> QED
  BY <1>5, <1>6

(* Nothing is read of the constraint yet.                                  *)
LEMMA NewKeyIs ==
  ASSUME NEW w, Objects!IsWorld(w), NEW D, NEW r \in Objects!ConstraintRows(w),
         NEW k \in w.keys, RowOfKey(w, k, r), RowsOf(D, k) = {}
  PROVE  Objects!NewKey(r) \in KeyInfo /\ KeyPart(k, Objects!NewKey(r), D)
<1> DEFINE y == Objects!NewKey(r)
<1>1. /\ k.name \in Nat /\ k.type \in STRING /\ k.cols \in Seq(Nat) /\ Len(k.cols) \in Nat
      /\ r.name = k.name /\ r.type = k.type
  BY KeyIs DEF RowOfKey
<1>2. y = [name |-> k.name, type |-> k.type, cols |-> <<>>, refs |-> <<>>]
  BY <1>1 DEF Objects!NewKey
<1>3. <<>> \in Seq(Nat) /\ Len(<<>>) = 0
  OBVIOUS
<1>4. y \in KeyInfo
  BY <1>1, <1>2, <1>3 DEF KeyInfo
<1>5. /\ y.name = k.name /\ y.type = k.type /\ y.cols = <<>> /\ y.refs = <<>>
      /\ Len(y.cols) = 0
  BY <1>2, <1>3
<1> HIDE DEF y
<1>6. KeyPart(k, y, D)
  BY <1>1, <1>5 DEF KeyPart
<1> QED
  BY <1>4, <1>6 DEF y

(* The constraints of one table.                                           *)
KeysRead(w, cat, tab, keys, D) ==
  /\ \A y \in 1 .. Len(keys) : \E k \in w.keys :
       k.cat = cat /\ k.tab = tab /\ RowsOf(D, k) # {} /\ KeyPart(k, keys[y], D)
  /\ \A r \in D : r.cat = cat /\ r.tab = tab => \E y \in 1 .. Len(keys) : keys[y].name = r.name
  /\ \A x, y \in 1 .. Len(keys) :
       x < y => Objects!Weight(keys[x].name) < Objects!Weight(keys[y].name)

(* Rows of other tables, and of other constraints, do not count.           *)
LEMMA KeyPartSame ==
  ASSUME NEW D, NEW r, NEW k, NEW y,
         r.cat # k.cat \/ r.tab # k.tab \/ r.name # k.name
  PROVE  /\ RowsOf(D \cup {r}, k) = RowsOf(D, k)
         /\ KeyPart(k, y, D) => KeyPart(k, y, D \cup {r})
<1>1. RowsOf(D \cup {r}, k) = RowsOf(D, k)
  BY DEF RowsOf
<1> QED
  BY <1>1 DEF KeyPart

LEMMA KeysSame ==
  ASSUME NEW w, NEW cat, NEW tab, NEW keys, NEW D, NEW r, KeysRead(w, cat, tab, keys, D),
         r.cat # cat \/ r.tab # tab
  PROVE  KeysRead(w, cat, tab, keys, D \cup {r})
<1>1. ASSUME NEW y \in 1 .. Len(keys)
      PROVE  \E k \in w.keys : /\ k.cat = cat /\ k.tab = tab /\ RowsOf(D \cup {r}, k) # {}
                               /\ KeyPart(k, keys[y], D \cup {r})
  <2>1. PICK k \in w.keys :
          k.cat = cat /\ k.tab = tab /\ RowsOf(D, k) # {} /\ KeyPart(k, keys[y], D)
    BY DEF KeysRead
  <2>2. RowsOf(D \cup {r}, k) = RowsOf(D, k) /\ KeyPart(k, keys[y], D \cup {r})
    BY <2>1, KeyPartSame
  <2> QED
    BY <2>1, <2>2
<1>2. \A s \in D \cup {r} : s.cat = cat /\ s.tab = tab => \E y \in 1 .. Len(keys) : keys[y].name = s.name
  BY DEF KeysRead
<1>3. \A x, y \in 1 .. Len(keys) :
        x < y => Objects!Weight(keys[x].name) < Objects!Weight(keys[y].name)
  BY DEF KeysRead
<1> QED
  BY <1>1, <1>2, <1>3 DEF KeysRead

(* The constraints read so far come before the next row, or are its own.   *)
OnlyLastIs(keys, r) ==
  \A y \in 1 .. Len(keys) : \/ Objects!Weight(keys[y].name) < Objects!Weight(r.name)
                            \/ keys[y].name = r.name /\ y = Len(keys)

LEMMA KeysBefore ==
  ASSUME NEW w, Objects!IsWorld(w), NEW D, D \subseteq Objects!ConstraintRows(w),
         NEW r \in Objects!ConstraintRows(w), \A s \in D : KeyBefore(s, r),
         NEW keys, Len(keys) \in Nat, KeysRead(w, r.cat, r.tab, keys, D)
  PROVE  OnlyLastIs(keys, r)
<1>0. ASSUME NEW x \in 1 .. Len(keys)
      PROVE  /\ Objects!Weight(keys[x].name) \in Int /\ Objects!Weight(r.name) \in Int
             /\ \/ Objects!Weight(keys[x].name) < Objects!Weight(r.name)
                \/ keys[x].name = r.name
  <2>1. PICK k \in w.keys :
          k.cat = r.cat /\ k.tab = r.tab /\ RowsOf(D, k) # {} /\ KeyPart(k, keys[x], D)
    BY DEF KeysRead
  <2>2. PICK s \in D : s.cat = k.cat /\ s.tab = k.tab /\ s.name = k.name
    BY <2>1 DEF RowsOf
  <2>3. keys[x].name = s.name /\ s.cat = r.cat /\ s.tab = r.tab
    BY <2>1, <2>2 DEF KeyPart
  <2>4. /\ Objects!Weight(s.name) \in Int /\ Objects!Weight(r.name) \in Int
        /\ Objects!Weight(r.cat) \in Int /\ Objects!Weight(r.tab) \in Int
    BY KeyRowWeights
  <2>5. Objects!Weight(s.name) <= Objects!Weight(r.name)
    <3>1. KeyBefore(s, r)
      OBVIOUS
    <3> QED
      BY <2>3, <2>4, <3>1 DEF KeyBefore
  <2>6. Objects!Weight(s.name) = Objects!Weight(r.name) => s.name = r.name
    BY <2>3, KeyTiesAre
  <2> QED
    BY <2>3, <2>4, <2>5, <2>6
<1>1. ASSUME NEW y \in 1 .. Len(keys), keys[y].name = r.name PROVE y = Len(keys)
  <2>1. y < Len(keys) => Objects!Weight(keys[y].name) < Objects!Weight(keys[Len(keys)].name)
    BY DEF KeysRead
  <2>2. /\ Objects!Weight(r.name) \in Int
        /\ Len(keys) \in 1 .. Len(keys)
        /\ \/ Objects!Weight(keys[Len(keys)].name) < Objects!Weight(r.name)
           \/ keys[Len(keys)].name = r.name
        /\ Objects!Weight(keys[Len(keys)].name) \in Int
    <3>1. Len(keys) \in 1 .. Len(keys)
      OBVIOUS
    <3> QED
      BY <1>0, <3>1
  <2> QED
    BY <1>1, <2>1, <2>2
<1> QED
  BY <1>0, <1>1 DEF OnlyLastIs

LEMMA KeysGrow ==
  ASSUME NEW w, Objects!IsWorld(w), NEW D, D \subseteq Objects!ConstraintRows(w),
         NEW r \in Objects!ConstraintRows(w), r \notin D, \A s \in D : KeyBefore(s, r),
         \A s \in Objects!ConstraintRows(w) : s \notin D /\ s # r => KeyBefore(r, s),
         NEW k \in w.keys, RowOfKey(w, k, r), NEW b \in KeyInfo, KeyPart(k, b, D),
         NEW keys, KeysRead(w, r.cat, r.tab, keys, D),
         NEW more, NEW n \in Nat, n # 0, Len(more) = n, more[n] = Objects!KeyWithColumn(b, r),
         \A y \in 1 .. n : y # n =>
            /\ y \in 1 .. Len(keys) /\ more[y] = keys[y]
            /\ Objects!Weight(keys[y].name) < Objects!Weight(r.name),
         \A y \in 1 .. Len(keys) : y \in 1 .. n /\ (y = n => keys[y].name = r.name),
         Objects!Weight(r.name) \in Int
  PROVE  KeysRead(w, r.cat, r.tab, more, D \cup {r})
<1>1. KeyPart(k, more[n], D \cup {r}) /\ more[n].name = r.name /\ n \in 1 .. n
  <2>1. KeyPart(k, more[n], D \cup {r})
    BY KeyGrows
  <2>2. more[n].name = k.name /\ k.name = r.name
    BY <2>1 DEF KeyPart, RowOfKey
  <2>3. n \in 1 .. n
    OBVIOUS
  <2> QED
    BY <2>1, <2>2, <2>3
<1>2. r \in RowsOf(D \cup {r}, k) /\ k.cat = r.cat /\ k.tab = r.tab
  BY DEF RowsOf, RowOfKey
<1>3. ASSUME NEW y \in 1 .. n
      PROVE  \E l \in w.keys : /\ l.cat = r.cat /\ l.tab = r.tab /\ RowsOf(D \cup {r}, l) # {}
                               /\ KeyPart(l, more[y], D \cup {r})
  <2>1. CASE y = n
    BY <1>1, <1>2, <2>1
  <2>2. CASE y # n
    <3>1. y \in 1 .. Len(keys) /\ more[y] = keys[y]
          /\ Objects!Weight(keys[y].name) < Objects!Weight(r.name)
      BY <2>2
    <3>2. PICK l \in w.keys :
            l.cat = r.cat /\ l.tab = r.tab /\ RowsOf(D, l) # {} /\ KeyPart(l, keys[y], D)
      BY <3>1 DEF KeysRead
    <3>3. l.name # r.name
      <4>1. keys[y].name = l.name
        BY <3>2 DEF KeyPart
      <4> QED
        BY <3>1, <4>1
    <3>4. RowsOf(D \cup {r}, l) = RowsOf(D, l) /\ KeyPart(l, keys[y], D \cup {r})
      BY <3>2, <3>3, KeyPartSame
    <3> QED
      BY <3>1, <3>2, <3>4
  <2> QED
    BY <2>1, <2>2
<1>4. ASSUME NEW s \in D \cup {r}, s.cat = r.cat, s.tab = r.tab
      PROVE  \E y \in 1 .. n : more[y].name = s.name
  <2>1. CASE s = r
    BY <1>1, <2>1
  <2>2. CASE s \in D
    <3>1. PICK y \in 1 .. Len(keys) : keys[y].name = s.name
      BY <1>4, <2>2 DEF KeysRead
    <3>2. y \in 1 .. n /\ more[y].name = s.name
      BY <1>1, <3>1
    <3> QED
      BY <3>2
  <2> QED
    BY <2>1, <2>2
<1>5. ASSUME NEW x \in 1 .. n, NEW y \in 1 .. n, x < y
      PROVE  Objects!Weight(more[x].name) < Objects!Weight(more[y].name)
  <2>1. x # n /\ x \in 1 .. Len(keys) /\ more[x] = keys[x]
        /\ Objects!Weight(keys[x].name) < Objects!Weight(r.name)
    BY <1>5
  <2>2. CASE y = n
    BY <1>1, <2>1, <2>2
  <2>3. CASE y # n
    <3>1. y \in 1 .. Len(keys) /\ more[y] = keys[y]
      BY <2>3
    <3> QED
      BY <1>5, <2>1, <3>1 DEF KeysRead
  <2> QED
    BY <2>2, <2>3
<1> QED
  BY <1>3, <1>4, <1>5 DEF KeysRead

(* Lists after the constraints of one table changed.                       *)
WithKeys(t, keys) == [t EXCEPT !.keys = keys]

KeysAt(a, n, m, keys) == [a EXCEPT ![n].tables[m].keys = keys]

KeysChanged(a, b, n, m, keys) ==
  /\ b \in Seq(CatInfo) /\ SameTables(a, b)
  /\ \A i \in 1 .. Len(a) : \A x \in 1 .. Len(a[i].tables) :
       /\ b[i].tables[x].cols = a[i].tables[x].cols
       /\ b[i].tables[x].keys = IF i = n /\ x = m THEN keys ELSE a[i].tables[x].keys

LEMMA SetKeys ==
  ASSUME NEW t \in TableInfo, NEW keys \in Seq(KeyInfo)
  PROVE  /\ WithKeys(t, keys) \in TableInfo
         /\ WithKeys(t, keys).tab = t.tab /\ WithKeys(t, keys).type = t.type
         /\ WithKeys(t, keys).cols = t.cols /\ WithKeys(t, keys).keys = keys
BY DEF WithKeys, TableInfo

LEMMA KeysSet ==
  ASSUME NEW a \in Seq(CatInfo), NEW n \in 1 .. Len(a), NEW m \in 1 .. Len(a[n].tables),
         NEW keys \in Seq(KeyInfo)
  PROVE  KeysChanged(a, KeysAt(a, n, m, keys), n, m, keys)
<1> DEFINE t == a[n].tables[m]
           e == WithKeys(t, keys)
           b == WithTable(a, n, m, e)
<1>1. KeysAt(a, n, m, keys) = b
  BY DEF KeysAt, WithTable, WithKeys
<1>2. t \in TableInfo
  BY ListTypes
<1>3. e \in TableInfo /\ e.tab = t.tab /\ e.type = t.type /\ e.cols = t.cols /\ e.keys = keys
  BY <1>2, SetKeys
<1> HIDE DEF e
<1>4. /\ b \in Seq(CatInfo) /\ Len(b) = Len(a)
      /\ \A i \in 1 .. Len(a) : b[i].cat = a[i].cat /\ Len(b[i].tables) = Len(a[i].tables)
      /\ \A i \in 1 .. Len(a) : \A x \in 1 .. Len(a[i].tables) :
           b[i].tables[x] = IF i = n /\ x = m THEN e ELSE a[i].tables[x]
  BY <1>3, SetTable
<1> HIDE DEF b
<1>5. \A i \in 1 .. Len(a) : \A x \in 1 .. Len(a[i].tables) :
        /\ b[i].tables[x].tab = a[i].tables[x].tab /\ b[i].tables[x].type = a[i].tables[x].type
        /\ b[i].tables[x].cols = a[i].tables[x].cols
        /\ b[i].tables[x].keys = IF i = n /\ x = m THEN keys ELSE a[i].tables[x].keys
  <2> SUFFICES ASSUME NEW i \in 1 .. Len(a), NEW x \in 1 .. Len(a[i].tables)
               PROVE  /\ b[i].tables[x].tab = a[i].tables[x].tab
                      /\ b[i].tables[x].type = a[i].tables[x].type
                      /\ b[i].tables[x].cols = a[i].tables[x].cols
                      /\ b[i].tables[x].keys = IF i = n /\ x = m THEN keys ELSE a[i].tables[x].keys
    OBVIOUS
  <2>1. b[i].tables[x] = IF i = n /\ x = m THEN e ELSE a[i].tables[x]
    BY <1>4
  <2> QED
    BY <1>3, <2>1
<1>6. SameTables(a, b)
  BY <1>4, <1>5 DEF SameTables
<1> QED
  BY <1>1, <1>4, <1>5, <1>6 DEF KeysChanged

LEMMA KeysChangedTwice ==
  ASSUME NEW a, NEW b, NEW c, NEW n, NEW m, NEW k1, NEW k2,
         KeysChanged(a, b, n, m, k1), KeysChanged(b, c, n, m, k2)
  PROVE  KeysChanged(a, c, n, m, k2)
<1>1. SameTables(a, b) /\ SameTables(b, c)
  BY DEF KeysChanged
<1>2. SameTables(a, c)
  BY <1>1 DEF SameTables
<1>3. ASSUME NEW i \in 1 .. Len(a), NEW x \in 1 .. Len(a[i].tables)
      PROVE  /\ c[i].tables[x].cols = a[i].tables[x].cols
             /\ c[i].tables[x].keys = IF i = n /\ x = m THEN k2 ELSE a[i].tables[x].keys
  <2>1. i \in 1 .. Len(b) /\ x \in 1 .. Len(b[i].tables)
    BY <1>1 DEF SameTables
  <2>2. /\ b[i].tables[x].cols = a[i].tables[x].cols
        /\ b[i].tables[x].keys = IF i = n /\ x = m THEN k1 ELSE a[i].tables[x].keys
    BY DEF KeysChanged
  <2>3. /\ c[i].tables[x].cols = b[i].tables[x].cols
        /\ c[i].tables[x].keys = IF i = n /\ x = m THEN k2 ELSE b[i].tables[x].keys
    BY <2>1 DEF KeysChanged
  <2> QED
    BY <2>2, <2>3
<1> QED
  BY <1>2, <1>3 DEF KeysChanged

(* ConstraintChange and AddKeyColumn, on the constraints of the table.     *)
KeysAfter(keys, at, r) ==
  IF at = Len(keys) THEN [keys EXCEPT ![at] = Objects!KeyWithColumn(keys[at], r)]
  ELSE [Append(keys, Objects!NewKey(r)) EXCEPT ![at] = Objects!KeyWithColumn(Objects!NewKey(r), r)]

LEMMA AddKeyColumnIs ==
  ASSUME NEW a, NEW p, NEW at, NEW r
  PROVE  Objects!AddKeyColumn(a, p, at, r) =
           KeysAt(a, p[1], p[2], [a[p[1]].tables[p[2]].keys EXCEPT
                                    ![at] = Objects!KeyWithColumn(a[p[1]].tables[p[2]].keys[at], r)])
BY DEF Objects!AddKeyColumn, KeysAt

LEMMA KeysOf ==
  ASSUME NEW a \in Seq(CatInfo), NEW n \in 1 .. Len(a), NEW m \in 1 .. Len(a[n].tables)
  PROVE  a[n].tables[m].keys \in Seq(KeyInfo) /\ Len(a[n].tables[m].keys) \in Nat
<1>1. a[n].tables[m] \in TableInfo
  BY ListTypes
<1>2. a[n].tables[m].keys \in Seq(KeyInfo)
  BY <1>1 DEF TableInfo
<1> QED
  BY <1>2, LenIs

(* The constraints end with e, at place at; the ones before are kept.      *)
KeyAdded(a, b, n, m, keys, at, e) ==
  \E more \in Seq(KeyInfo) :
    /\ KeysChanged(a, b, n, m, more)
    /\ Len(more) = at /\ more[at] = e
    /\ \A y \in 1 .. at : y # at => more[y] = keys[y]

LEMMA KeyContinued ==
  ASSUME NEW a \in Seq(CatInfo), NEW n \in 1 .. Len(a), NEW m \in 1 .. Len(a[n].tables), NEW r,
         NEW keys, keys = a[n].tables[m].keys, NEW at, at = Len(keys), at # 0,
         Objects!KeyWithColumn(keys[at], r) \in KeyInfo
  PROVE  KeyAdded(a, Objects!AddKeyColumn(a, <<n, m>>, at, r), n, m, keys, at,
                  Objects!KeyWithColumn(keys[at], r))
<1> DEFINE g    == Objects!KeyWithColumn(keys[at], r)
           more == [keys EXCEPT ![at] = g]
<1>1. keys \in Seq(KeyInfo) /\ at \in Nat
  BY KeysOf
<1>2. Objects!AddKeyColumn(a, <<n, m>>, at, r) = KeysAt(a, n, m, more)
  <2> DEFINE p == <<n, m>>
  <2>1. p[1] = n /\ p[2] = m
    OBVIOUS
  <2> HIDE DEF p
  <2>2. Objects!AddKeyColumn(a, p, at, r) =
          KeysAt(a, p[1], p[2], [a[p[1]].tables[p[2]].keys EXCEPT
                                   ![at] = Objects!KeyWithColumn(a[p[1]].tables[p[2]].keys[at], r)])
    BY AddKeyColumnIs
  <2> QED
    BY <2>1, <2>2 DEF p
<1> HIDE DEF g
<1>3. /\ more \in Seq(KeyInfo) /\ Len(more) = at /\ more[at] = g
      /\ \A y \in 1 .. at : y # at => more[y] = keys[y]
  <2>1. g \in KeyInfo /\ at \in 1 .. Len(keys)
    BY <1>1 DEF g
  <2> QED
    BY <1>1, <2>1
<1> HIDE DEF more
<1>4. KeysChanged(a, KeysAt(a, n, m, more), n, m, more)
  BY <1>3, KeysSet
<1> QED
  BY <1>2, <1>3, <1>4 DEF g, KeyAdded

LEMMA KeyStarted ==
  ASSUME NEW a \in Seq(CatInfo), NEW n \in 1 .. Len(a), NEW m \in 1 .. Len(a[n].tables), NEW r,
         NEW keys, keys = a[n].tables[m].keys, NEW at, at = Len(keys) + 1,
         Objects!NewKey(r) \in KeyInfo, Objects!KeyWithColumn(Objects!NewKey(r), r) \in KeyInfo
  PROVE  KeyAdded(a, Objects!AddKeyColumn(KeysAt(a, n, m, Append(keys, Objects!NewKey(r))),
                                          <<n, m>>, at, r),
                  n, m, keys, at, Objects!KeyWithColumn(Objects!NewKey(r), r))
<1> DEFINE e    == Objects!NewKey(r)
           mid  == Append(keys, e)
           list == KeysAt(a, n, m, mid)
<1>1. keys \in Seq(KeyInfo) /\ Len(keys) \in Nat
  BY KeysOf
<1>2. /\ mid \in Seq(KeyInfo) /\ Len(mid) = at /\ mid[at] = e
      /\ \A y \in 1 .. Len(keys) : mid[y] = keys[y]
  BY <1>1, AppendIs
<1> HIDE DEF mid
<1>3. KeysChanged(a, list, n, m, mid)
  BY <1>2, KeysSet
<1> HIDE DEF list
<1>4. list \in Seq(CatInfo) /\ n \in 1 .. Len(list) /\ m \in 1 .. Len(list[n].tables)
      /\ list[n].tables[m].keys = mid
  BY <1>3 DEF KeysChanged, SameTables
<1>5. at # 0 /\ Objects!KeyWithColumn(mid[at], r) \in KeyInfo
  BY <1>1, <1>2
<1> HIDE DEF e
<1>6. PICK more \in Seq(KeyInfo) :
        /\ KeysChanged(list, Objects!AddKeyColumn(list, <<n, m>>, at, r), n, m, more)
        /\ Len(more) = at /\ more[at] = Objects!KeyWithColumn(mid[at], r)
        /\ \A y \in 1 .. at : y # at => more[y] = mid[y]
  <2>1. KeyAdded(list, Objects!AddKeyColumn(list, <<n, m>>, at, r), n, m, mid, at,
                 Objects!KeyWithColumn(mid[at], r))
    BY <1>2, <1>4, <1>5, KeyContinued
  <2> QED
    BY <2>1 DEF KeyAdded
<1>7. KeysChanged(a, Objects!AddKeyColumn(list, <<n, m>>, at, r), n, m, more)
  BY <1>3, <1>6, KeysChangedTwice
<1>8. ASSUME NEW y \in 1 .. at, y # at PROVE more[y] = keys[y]
  <2>1. y \in 1 .. Len(keys)
    BY <1>1, <1>8
  <2> QED
    BY <1>2, <1>6, <1>8, <2>1
<1>9. KeyAdded(a, Objects!AddKeyColumn(list, <<n, m>>, at, r), n, m, keys, at,
               Objects!KeyWithColumn(e, r))
  BY <1>2, <1>6, <1>7, <1>8 DEF KeyAdded
<1> QED
  BY <1>9 DEF list, mid, e

(* The place of a table in the result.                                     *)
PlaceOf(list, cat, tab, p) ==
  \/ /\ p = Objects!NoPlace
     /\ \A i \in 1 .. Len(list) : \A x \in 1 .. Len(list[i].tables) :
          ~(list[i].cat = cat /\ list[i].tables[x].tab = tab)
  \/ \E n \in 1 .. Len(list) : \E m \in 1 .. Len(list[n].tables) :
       p = <<n, m>> /\ list[n].cat = cat /\ list[n].tables[m].tab = tab

LEMMA PlaceSame ==
  ASSUME NEW a, NEW b, SameTables(a, b), NEW cat, NEW tab, NEW p, PlaceOf(a, cat, tab, p)
  PROVE  PlaceOf(b, cat, tab, p)
<1>1. CASE /\ p = Objects!NoPlace
           /\ \A i \in 1 .. Len(a) : \A x \in 1 .. Len(a[i].tables) :
                ~(a[i].cat = cat /\ a[i].tables[x].tab = tab)
  <2>1. ASSUME NEW i \in 1 .. Len(b), NEW x \in 1 .. Len(b[i].tables)
        PROVE  ~(b[i].cat = cat /\ b[i].tables[x].tab = tab)
    <3>1. /\ i \in 1 .. Len(a) /\ x \in 1 .. Len(a[i].tables)
          /\ b[i].cat = a[i].cat /\ b[i].tables[x].tab = a[i].tables[x].tab
      BY DEF SameTables
    <3> QED
      BY <1>1, <3>1
  <2> QED
    BY <1>1, <2>1 DEF PlaceOf
<1>2. ASSUME NEW n \in 1 .. Len(a), NEW m \in 1 .. Len(a[n].tables),
             p = <<n, m>>, a[n].cat = cat, a[n].tables[m].tab = tab
      PROVE  PlaceOf(b, cat, tab, p)
  <2>1. n \in 1 .. Len(b) /\ m \in 1 .. Len(b[n].tables) /\ b[n].cat = cat /\ b[n].tables[m].tab = tab
    BY <1>2 DEF SameTables
  <2> QED
    BY <1>2, <2>1 DEF PlaceOf
<1> QED
  BY <1>1, <1>2 DEF PlaceOf

LEMMA LastPlaceIs ==
  ASSUME NEW w, Objects!IsWorld(w), infos \in Seq(CatInfo),
         Grouped(w, infos, Objects!ObjectRows(w)), NEW cat, NEW tab
  PROVE  PlaceOf(infos, cat, tab, Objects!LastPlace(cat, tab))
<1> DEFINE P == Objects!Places(cat, tab)
<1>1. \A p : p \in P <=> \E n \in 1 .. Len(infos) : \E m \in 1 .. Len(infos[n].tables) :
                 p = <<n, m>> /\ infos[n].cat = cat /\ infos[n].tables[m].tab = tab
  BY DEF Objects!Places
<1>2. CASE P = {}
  <2>1. Objects!LastPlace(cat, tab) = Objects!NoPlace
    BY <1>2 DEF Objects!LastPlace
  <2>2. ASSUME NEW i \in 1 .. Len(infos), NEW x \in 1 .. Len(infos[i].tables),
               infos[i].cat = cat, infos[i].tables[x].tab = tab
        PROVE  FALSE
    <3>1. <<i, x>> \in P
      BY <1>1, <2>2
    <3> QED
      BY <1>2, <3>1
  <2> QED
    BY <2>1, <2>2 DEF PlaceOf
<1>3. CASE P # {}
  <2>1. PICK p : p \in P
    BY <1>3
  <2>2. PICK n \in 1 .. Len(infos) : \E m \in 1 .. Len(infos[n].tables) :
          p = <<n, m>> /\ infos[n].cat = cat /\ infos[n].tables[m].tab = tab
    BY <1>1, <2>1
  <2>3. PICK m \in 1 .. Len(infos[n].tables) :
          p = <<n, m>> /\ infos[n].cat = cat /\ infos[n].tables[m].tab = tab
    BY <2>2
  <2>4. ASSUME NEW q \in P PROVE q = p
    <3>1. PICK i \in 1 .. Len(infos) : \E x \in 1 .. Len(infos[i].tables) :
            q = <<i, x>> /\ infos[i].cat = cat /\ infos[i].tables[x].tab = tab
      BY <1>1
    <3>2. PICK x \in 1 .. Len(infos[i].tables) :
            q = <<i, x>> /\ infos[i].cat = cat /\ infos[i].tables[x].tab = tab
      BY <3>1
    <3>3. infos[i].cat = infos[n].cat
      BY <2>3, <3>2
    <3>4. /\ i = n
          /\ \A y, z \in 1 .. Len(infos[i].tables) :
               infos[i].tables[y].tab = infos[i].tables[z].tab => y = z
      BY <3>3, OnePlaceRead
    <3> QED
      BY <2>3, <3>2, <3>4
  <2>5. ~Objects!Precedes(p, p)
    <3>1. n \in Int /\ m \in Int
      <4>1. Len(infos) \in Nat /\ Len(infos[n].tables) \in Nat
        BY ListTypes
      <4> QED
        BY <4>1
    <3>2. DOMAIN p = 1 .. 2 /\ p[1] \in Int /\ p[2] \in Int
      BY <2>3, <3>1
    <3>3. \A i \in DOMAIN p : ~(p[i] < p[i])
      BY <3>2
    <3> QED
      BY <3>3 DEF Objects!Precedes
  <2>6. Objects!LastPlace(cat, tab) = CHOOSE q \in P : \A s \in P : ~Objects!Precedes(q, s)
    BY <1>3 DEF Objects!LastPlace
  <2> HIDE DEF P
  <2>7. \A s \in P : ~Objects!Precedes(p, s)
    BY <2>4, <2>5
  <2>8. Objects!LastPlace(cat, tab) \in P
    BY <2>1, <2>6, <2>7
  <2>9. Objects!LastPlace(cat, tab) = p
    BY <2>4, <2>8
  <2> QED
    BY <2>3, <2>9 DEF PlaceOf
<1> QED
  BY <1>2, <1>3

(* One row of the second query.                                            *)
KeysListed(w, list, D) ==
  \A i \in 1 .. Len(list) : \A x \in 1 .. Len(list[i].tables) :
    KeysRead(w, list[i].cat, list[i].tables[x].tab, list[i].tables[x].keys, D)

LEMMA KeySkipped ==
  ASSUME NEW w, NEW a \in Seq(CatInfo), NEW D, NEW r, KeysListed(w, a, D),
         PlaceOf(a, r.cat, r.tab, Objects!NoPlace)
  PROVE  KeysListed(w, a, D \cup {r})
<1>1. ASSUME NEW n \in 1 .. Len(a), NEW m \in 1 .. Len(a[n].tables) PROVE <<n, m>> # <<0, 0>>
  <2>1. n # 0
    OBVIOUS
  <2> QED
    BY <2>1
<1>2. \A i \in 1 .. Len(a) : \A x \in 1 .. Len(a[i].tables) :
        ~(a[i].cat = r.cat /\ a[i].tables[x].tab = r.tab)
  BY <1>1 DEF PlaceOf, Objects!NoPlace
<1>3. ASSUME NEW i \in 1 .. Len(a), NEW x \in 1 .. Len(a[i].tables)
      PROVE  KeysRead(w, a[i].cat, a[i].tables[x].tab, a[i].tables[x].keys, D \cup {r})
  <2>1. KeysRead(w, a[i].cat, a[i].tables[x].tab, a[i].tables[x].keys, D)
    BY DEF KeysListed
  <2>2. r.cat # a[i].cat \/ r.tab # a[i].tables[x].tab
    BY <1>2
  <2> QED
    BY <2>1, <2>2, KeysSame
<1> QED
  BY <1>3 DEF KeysListed

LEMMA SameColumns ==
  ASSUME NEW w, NEW D, NEW a, NEW b, NEW n, NEW m, NEW keys, KeysChanged(a, b, n, m, keys),
         Grouped(w, a, D)
  PROVE  Grouped(w, b, D)
<1>1. SameTables(a, b)
  BY DEF KeysChanged
<1>2. CatalogsListed(b, D) /\ TablesListed(b, D)
  BY <1>1, SameTablesListed DEF Grouped
<1>3. ASSUME NEW i \in 1 .. Len(b), NEW x \in 1 .. Len(b[i].tables), NEW t \in w.tables,
             t.cat = b[i].cat, t.tab = b[i].tables[x].tab
      PROVE  ColumnsRead(t, b[i].tables[x].cols, D)
  <2>1. /\ i \in 1 .. Len(a) /\ x \in 1 .. Len(a[i].tables)
        /\ t.cat = a[i].cat /\ t.tab = a[i].tables[x].tab
    BY <1>1, <1>3 DEF SameTables
  <2>2. ColumnsRead(t, a[i].tables[x].cols, D)
    BY <2>1 DEF Grouped, ColumnsListed
  <2>3. b[i].tables[x].cols = a[i].tables[x].cols
    BY <2>1 DEF KeysChanged
  <2> QED
    BY <2>2, <2>3
<1> QED
  BY <1>2, <1>3 DEF Grouped, ColumnsListed

(* The constraint that row r goes to: the last one, or a new one.          *)
KeyBase(keys, at, r) == IF at = Len(keys) THEN keys[at] ELSE Objects!NewKey(r)

KeyGoesTo(keys, at, r) ==
  \/ Len(keys) # 0 /\ keys[Len(keys)].name = r.name /\ at = Len(keys)
  \/ ~(Len(keys) # 0 /\ keys[Len(keys)].name = r.name) /\ at = Len(keys) + 1

BaseOK(k, keys, at, r, D) ==
  /\ at \in Nat /\ at # 0
  /\ KeyBase(keys, at, r) \in KeyInfo /\ KeyPart(k, KeyBase(keys, at, r), D)
  /\ \A y \in 1 .. at : y # at =>
       /\ y \in 1 .. Len(keys)
       /\ Objects!Weight(keys[y].name) < Objects!Weight(r.name)
  /\ \A y \in 1 .. Len(keys) : y \in 1 .. at /\ (y = at => keys[y].name = r.name)

LEMMA KeyBaseIs ==
  ASSUME NEW w, Objects!IsWorld(w), NEW D, D \subseteq Objects!ConstraintRows(w),
         NEW r \in Objects!ConstraintRows(w), \A s \in D : KeyBefore(s, r),
         NEW k \in w.keys, RowOfKey(w, k, r),
         NEW keys \in Seq(KeyInfo), KeysRead(w, r.cat, r.tab, keys, D),
         NEW at, KeyGoesTo(keys, at, r)
  PROVE  BaseOK(k, keys, at, r, D)
<1>1. Len(keys) \in Nat /\ \A y \in 1 .. Len(keys) : keys[y] \in KeyInfo
  BY LenIs
<1>2. \A y \in 1 .. Len(keys) :
        \/ Objects!Weight(keys[y].name) < Objects!Weight(r.name)
        \/ keys[y].name = r.name /\ y = Len(keys)
  <2>1. OnlyLastIs(keys, r)
    BY <1>1, KeysBefore
  <2> QED
    BY <2>1 DEF OnlyLastIs
<1>3. r.cat = k.cat /\ r.tab = k.tab /\ r.name = k.name
  BY DEF RowOfKey
<1>4. CASE Len(keys) # 0 /\ keys[Len(keys)].name = r.name /\ at = Len(keys)
  <2>1. at \in 1 .. Len(keys) /\ KeyBase(keys, at, r) = keys[at]
    BY <1>1, <1>4 DEF KeyBase
  <2>2. PICK l \in w.keys :
          l.cat = r.cat /\ l.tab = r.tab /\ RowsOf(D, l) # {} /\ KeyPart(l, keys[at], D)
    BY <2>1 DEF KeysRead
  <2>3. l = k
    <3>1. l.name = keys[at].name
      BY <2>2 DEF KeyPart
    <3> QED
      BY <1>3, <1>4, <2>2, <3>1, SameKey
  <2> QED
    BY <1>1, <1>2, <1>4, <2>1, <2>2, <2>3 DEF BaseOK
<1>5. CASE ~(Len(keys) # 0 /\ keys[Len(keys)].name = r.name) /\ at = Len(keys) + 1
  <2>1. KeyBase(keys, at, r) = Objects!NewKey(r) /\ at \in Nat /\ at # 0
    BY <1>1, <1>5 DEF KeyBase
  <2>2. \A y \in 1 .. Len(keys) : keys[y].name # r.name
    <3> SUFFICES ASSUME NEW y \in 1 .. Len(keys), keys[y].name = r.name PROVE FALSE
      OBVIOUS
    <3>1. y # Len(keys)
      BY <1>1, <1>5
    <3>2. Objects!Weight(r.name) < Objects!Weight(r.name)
      BY <1>2, <3>1
    <3>3. Objects!Weight(r.name) \in Int
      BY KeyRowWeights
    <3> QED
      BY <3>2, <3>3
  <2>3. RowsOf(D, k) = {}
    <3> SUFFICES ASSUME NEW s \in RowsOf(D, k) PROVE FALSE
      OBVIOUS
    <3>1. s \in D /\ s.cat = r.cat /\ s.tab = r.tab /\ s.name = r.name
      BY <1>3 DEF RowsOf
    <3> QED
      BY <2>2, <3>1 DEF KeysRead
  <2>4. Objects!NewKey(r) \in KeyInfo /\ KeyPart(k, Objects!NewKey(r), D)
    BY <2>3, NewKeyIs
  <2>5. ASSUME NEW y \in 1 .. at, y # at PROVE y \in 1 .. Len(keys)
    BY <1>1, <1>5, <2>5
  <2>6. \A y \in 1 .. Len(keys) : y \in 1 .. at /\ y # at
    BY <1>1, <1>5
  <2> QED
    BY <1>2, <2>1, <2>2, <2>4, <2>5, <2>6 DEF BaseOK
<1> QED
  BY <1>4, <1>5 DEF KeyGoesTo

LEMMA OneEntry ==
  ASSUME NEW o, Objects!IsWorld(o), NEW a \in Seq(CatInfo), Grouped(o, a, Objects!ObjectRows(o)),
         NEW i \in 1 .. Len(a), NEW x \in 1 .. Len(a[i].tables),
         NEW n \in 1 .. Len(a), NEW m \in 1 .. Len(a[n].tables),
         a[i].cat = a[n].cat, a[i].tables[x].tab = a[n].tables[m].tab
  PROVE  i = n /\ x = m
<1>1. /\ i = n
      /\ \A y, z \in 1 .. Len(a[i].tables) : a[i].tables[y].tab = a[i].tables[z].tab => y = z
  BY OnePlaceRead
<1> QED
  BY <1>1

KeyDone(w, o, a, b, D, r, n, m, at) ==
  /\ b \in Seq(CatInfo) /\ SameTables(a, b) /\ Grouped(o, b, Objects!ObjectRows(o))
  /\ KeysListed(w, b, D \cup {r})
  /\ at # 0 /\ Len(b[n].tables[m].keys) = at /\ b[n].tables[m].keys[at].name = r.name

LEMMA KeyStepAt ==
  ASSUME NEW w, Objects!IsWorld(w), NEW D, D \subseteq Objects!ConstraintRows(w),
         NEW r \in Objects!ConstraintRows(w), r \notin D, \A s \in D : KeyBefore(s, r),
         \A s \in Objects!ConstraintRows(w) : s \notin D /\ s # r => KeyBefore(r, s),
         NEW o, Objects!IsWorld(o), NEW a \in Seq(CatInfo), Grouped(o, a, Objects!ObjectRows(o)),
         KeysListed(w, a, D),
         NEW n \in 1 .. Len(a), NEW m \in 1 .. Len(a[n].tables),
         a[n].cat = r.cat, a[n].tables[m].tab = r.tab,
         NEW at, KeyGoesTo(a[n].tables[m].keys, at, r),
         NEW b, KeyAdded(a, b, n, m, a[n].tables[m].keys, at,
                         Objects!KeyWithColumn(KeyBase(a[n].tables[m].keys, at, r), r))
  PROVE  KeyDone(w, o, a, b, D, r, n, m, at)
<1> DEFINE keys == a[n].tables[m].keys
           base == KeyBase(keys, at, r)
<1>1. PICK k \in w.keys : RowOfKey(w, k, r)
  BY KeyRowIs
<1>2. keys \in Seq(KeyInfo) /\ KeysRead(w, r.cat, r.tab, keys, D)
  BY KeysOf DEF KeysListed
<1> HIDE DEF keys
<1>3. KeyGoesTo(keys, at, r)
  BY DEF keys
<1>4. /\ at \in Nat /\ at # 0 /\ base \in KeyInfo /\ KeyPart(k, base, D)
      /\ \A y \in 1 .. at : y # at =>
           /\ y \in 1 .. Len(keys)
           /\ Objects!Weight(keys[y].name) < Objects!Weight(r.name)
      /\ \A y \in 1 .. Len(keys) : y \in 1 .. at /\ (y = at => keys[y].name = r.name)
  <2>1. BaseOK(k, keys, at, r, D)
    BY <1>1, <1>2, <1>3, KeyBaseIs
  <2> QED
    BY <2>1 DEF BaseOK
<1> HIDE DEF base
<1>5. PICK more \in Seq(KeyInfo) :
        /\ KeysChanged(a, b, n, m, more)
        /\ Len(more) = at /\ more[at] = Objects!KeyWithColumn(base, r)
        /\ \A y \in 1 .. at : y # at => more[y] = keys[y]
  BY DEF KeyAdded, base, keys
<1>6. b \in Seq(CatInfo) /\ SameTables(a, b) /\ b[n].tables[m].keys = more
  BY <1>5 DEF KeysChanged
<1>7. Grouped(o, b, Objects!ObjectRows(o))
  BY <1>5, SameColumns
<1>8. KeysRead(w, r.cat, r.tab, more, D \cup {r})
  <2>1. Objects!Weight(r.name) \in Int
    BY KeyRowWeights
  <2>2. \A y \in 1 .. at : y # at =>
          /\ y \in 1 .. Len(keys) /\ more[y] = keys[y]
          /\ Objects!Weight(keys[y].name) < Objects!Weight(r.name)
    BY <1>4, <1>5
  <2> QED
    BY <1>1, <1>2, <1>4, <1>5, <2>1, <2>2, KeysGrow
<1>9. more[at].name = r.name
  <2>1. KeyPart(k, more[at], D \cup {r})
    BY <1>1, <1>4, <1>5, KeyGrows
  <2> QED
    BY <1>1, <2>1 DEF KeyPart, RowOfKey
<1>10. ASSUME NEW i \in 1 .. Len(b), NEW x \in 1 .. Len(b[i].tables)
       PROVE  KeysRead(w, b[i].cat, b[i].tables[x].tab, b[i].tables[x].keys, D \cup {r})
  <2>1. /\ i \in 1 .. Len(a) /\ x \in 1 .. Len(a[i].tables)
        /\ b[i].cat = a[i].cat /\ b[i].tables[x].tab = a[i].tables[x].tab
    BY <1>6 DEF SameTables
  <2>2. CASE i = n /\ x = m
    BY <1>6, <1>8, <2>1, <2>2
  <2>3. CASE ~(i = n /\ x = m)
    <3>1. b[i].tables[x].keys = a[i].tables[x].keys
      BY <1>5, <2>1, <2>3 DEF KeysChanged
    <3>2. KeysRead(w, a[i].cat, a[i].tables[x].tab, a[i].tables[x].keys, D)
      BY <2>1 DEF KeysListed
    <3>3. r.cat # a[i].cat \/ r.tab # a[i].tables[x].tab
      <4> SUFFICES ASSUME r.cat = a[i].cat, r.tab = a[i].tables[x].tab PROVE FALSE
        OBVIOUS
      <4>1. i = n /\ x = m
        BY <2>1, OneEntry
      <4> QED
        BY <2>3, <4>1
    <3>4. KeysRead(w, a[i].cat, a[i].tables[x].tab, a[i].tables[x].keys, D \cup {r})
      BY <3>2, <3>3, KeysSame
    <3> QED
      BY <2>1, <3>1, <3>4
  <2> QED
    BY <2>2, <2>3
<1> QED
  BY <1>4, <1>5, <1>6, <1>7, <1>9, <1>10 DEF KeysListed, KeyDone

(* What is current while the second query is read.                         *)
CurrentOK(cur) == DOMAIN cur = {"table", "key", "constraint", "name"}

LastKey(list, cur) ==
  LET keys == Objects!TableAt(list, cur.table).keys
  IN  cur.constraint = Len(keys) /\ Len(keys) # 0 /\ cur.name = keys[Len(keys)].name

CurrentRead(list, cur) ==
  cur.key # <<None, None>> =>
    /\ PlaceOf(list, cur.key[1], cur.key[2], cur.table)
    /\ cur.table # Objects!NoPlace => LastKey(list, cur)

(* The state after row r.                                                  *)
RowKey(r)      == Objects!KeyChange(r)
RowChange(r)   == Objects!ConstraintChange(RowKey(r), r)
RowList(r)     == Objects!AddKeyColumn(RowChange(r).infos, RowKey(r).table, RowChange(r).at, r)
RowCurrent(r)  == [RowKey(r) EXCEPT !.constraint = RowChange(r).at, !.name = r.name]

LEMMA RowKeyIs ==
  ASSUME NEW w, Objects!IsWorld(w), NEW r \in Objects!ConstraintRows(w),
         NEW o, Objects!IsWorld(o), infos \in Seq(CatInfo),
         Grouped(o, infos, Objects!ObjectRows(o)), CurrentOK(current), CurrentRead(infos, current)
  PROVE  /\ CurrentOK(RowKey(r)) /\ RowKey(r).key = <<r.cat, r.tab>>
         /\ PlaceOf(infos, r.cat, r.tab, RowKey(r).table)
<1>1. r.cat # None
  BY KeyRowWeights
<1>2. CASE current.key = <<r.cat, r.tab>>
  <2>1. RowKey(r) = current
    BY <1>2 DEF RowKey, Objects!KeyChange
  <2>2. current.key # <<None, None>> /\ current.key[1] = r.cat /\ current.key[2] = r.tab
    BY <1>1, <1>2
  <2>3. PlaceOf(infos, current.key[1], current.key[2], current.table)
    BY <2>2 DEF CurrentRead
  <2> QED
    BY <1>2, <2>1, <2>2, <2>3
<1>3. CASE current.key # <<r.cat, r.tab>>
  <2>1. RowKey(r) = [key |-> <<r.cat, r.tab>>, table |-> Objects!LastPlace(r.cat, r.tab),
                     constraint |-> 0, name |-> None]
    BY <1>3 DEF RowKey, Objects!KeyChange
  <2>2. PlaceOf(infos, r.cat, r.tab, Objects!LastPlace(r.cat, r.tab))
    BY LastPlaceIs
  <2>3. /\ RowKey(r).key = <<r.cat, r.tab>>
        /\ RowKey(r).table = Objects!LastPlace(r.cat, r.tab)
        /\ RowKey(r).constraint = 0 /\ RowKey(r).name = None
    BY <2>1
  <2>4. CurrentOK(RowKey(r))
    BY <2>1 DEF CurrentOK
  <2> QED
    BY <2>2, <2>3, <2>4
<1> QED
  BY <1>2, <1>3

(* A row of a table that is not listed.                                    *)
LEMMA KeyStepSkips ==
  ASSUME NEW w, Objects!IsWorld(w), NEW D, NEW r \in Objects!ConstraintRows(w),
         NEW o, Objects!IsWorld(o), infos \in Seq(CatInfo),
         Grouped(o, infos, Objects!ObjectRows(o)), KeysListed(w, infos, D),
         CurrentOK(current), CurrentRead(infos, current), RowKey(r).table = Objects!NoPlace
  PROVE  KeysListed(w, infos, D \cup {r}) /\ CurrentRead(infos, RowKey(r))
<1>1. RowKey(r).key = <<r.cat, r.tab>> /\ PlaceOf(infos, r.cat, r.tab, Objects!NoPlace)
  BY RowKeyIs
<1>2. KeysListed(w, infos, D \cup {r})
  BY <1>1, KeySkipped
<1>3. RowKey(r).key[1] = r.cat /\ RowKey(r).key[2] = r.tab
  BY <1>1
<1> QED
  BY <1>1, <1>2, <1>3 DEF CurrentRead

(* A row of a table that is listed.                                        *)
LEMMA RowGoesTo ==
  ASSUME NEW w, Objects!IsWorld(w), NEW D, D \subseteq Objects!ConstraintRows(w),
         NEW r \in Objects!ConstraintRows(w),
         \A s \in D : s.cat = r.cat /\ s.tab = r.tab => current.key = <<r.cat, r.tab>>,
         infos \in Seq(CatInfo), KeysListed(w, infos, D), CurrentRead(infos, current),
         NEW n \in 1 .. Len(infos), NEW m \in 1 .. Len(infos[n].tables),
         infos[n].cat = r.cat, infos[n].tables[m].tab = r.tab,
         RowKey(r).table = <<n, m>>
  PROVE  LET keys == infos[n].tables[m].keys
         IN  \/ /\ Len(keys) # 0 /\ keys[Len(keys)].name = r.name
                /\ RowChange(r).at = Len(keys) /\ RowChange(r).infos = infos
             \/ /\ ~(Len(keys) # 0 /\ keys[Len(keys)].name = r.name)
                /\ RowChange(r).at = Len(keys) + 1
                /\ RowChange(r).infos = KeysAt(infos, n, m, Append(keys, Objects!NewKey(r)))
<1> DEFINE keys == infos[n].tables[m].keys
           p    == <<n, m>>
<1>1. keys \in Seq(KeyInfo) /\ Len(keys) \in Nat
  BY KeysOf
<1>2. p[1] = n /\ p[2] = m /\ Objects!TableAt(infos, p).keys = keys
  BY DEF Objects!TableAt
<1>3. p # Objects!NoPlace
  <2>1. n # 0
    OBVIOUS
  <2> QED
    BY <2>1 DEF Objects!NoPlace
<1>4. r.cat # None
  BY KeyRowWeights
<1>5. RowKey(r).constraint # 0 /\ RowKey(r).name = r.name <=>
        Len(keys) # 0 /\ keys[Len(keys)].name = r.name
  <2>1. CASE current.key = <<r.cat, r.tab>>
    <3>1. RowKey(r) = current
      BY <2>1 DEF RowKey, Objects!KeyChange
    <3>2. current.key # <<None, None>> /\ current.table = p
      BY <1>4, <2>1, <3>1
    <3>3. LastKey(infos, current)
      BY <1>3, <3>2 DEF CurrentRead
    <3>4. current.constraint = Len(keys) /\ Len(keys) # 0 /\ current.name = keys[Len(keys)].name
      BY <1>2, <3>2, <3>3 DEF LastKey
    <3> QED
      BY <3>1, <3>4
  <2>2. CASE current.key # <<r.cat, r.tab>>
    <3>1. RowKey(r).constraint = 0
      BY <2>2 DEF RowKey, Objects!KeyChange
    <3>2. Len(keys) = 0
      <4> SUFFICES ASSUME Len(keys) # 0 PROVE FALSE
        OBVIOUS
      <4>1. KeysRead(w, r.cat, r.tab, keys, D)
        BY DEF KeysListed
      <4> HIDE DEF keys
      <4>2. 1 \in 1 .. Len(keys)
        BY <1>1
      <4>3. PICK k \in w.keys : k.cat = r.cat /\ k.tab = r.tab /\ RowsOf(D, k) # {}
        BY <4>1, <4>2 DEF KeysRead
      <4>4. PICK s \in D : s.cat = k.cat /\ s.tab = k.tab
        BY <4>3 DEF RowsOf
      <4> QED
        BY <2>2, <4>3, <4>4
    <3> QED
      BY <3>1, <3>2
  <2> QED
    BY <2>1, <2>2
<1>6. CASE RowKey(r).constraint # 0 /\ RowKey(r).name = r.name
  <2>1. RowChange(r) = [infos |-> infos, at |-> RowKey(r).constraint]
    BY <1>6 DEF RowChange, Objects!ConstraintChange
  <2>2. RowKey(r) = current
    BY <1>6 DEF RowKey, Objects!KeyChange
  <2>3. current.key = <<r.cat, r.tab>>
    BY <1>6 DEF RowKey, Objects!KeyChange
  <2>4. current.key # <<None, None>> /\ current.table = p
    BY <1>4, <2>2, <2>3
  <2>5. LastKey(infos, current)
    BY <1>3, <2>4 DEF CurrentRead
  <2>6. current.constraint = Len(keys)
    BY <1>2, <2>4, <2>5 DEF LastKey
  <2> QED
    BY <1>5, <1>6, <2>1, <2>2, <2>6
<1>7. CASE ~(RowKey(r).constraint # 0 /\ RowKey(r).name = r.name)
  <2> HIDE DEF p
  <2>1. RowKey(r).table = p
    BY DEF p
  <2>2. RowChange(r) = [infos |-> [infos EXCEPT ![p[1]].tables[p[2]].keys =
                                     Append(@, Objects!NewKey(r))],
                        at |-> Len(Objects!TableAt(infos, p).keys) + 1]
    BY <1>7, <2>1 DEF RowChange, Objects!ConstraintChange
  <2>3. RowChange(r).infos = KeysAt(infos, n, m, Append(keys, Objects!NewKey(r)))
    BY <1>2, <2>2 DEF KeysAt
  <2>4. RowChange(r).at = Len(keys) + 1
    BY <1>2, <2>2
  <2> QED
    BY <1>5, <1>7, <2>3, <2>4
<1> QED
  BY <1>6, <1>7

LEMMA KeyStepAdds ==
  ASSUME NEW w, Objects!IsWorld(w), NEW D, D \subseteq Objects!ConstraintRows(w),
         NEW r \in Objects!ConstraintRows(w), r \notin D, \A s \in D : KeyBefore(s, r),
         \A s \in Objects!ConstraintRows(w) : s \notin D /\ s # r => KeyBefore(r, s),
         \A s \in D : s.cat = r.cat /\ s.tab = r.tab => current.key = <<r.cat, r.tab>>,
         NEW o, Objects!IsWorld(o), infos \in Seq(CatInfo),
         Grouped(o, infos, Objects!ObjectRows(o)), KeysListed(w, infos, D),
         CurrentOK(current), CurrentRead(infos, current), RowKey(r).table # Objects!NoPlace
  PROVE  /\ RowList(r) \in Seq(CatInfo) /\ Grouped(o, RowList(r), Objects!ObjectRows(o))
         /\ KeysListed(w, RowList(r), D \cup {r})
         /\ CurrentOK(RowCurrent(r)) /\ RowCurrent(r).key = <<r.cat, r.tab>>
         /\ CurrentRead(RowList(r), RowCurrent(r))
<1>1. /\ CurrentOK(RowKey(r)) /\ RowKey(r).key = <<r.cat, r.tab>>
      /\ PlaceOf(infos, r.cat, r.tab, RowKey(r).table)
  BY RowKeyIs
<1>2. PICK n \in 1 .. Len(infos) : \E m \in 1 .. Len(infos[n].tables) :
        RowKey(r).table = <<n, m>> /\ infos[n].cat = r.cat /\ infos[n].tables[m].tab = r.tab
  BY <1>1 DEF PlaceOf
<1>3. PICK m \in 1 .. Len(infos[n].tables) :
        RowKey(r).table = <<n, m>> /\ infos[n].cat = r.cat /\ infos[n].tables[m].tab = r.tab
  BY <1>2
<1> DEFINE keys == infos[n].tables[m].keys
           at   == RowChange(r).at
           b    == RowList(r)
<1>4. keys \in Seq(KeyInfo) /\ Len(keys) \in Nat /\ KeysRead(w, r.cat, r.tab, keys, D)
  <2>1. keys \in Seq(KeyInfo) /\ Len(keys) \in Nat
    BY KeysOf
  <2>2. KeysRead(w, infos[n].cat, infos[n].tables[m].tab, keys, D)
    BY DEF KeysListed
  <2> QED
    BY <1>3, <2>1, <2>2
<1>5. \/ /\ Len(keys) # 0 /\ keys[Len(keys)].name = r.name
         /\ at = Len(keys) /\ RowChange(r).infos = infos
      \/ /\ ~(Len(keys) # 0 /\ keys[Len(keys)].name = r.name)
         /\ at = Len(keys) + 1
         /\ RowChange(r).infos = KeysAt(infos, n, m, Append(keys, Objects!NewKey(r)))
  BY <1>3, RowGoesTo
<1>6. KeyGoesTo(keys, at, r)
  BY <1>5 DEF KeyGoesTo
<1>7. PICK k \in w.keys : RowOfKey(w, k, r)
  BY KeyRowIs
<1> HIDE DEF keys, at
<1>8. BaseOK(k, keys, at, r, D)
  BY <1>4, <1>6, <1>7, KeyBaseIs
<1>9. Objects!KeyWithColumn(KeyBase(keys, at, r), r) \in KeyInfo
  <2>1. KeyBase(keys, at, r) \in KeyInfo /\ KeyPart(k, KeyBase(keys, at, r), D)
    BY <1>8 DEF BaseOK
  <2> QED
    BY <1>7, <2>1, KeyGrows
<1>10. b = Objects!AddKeyColumn(RowChange(r).infos, <<n, m>>, at, r)
  BY <1>3 DEF RowList, at
<1>11. KeyAdded(infos, b, n, m, keys, at, Objects!KeyWithColumn(KeyBase(keys, at, r), r))
  <2>1. CASE Len(keys) # 0 /\ at = Len(keys) /\ RowChange(r).infos = infos
    <3>1. KeyBase(keys, at, r) = keys[at]
      BY <2>1 DEF KeyBase
    <3>2. KeyAdded(infos, Objects!AddKeyColumn(infos, <<n, m>>, at, r), n, m, keys, at,
                   Objects!KeyWithColumn(keys[at], r))
      BY <1>9, <2>1, <3>1, KeyContinued DEF keys
    <3> QED
      BY <1>10, <2>1, <3>1, <3>2
  <2>2. CASE /\ at = Len(keys) + 1
             /\ RowChange(r).infos = KeysAt(infos, n, m, Append(keys, Objects!NewKey(r)))
    <3>1. KeyBase(keys, at, r) = Objects!NewKey(r)
      BY <1>4, <2>2 DEF KeyBase
    <3>2. Objects!NewKey(r) \in KeyInfo
      BY <1>8, <3>1 DEF BaseOK
    <3>3. KeyAdded(infos, Objects!AddKeyColumn(KeysAt(infos, n, m, Append(keys, Objects!NewKey(r))),
                                               <<n, m>>, at, r),
                   n, m, keys, at, Objects!KeyWithColumn(Objects!NewKey(r), r))
      BY <1>9, <2>2, <3>1, <3>2, KeyStarted DEF keys
    <3> QED
      BY <1>10, <2>2, <3>1, <3>3
  <2> QED
    BY <1>5, <2>1, <2>2
<1> HIDE DEF b
<1>12. /\ b \in Seq(CatInfo) /\ SameTables(infos, b) /\ Grouped(o, b, Objects!ObjectRows(o))
       /\ KeysListed(w, b, D \cup {r})
       /\ at # 0 /\ Len(b[n].tables[m].keys) = at /\ b[n].tables[m].keys[at].name = r.name
  <2>1. /\ KeyGoesTo(infos[n].tables[m].keys, at, r)
        /\ KeyAdded(infos, b, n, m, infos[n].tables[m].keys, at,
                    Objects!KeyWithColumn(KeyBase(infos[n].tables[m].keys, at, r), r))
    BY <1>6, <1>11 DEF keys
  <2>2. KeyDone(w, o, infos, b, D, r, n, m, at)
    BY <1>3, <2>1, KeyStepAt
  <2> QED
    BY <2>2 DEF KeyDone
<1> DEFINE e == RowCurrent(r)
<1>13. /\ CurrentOK(e) /\ e.key = <<r.cat, r.tab>> /\ e.table = <<n, m>>
       /\ e.constraint = at /\ e.name = r.name
  <2>1. DOMAIN RowKey(r) = {"table", "key", "constraint", "name"}
    BY <1>1 DEF CurrentOK
  <2>2. /\ e.key = RowKey(r).key /\ e.table = RowKey(r).table
        /\ e.constraint = at /\ e.name = r.name
    BY <2>1 DEF RowCurrent, at
  <2>3. CurrentOK(e)
    BY <2>1 DEF RowCurrent, CurrentOK
  <2> QED
    BY <1>1, <1>3, <2>2, <2>3
<1> HIDE DEF e
<1>14. CurrentRead(b, e)
  <2>1. PlaceOf(b, r.cat, r.tab, e.table)
    BY <1>1, <1>3, <1>12, <1>13, PlaceSame
  <2>2. e.key[1] = r.cat /\ e.key[2] = r.tab
    BY <1>13
  <2>3. Objects!TableAt(b, e.table) = b[n].tables[m]
    <3>1. e.table[1] = n /\ e.table[2] = m
      BY <1>13
    <3> QED
      BY <3>1 DEF Objects!TableAt
  <2>4. LastKey(b, e)
    BY <1>12, <1>13, <2>3 DEF LastKey
  <2> QED
    BY <2>1, <2>2, <2>4 DEF CurrentRead
<1> QED
  BY <1>12, <1>13, <1>14 DEF b, e

(* What the constraints read from the whole query say.                     *)
KeyEntry(k) ==
  [name |-> k.name, type |-> k.type, cols |-> k.cols,
   refs |-> IF k.type = "FOREIGN KEY" THEN k.cols ELSE <<>>]

LEMMA SameSequence ==
  ASSUME NEW T, NEW s \in Seq(T), NEW t \in Seq(T), Len(s) = Len(t),
         \A p \in 1 .. Len(t) : s[p] = t[p]
  PROVE  s = t
OBVIOUS

LEMMA KeyRead ==
  ASSUME NEW w, Objects!IsWorld(w), NEW k \in w.keys, Objects!KeyMatches(w, k),
         NEW y \in KeyInfo, KeyPart(k, y, Objects!ConstraintRows(w))
  PROVE  y = KeyEntry(k)
<1> DEFINE n == Len(k.cols)
<1>1. /\ k.cols \in Seq(Nat) /\ n \in Nat /\ y.cols \in Seq(Nat) /\ Len(y.cols) \in Nat
      /\ y = [name |-> y.name, type |-> y.type, cols |-> y.cols, refs |-> y.refs]
  BY KeyIs DEF KeyInfo
<1>2. Len(y.cols) = n
  <2>1. ASSUME n # 0 PROVE n <= Len(y.cols)
    <3>1. n \in 1 .. n
      BY <1>1, <2>1
    <3>2. KeyColumnRow(k, n) \in Objects!ConstraintRows(w)
      BY <3>1, KeyRowsAre
    <3>3. KeyColumnRow(k, n) \in RowsOf(Objects!ConstraintRows(w), k) /\ KeyColumnRow(k, n).pos = n
      BY <3>2 DEF RowsOf, KeyColumnRow
    <3> QED
      BY <3>1, <3>3 DEF KeyPart
  <2>2. Len(y.cols) <= n
    BY DEF KeyPart
  <2> HIDE DEF n
  <2> QED
    BY <1>1, <2>1, <2>2
<1>3. y.cols = k.cols
  <2>1. \A p \in 1 .. n : y.cols[p] = k.cols[p]
    BY <1>2 DEF KeyPart
  <2> QED
    BY <1>1, <1>2, <2>1, SameSequence
<1> QED
  BY <1>1, <1>3 DEF KeyPart, KeyEntry

LEMMA KeysExact ==
  ASSUME NEW w, Objects!IsWorld(w), NEW o, Objects!IsWorld(o), NEW a \in Seq(CatInfo),
         Grouped(o, a, Objects!ObjectRows(o)), KeysListed(w, a, Objects!ConstraintRows(w)),
         NEW i \in 1 .. Len(a), NEW x \in 1 .. Len(a[i].tables)
  PROVE  LET t == a[i].tables[x]
         IN  IF \E u \in w.tables : u.cat = a[i].cat /\ u.tab = t.tab /\ u.type \in request.types
               THEN /\ Objects!ToSet(t.keys) = Objects!ExpectedKeys(w, a[i].cat, t.tab)
                    /\ Objects!IsInjective(t.keys)
               ELSE t.keys = <<>>
<1> DEFINE cat  == a[i].cat
           tab  == a[i].tables[x].tab
           keys == a[i].tables[x].keys
           rows == Objects!ConstraintRows(w)
           has  == \E u \in w.tables : u.cat = cat /\ u.tab = tab /\ u.type \in request.types
<1>1. keys \in Seq(KeyInfo) /\ Len(keys) \in Nat /\ KeysRead(w, cat, tab, keys, rows)
  BY KeysOf DEF KeysListed
<1>2. cat \in request.cats /\ tab \in request.tabs
  <2>1. cat \in request.cats
    BY EntryIs
  <2>2. PICK t \in Joined(o, a[i].cat) : a[i].tables[x].tab = t.tab
    BY EntryIs
  <2>3. t.tab \in request.tabs
    BY JoinedIs DEF Objects!TableMatches
  <2> QED
    BY <2>1, <2>2, <2>3
<1> HIDE DEF cat, tab, keys
<1>3. DOMAIN keys = 1 .. Len(keys) /\ \A y \in 1 .. Len(keys) : keys[y] \in KeyInfo
  BY <1>1, LenIs
<1>4. ASSUME NEW y \in 1 .. Len(keys)
      PROVE  \E k \in w.keys : /\ k.cat = cat /\ k.tab = tab /\ Objects!KeyMatches(w, k)
                               /\ keys[y] = KeyEntry(k) /\ has
  <2>1. PICK k \in w.keys :
          k.cat = cat /\ k.tab = tab /\ RowsOf(rows, k) # {} /\ KeyPart(k, keys[y], rows)
    BY <1>1 DEF KeysRead
  <2>2. PICK r \in rows : r.cat = k.cat /\ r.tab = k.tab /\ r.name = k.name
    BY <2>1 DEF RowsOf
  <2>3. PICK l \in w.keys : RowOfKey(w, l, r)
    BY KeyRowIs
  <2>4. l = k /\ Objects!KeyMatches(w, k)
    BY <2>2, <2>3, SameKey DEF RowOfKey
  <2>5. keys[y] = KeyEntry(k)
    BY <1>3, <2>1, <2>4, KeyRead
  <2>6. has
    BY <2>1, <2>4 DEF Objects!KeyMatches
  <2> QED
    BY <2>1, <2>4, <2>5, <2>6
<1>5. CASE has
  <2>1. ASSUME NEW k \in w.keys, k.cat = cat, k.tab = tab
        PROVE  \E y \in 1 .. Len(keys) : keys[y] = KeyEntry(k)
    <3>1. Objects!KeyMatches(w, k)
      BY <1>2, <1>5, <2>1 DEF Objects!KeyMatches
    <3>2. PICK r \in rows : r.cat = cat /\ r.tab = tab /\ r.name = k.name
      <4>1. Len(k.cols) \in Nat
        BY KeyIs
      <4>2. CASE Len(k.cols) = 0
        <5>1. BareRow(k) \in rows
          BY <3>1, <4>2, KeyRowsAre
        <5> QED
          BY <2>1, <5>1 DEF BareRow
      <4>3. CASE Len(k.cols) # 0
        <5>1. KeyColumnRow(k, 1) \in rows
          <6>1. 1 \in 1 .. Len(k.cols)
            BY <4>1, <4>3
          <6> QED
            BY <3>1, <6>1, KeyRowsAre
        <5> QED
          BY <2>1, <5>1 DEF KeyColumnRow
      <4> QED
        BY <4>2, <4>3
    <3>3. PICK y \in 1 .. Len(keys) : keys[y].name = k.name
      BY <1>1, <3>2 DEF KeysRead
    <3>4. PICK l \in w.keys : l.cat = cat /\ l.tab = tab /\ keys[y] = KeyEntry(l)
      BY <1>4
    <3>5. l = k
      <4>1. l.name = k.name
        <5>1. KeyEntry(l).name = l.name
          BY DEF KeyEntry
        <5> QED
          BY <3>3, <3>4, <5>1
      <4> QED
        BY <2>1, <3>4, <4>1, SameKey
    <3> QED
      BY <3>4, <3>5
  <2>2. Objects!ToSet(keys) = {keys[y] : y \in 1 .. Len(keys)}
    BY <1>3 DEF Objects!ToSet
  <2>3. Objects!ExpectedKeys(w, cat, tab) =
          {KeyEntry(k) : k \in {v \in w.keys : v.cat = cat /\ v.tab = tab}}
    BY DEF Objects!ExpectedKeys, KeyEntry
  <2> HIDE DEF has, rows
  <2>4. {keys[y] : y \in 1 .. Len(keys)} =
          {KeyEntry(k) : k \in {v \in w.keys : v.cat = cat /\ v.tab = tab}}
    BY <1>4, <2>1
  <2>5. Objects!IsInjective(keys)
    <3>1. ASSUME NEW y \in 1 .. Len(keys), NEW z \in 1 .. Len(keys), keys[y] = keys[z] PROVE y = z
      <4>1. Objects!Weight(keys[y].name) \in Int
        <5>1. keys[y].name \in Nat
          BY <1>3 DEF KeyInfo
        <5>2. Objects!Weight(keys[y].name) \in Nat
          BY <5>1, WeightOf
        <5> QED
          BY <5>2
      <4>2. /\ y < z => Objects!Weight(keys[y].name) < Objects!Weight(keys[z].name)
            /\ z < y => Objects!Weight(keys[z].name) < Objects!Weight(keys[y].name)
        BY <1>1 DEF KeysRead
      <4> QED
        BY <3>1, <4>1, <4>2
    <3> QED
      BY <1>3, <3>1 DEF Objects!IsInjective
  <2> QED
    BY <1>5, <2>2, <2>3, <2>4, <2>5 DEF has, keys, cat, tab
<1>6. CASE ~has
  <2>1. Len(keys) = 0
    <3> SUFFICES ASSUME Len(keys) # 0 PROVE FALSE
      OBVIOUS
    <3>1. 1 \in 1 .. Len(keys)
      BY <1>1
    <3> HIDE DEF has
    <3> QED
      BY <1>4, <1>6, <3>1
  <2>2. keys = <<>>
    BY <1>1, <2>1
  <2> QED
    BY <1>6, <2>2 DEF keys, cat, tab
<1> QED
  BY <1>5, <1>6

-----------------------------------------------------------------------------
(* The inductive invariant of GetObjects.                                  *)
KeysSeen == Objects!ConstraintRows(answered.keys)

ReadingObjects ==
  /\ answered.keys = None
  /\ todo \subseteq ObjectsSeen
  /\ \A r \in ObjectsSeen \ todo : \A s \in todo : Before(r, s)
  /\ CurrentOK(current) /\ current.table = LastOf(infos) /\ NoKeys(infos)
  /\ Grouped(answered.objects, infos, ObjectsSeen \ todo)

AllGrouped == Grouped(answered.objects, infos, ObjectsSeen)

ReadingKeys ==
  /\ Objects!IsWorld(answered.keys)
  /\ todo \subseteq KeysSeen
  /\ \A r \in KeysSeen \ todo : \A s \in todo : KeyBefore(r, s)
  /\ KeysListed(answered.keys, infos, KeysSeen \ todo)
  /\ CurrentOK(current) /\ CurrentRead(infos, current)
  /\ \A s \in KeysSeen \ todo : \A r \in todo :
       s.cat = r.cat /\ s.tab = r.tab => current.key = <<r.cat, r.tab>>

ObjectsInv ==
  /\ pc \in {"query", "objects", "constraints", "send", "returned", "failed"}
  /\ Objects!IsWorld(world)
  /\ DOMAIN answered = {"objects", "keys"}
  /\ pc = "query" => infos = <<>> /\ current = Objects!NoCurrent /\ answered.keys = None
  /\ pc \in {"objects", "constraints", "send", "returned"} =>
       Objects!IsWorld(answered.objects) /\ infos \in Seq(CatInfo)
  /\ pc = "objects" => ReadingObjects
  /\ pc \in {"constraints", "send", "returned"} => AllGrouped
  /\ pc = "constraints" => ReadingKeys
  /\ pc \in {"send", "returned"} /\ answered.keys # None =>
       Objects!IsWorld(answered.keys) /\ KeysListed(answered.keys, infos, KeysSeen)

(* The request stays: what the rows are depends on the world only.         *)
LEMMA SeenKept ==
  ASSUME request' = request
  PROVE  /\ ObjectsSeen' = Objects!ObjectRows(answered'.objects)
         /\ KeysSeen' = Objects!ConstraintRows(answered'.keys)
<1>1. ObjectsSeen' = Objects!ObjectRows(answered'.objects)
  BY DEF ObjectsSeen, Objects!ObjectRows, Objects!CatalogRows, Objects!ColumnRows, Objects!ObjectRow,
         Objects!TablesJoined, Objects!TableMatches, Objects!ColumnsJoined, Objects!SchemaJoined,
         Objects!includeSchemas, Objects!includeTables, Objects!includeColumns
<1>2. KeysSeen' = Objects!ConstraintRows(answered'.keys)
  BY DEF KeysSeen, Objects!ConstraintRows, Objects!KeyMatches, Objects!KeyRows, Objects!KeyUsage
<1> QED
  BY <1>1, <1>2

LEMMA GroupedKept ==
  ASSUME request' = request
  PROVE  /\ AllGrouped' <=> Grouped(answered'.objects, infos', ObjectsSeen')
         /\ ReadingObjects' <=>
              /\ answered'.keys = None
              /\ todo' \subseteq ObjectsSeen'
              /\ \A r \in ObjectsSeen' \ todo' : \A s \in todo' : Before(r, s)
              /\ CurrentOK(current') /\ current'.table = LastOf(infos') /\ NoKeys(infos')
              /\ Grouped(answered'.objects, infos', ObjectsSeen' \ todo')
<1>1. AllGrouped' <=> Grouped(answered'.objects, infos', ObjectsSeen')
  BY DEF AllGrouped, Grouped, ColumnsListed, ColumnsRead, PositionsRead, Objects!ColumnsJoined,
         Objects!includeColumns
<1>2. ReadingObjects' <=>
        /\ answered'.keys = None
        /\ todo' \subseteq ObjectsSeen'
        /\ \A r \in ObjectsSeen' \ todo' : \A s \in todo' : Before(r, s)
        /\ CurrentOK(current') /\ current'.table = LastOf(infos') /\ NoKeys(infos')
        /\ Grouped(answered'.objects, infos', ObjectsSeen' \ todo')
  BY DEF ReadingObjects, Grouped, ColumnsListed, ColumnsRead, PositionsRead, Objects!ColumnsJoined,
         Objects!includeColumns
<1> QED
  BY <1>1, <1>2

LEMMA NoRows ==
  /\ \A w : Grouped(w, <<>>, {})
  /\ <<>> \in Seq(CatInfo) /\ NoKeys(<<>>) /\ LastOf(<<>>) = Objects!NoPlace
<1>1. <<>> \in Seq(CatInfo) /\ Len(<<>>) = 0
  OBVIOUS
<1>2. NoKeys(<<>>) /\ LastOf(<<>>) = Objects!NoPlace
  BY <1>1 DEF NoKeys, LastOf
<1>3. \A w : Grouped(w, <<>>, {})
  BY <1>1 DEF Grouped, CatalogsListed, TablesListed, ColumnsListed
<1> QED
  BY <1>1, <1>2, <1>3

LEMMA NoKeysListed ==
  ASSUME NEW w, NEW list, NoKeys(list)
  PROVE  KeysListed(w, list, {})
<1> SUFFICES ASSUME NEW i \in 1 .. Len(list), NEW x \in 1 .. Len(list[i].tables)
             PROVE  KeysRead(w, list[i].cat, list[i].tables[x].tab, list[i].tables[x].keys, {})
  BY DEF KeysListed
<1>1. list[i].tables[x].keys = <<>>
  BY DEF NoKeys
<1>2. Len(list[i].tables[x].keys) = 0
  BY <1>1
<1> QED
  BY <1>2 DEF KeysRead

LEMMA ObjectsInitHolds ==
  ASSUME Objects!Init
  PROVE  ObjectsInv
<1>1. /\ pc = "query" /\ Objects!IsWorld(world) /\ infos = <<>> /\ current = Objects!NoCurrent
      /\ answered = [objects |-> None, keys |-> None]
  BY ObjectsAssumption DEF Objects!Init
<1> QED
  BY <1>1 DEF ObjectsInv

LEMMA QueryObjectsKeeps ==
  ASSUME ObjectsInv, Objects!QueryObjects
  PROVE  ObjectsInv'
<1>1. /\ pc = "query" /\ pc' = "objects" /\ todo' = Objects!ObjectRows(world)
      /\ answered' = [answered EXCEPT !.objects = world]
      /\ world' = world /\ request' = request /\ infos' = infos /\ current' = current
  BY DEF Objects!QueryObjects
<1>2. /\ infos = <<>> /\ current = Objects!NoCurrent /\ answered.keys = None
      /\ Objects!IsWorld(world) /\ DOMAIN answered = {"objects", "keys"}
  BY <1>1 DEF ObjectsInv
<1>3. /\ answered'.objects = world /\ answered'.keys = None
      /\ DOMAIN answered' = {"objects", "keys"}
  BY <1>1, <1>2
<1>4. ObjectsSeen' = todo'
  BY <1>1, <1>3, SeenKept
<1>5. current'.table = Objects!NoPlace /\ CurrentOK(current')
  BY <1>1, <1>2 DEF Objects!NoCurrent, CurrentOK
<1>6. ObjectsSeen' \ todo' = {}
  BY <1>4
<1>7. ReadingObjects'
  <2>1. Grouped(answered'.objects, infos', ObjectsSeen' \ todo')
    BY <1>1, <1>2, <1>6, NoRows
  <2>2. NoKeys(infos') /\ current'.table = LastOf(infos')
    BY <1>1, <1>2, <1>5, NoRows
  <2> QED
    BY <1>1, <1>3, <1>4, <1>5, <1>6, <2>1, <2>2, GroupedKept
<1>8. infos' \in Seq(CatInfo) /\ Objects!IsWorld(world') /\ Objects!IsWorld(answered'.objects)
  BY <1>1, <1>2, <1>3, NoRows
<1> QED
  BY <1>1, <1>3, <1>7, <1>8 DEF ObjectsInv

LEMMA ReadObjectKeeps ==
  ASSUME ObjectsInv, Objects!ReadObject
  PROVE  ObjectsInv'
<1>1. /\ pc = "objects" /\ world' = world /\ request' = request /\ answered' = answered
  BY DEF Objects!ReadObject
<1>2. PICK r \in Objects!NextRows(Objects!ObjectKey) :
        /\ todo' = todo \ {r} /\ infos' = RowInfos(r)
        /\ current' = [current EXCEPT !.table = RowTable(r).table]
        /\ pc' = IF r.tab # None /\ ~r.schema THEN "panic" ELSE pc
  BY DEF Objects!ReadObject, RowInfos, RowTable
<1> DEFINE w == answered.objects
           D == ObjectsSeen \ todo
<1>3. /\ Objects!IsWorld(w) /\ Objects!IsWorld(world) /\ infos \in Seq(CatInfo)
      /\ DOMAIN answered = {"objects", "keys"} /\ ReadingObjects
  BY <1>1 DEF ObjectsInv
<1>4. /\ answered.keys = None /\ todo \subseteq Objects!ObjectRows(w)
      /\ ObjectsSeen = Objects!ObjectRows(w)
      /\ \A s \in D : \A u \in todo : Before(s, u)
      /\ CurrentOK(current) /\ current.table = LastOf(infos) /\ NoKeys(infos)
      /\ Grouped(w, infos, D)
  BY <1>3 DEF ReadingObjects, ObjectsSeen
<1>5. ObjectsSeen' = Objects!ObjectRows(w)
  BY <1>1, SeenKept
<1> HIDE DEF w
<1>6. r \in todo /\ \A s \in todo : s # r => Before(r, s)
  BY <1>3, <1>4, NextIs
<1>7. /\ r \in Objects!ObjectRows(w) /\ D \subseteq Objects!ObjectRows(w) /\ r \notin D
      /\ \A s \in D : Before(s, r)
      /\ \A s \in Objects!ObjectRows(w) : s \notin D /\ s # r => Before(r, s)
      /\ Objects!ObjectRows(w) \ todo' = D \cup {r}
  BY <1>2, <1>4, <1>6
<1> HIDE DEF D
<1>8. /\ r.tab # None => r.schema
      /\ RowInfos(r) \in Seq(CatInfo) /\ NoKeys(RowInfos(r))
      /\ RowTable(r).table = LastOf(RowInfos(r))
      /\ Grouped(w, RowInfos(r), D \cup {r})
  BY <1>3, <1>4, <1>7, RowStep
<1>9. current'.table = LastOf(infos') /\ CurrentOK(current')
  BY <1>2, <1>4, <1>8 DEF CurrentOK
<1>10. ReadingObjects'
  <2>1. \A s \in D \cup {r} : \A u \in todo' : Before(s, u)
    BY <1>2, <1>4, <1>6
  <2>2. todo' \subseteq ObjectsSeen' /\ ObjectsSeen' \ todo' = D \cup {r} /\ answered'.objects = w
    BY <1>1, <1>2, <1>4, <1>5, <1>7 DEF w
  <2>3. Grouped(answered'.objects, infos', ObjectsSeen' \ todo') /\ NoKeys(infos')
    BY <1>2, <1>8, <2>2
  <2>4. \A s \in ObjectsSeen' \ todo' : \A u \in todo' : Before(s, u)
    BY <2>1, <2>2
  <2> QED
    BY <1>1, <1>4, <1>9, <2>2, <2>3, <2>4, GroupedKept
<1>11. pc' = "objects"
  BY <1>1, <1>2, <1>8
<1>12. infos' \in Seq(CatInfo)
  BY <1>2, <1>8
<1> QED
  BY <1>1, <1>3, <1>10, <1>11, <1>12 DEF ObjectsInv, w

LEMMA QueryConstraintsKeeps ==
  ASSUME ObjectsInv, Objects!QueryConstraints
  PROVE  ObjectsInv'
<1>1. /\ pc = "objects" /\ todo = {} /\ world' = world /\ request' = request /\ infos' = infos
      /\ \/ /\ pc' = "constraints" /\ todo' = Objects!ConstraintRows(world)
            /\ current' = Objects!NoCurrent /\ answered' = [answered EXCEPT !.keys = world]
         \/ pc' = "send" /\ answered' = answered
  BY DEF Objects!QueryConstraints
<1>2. /\ Objects!IsWorld(answered.objects) /\ Objects!IsWorld(world) /\ infos \in Seq(CatInfo)
      /\ DOMAIN answered = {"objects", "keys"} /\ ReadingObjects
  BY <1>1 DEF ObjectsInv
<1>3. /\ answered.keys = None /\ NoKeys(infos) /\ Grouped(answered.objects, infos, ObjectsSeen)
  <2>1. ObjectsSeen \ todo = ObjectsSeen
    BY <1>1
  <2> QED
    BY <1>2, <2>1 DEF ReadingObjects
<1>4. answered'.objects = answered.objects /\ DOMAIN answered' = {"objects", "keys"}
  BY <1>1, <1>2
<1>5. AllGrouped'
  <2>1. ObjectsSeen' = ObjectsSeen
    BY <1>1, <1>4, SeenKept DEF ObjectsSeen
  <2> QED
    BY <1>1, <1>3, <1>4, <2>1, GroupedKept
<1>6. CASE pc' = "constraints" /\ todo' = Objects!ConstraintRows(world)
             /\ current' = Objects!NoCurrent /\ answered' = [answered EXCEPT !.keys = world]
  <2>1. answered'.keys = world
    BY <1>2, <1>6
  <2>2. KeysSeen' = todo' /\ KeysSeen' \ todo' = {}
    BY <1>1, <1>6, <2>1, SeenKept
  <2>3. CurrentOK(current') /\ CurrentRead(infos', current')
    BY <1>6 DEF Objects!NoCurrent, CurrentOK, CurrentRead
  <2>4. KeysListed(answered'.keys, infos', KeysSeen' \ todo')
    BY <1>1, <1>3, <2>2, NoKeysListed
  <2>5. ReadingKeys'
    BY <1>2, <2>1, <2>2, <2>3, <2>4 DEF ReadingKeys
  <2> QED
    BY <1>1, <1>2, <1>4, <1>5, <1>6, <2>5 DEF ObjectsInv
<1>7. CASE pc' = "send" /\ answered' = answered
  BY <1>1, <1>2, <1>3, <1>4, <1>5, <1>7 DEF ObjectsInv
<1> QED
  BY <1>1, <1>6, <1>7

LEMMA ReadConstraintKeeps ==
  ASSUME ObjectsInv, Objects!ReadConstraint
  PROVE  ObjectsInv'
<1>1. /\ pc = "constraints" /\ world' = world /\ request' = request /\ pc' = pc
      /\ answered' = answered
  BY DEF Objects!ReadConstraint
<1>2. PICK r \in Objects!NextRows(Objects!ConstraintKey) :
        /\ todo' = todo \ {r}
        /\ \/ RowKey(r).table = Objects!NoPlace /\ current' = RowKey(r) /\ infos' = infos
           \/ /\ RowKey(r).table # Objects!NoPlace
              /\ infos' = RowList(r) /\ current' = RowCurrent(r)
  BY DEF Objects!ReadConstraint, RowKey, RowChange, RowList, RowCurrent
<1> DEFINE w == answered.keys
           o == answered.objects
           D == KeysSeen \ todo
<1>3. /\ Objects!IsWorld(o) /\ Objects!IsWorld(world) /\ infos \in Seq(CatInfo)
      /\ DOMAIN answered = {"objects", "keys"} /\ ReadingKeys /\ AllGrouped
  BY <1>1 DEF ObjectsInv
<1>4. /\ Objects!IsWorld(w) /\ todo \subseteq Objects!ConstraintRows(w)
      /\ KeysSeen = Objects!ConstraintRows(w)
      /\ \A s \in D : \A u \in todo : KeyBefore(s, u)
      /\ KeysListed(w, infos, D)
      /\ CurrentOK(current) /\ CurrentRead(infos, current)
      /\ \A s \in D : \A u \in todo :
           s.cat = u.cat /\ s.tab = u.tab => current.key = <<u.cat, u.tab>>
  BY <1>3 DEF ReadingKeys, KeysSeen
<1>5. /\ KeysSeen' = Objects!ConstraintRows(w) /\ ObjectsSeen' = Objects!ObjectRows(o)
      /\ Grouped(o, infos, Objects!ObjectRows(o))
      /\ answered'.keys = w /\ answered'.objects = o
  BY <1>1, <1>3, SeenKept DEF AllGrouped, ObjectsSeen
<1> HIDE DEF w, o
<1>6. r \in todo /\ \A s \in todo : s # r => KeyBefore(r, s)
  BY <1>2, <1>4, NextKeyIs
<1>7. /\ r \in Objects!ConstraintRows(w) /\ D \subseteq Objects!ConstraintRows(w) /\ r \notin D
      /\ \A s \in D : KeyBefore(s, r)
      /\ \A s \in Objects!ConstraintRows(w) : s \notin D /\ s # r => KeyBefore(r, s)
      /\ \A s \in D : s.cat = r.cat /\ s.tab = r.tab => current.key = <<r.cat, r.tab>>
      /\ Objects!ConstraintRows(w) \ todo' = D \cup {r}
  BY <1>2, <1>4, <1>6
<1> HIDE DEF D
<1>8. /\ infos' \in Seq(CatInfo) /\ Grouped(o, infos', Objects!ObjectRows(o))
      /\ KeysListed(w, infos', D \cup {r})
      /\ CurrentOK(current') /\ current'.key = <<r.cat, r.tab>> /\ CurrentRead(infos', current')
  <2>1. CASE RowKey(r).table = Objects!NoPlace /\ current' = RowKey(r) /\ infos' = infos
    <3>1. KeysListed(w, infos, D \cup {r}) /\ CurrentRead(infos, RowKey(r))
      BY <1>3, <1>4, <1>5, <1>7, <2>1, KeyStepSkips
    <3>2. CurrentOK(RowKey(r)) /\ RowKey(r).key = <<r.cat, r.tab>>
      BY <1>3, <1>4, <1>5, <1>7, RowKeyIs
    <3> QED
      BY <1>3, <1>5, <2>1, <3>1, <3>2
  <2>2. CASE RowKey(r).table # Objects!NoPlace /\ infos' = RowList(r) /\ current' = RowCurrent(r)
    <3>1. /\ RowList(r) \in Seq(CatInfo) /\ Grouped(o, RowList(r), Objects!ObjectRows(o))
          /\ KeysListed(w, RowList(r), D \cup {r})
          /\ CurrentOK(RowCurrent(r)) /\ RowCurrent(r).key = <<r.cat, r.tab>>
          /\ CurrentRead(RowList(r), RowCurrent(r))
      BY <1>3, <1>4, <1>5, <1>7, <2>2, KeyStepAdds
    <3> QED
      BY <2>2, <3>1
  <2> QED
    BY <1>2, <2>1, <2>2
<1>9. ReadingKeys'
  <2>1. KeysSeen' \ todo' = D \cup {r} /\ todo' \subseteq KeysSeen'
    BY <1>2, <1>4, <1>5, <1>7
  <2>2. \A s \in D \cup {r} : \A u \in todo' : KeyBefore(s, u)
    BY <1>2, <1>4, <1>6
  <2>3. ASSUME NEW s \in D \cup {r}, NEW u \in todo', s.cat = u.cat, s.tab = u.tab
        PROVE  current'.key = <<u.cat, u.tab>>
    <3>1. r.cat = u.cat /\ r.tab = u.tab
      <4>1. CASE s = r
        BY <2>3, <4>1
      <4>2. CASE s # r
        <5>1. /\ s \in D /\ s \in Objects!ConstraintRows(w) /\ u \in Objects!ConstraintRows(w)
              /\ KeyBefore(s, r) /\ KeyBefore(r, u)
          BY <1>2, <1>4, <1>6, <1>7, <4>2
        <5> QED
          BY <1>4, <1>7, <2>3, <5>1, KeyBetween
      <4> QED
        BY <4>1, <4>2
    <3> QED
      BY <1>8, <3>1
  <2>4. KeysListed(answered'.keys, infos', KeysSeen' \ todo')
    BY <1>5, <1>8, <2>1
  <2> QED
    BY <1>4, <1>5, <1>8, <2>1, <2>2, <2>3, <2>4 DEF ReadingKeys
<1>10. AllGrouped'
  BY <1>1, <1>5, <1>8, GroupedKept
<1> QED
  BY <1>1, <1>3, <1>5, <1>8, <1>9, <1>10 DEF ObjectsInv, o

(* The lists stay: the other steps.                                        *)
LEMMA ListsKept ==
  ASSUME request' = request, answered' = answered, infos' = infos
  PROVE  /\ AllGrouped' <=> AllGrouped
         /\ KeysSeen' = KeysSeen /\ ObjectsSeen' = ObjectsSeen
<1>1. KeysSeen' = KeysSeen /\ ObjectsSeen' = ObjectsSeen
  BY SeenKept DEF KeysSeen, ObjectsSeen
<1> QED
  BY <1>1, GroupedKept DEF AllGrouped

LEMMA ConstraintsReadKeeps ==
  ASSUME ObjectsInv, Objects!ConstraintsRead
  PROVE  ObjectsInv'
<1>1. /\ pc = "constraints" /\ todo = {} /\ pc' = "send" /\ world' = world /\ request' = request
      /\ answered' = answered /\ infos' = infos
  BY DEF Objects!ConstraintsRead
<1>2. /\ Objects!IsWorld(answered.objects) /\ Objects!IsWorld(world) /\ infos \in Seq(CatInfo)
      /\ DOMAIN answered = {"objects", "keys"} /\ AllGrouped /\ ReadingKeys
  BY <1>1 DEF ObjectsInv
<1>3. Objects!IsWorld(answered.keys) /\ KeysListed(answered.keys, infos, KeysSeen)
  <2>1. KeysSeen \ todo = KeysSeen
    BY <1>1
  <2> QED
    BY <1>2, <2>1 DEF ReadingKeys
<1> QED
  BY <1>1, <1>2, <1>3, ListsKept DEF ObjectsInv

LEMMA SendKeeps ==
  ASSUME ObjectsInv, Objects!SendInfo \/ Objects!BuildReader
  PROVE  ObjectsInv'
<1>1. /\ pc = "send" /\ pc' \in {"send", "returned"} /\ world' = world /\ request' = request
      /\ answered' = answered /\ infos' = infos
  BY DEF Objects!SendInfo, Objects!BuildReader
<1>2. /\ Objects!IsWorld(answered.objects) /\ Objects!IsWorld(world) /\ infos \in Seq(CatInfo)
      /\ DOMAIN answered = {"objects", "keys"} /\ AllGrouped
      /\ answered.keys # None =>
           Objects!IsWorld(answered.keys) /\ KeysListed(answered.keys, infos, KeysSeen)
  BY <1>1 DEF ObjectsInv
<1> QED
  BY <1>1, <1>2, ListsKept DEF ObjectsInv

LEMMA QueryFailsKeeps ==
  ASSUME ObjectsInv, Objects!QueryFails
  PROVE  ObjectsInv'
BY DEF ObjectsInv, Objects!QueryFails

LEMMA OthersChangeKeeps ==
  ASSUME ObjectsInv, Objects!OthersChange
  PROVE  ObjectsInv'
<1>1. /\ pc = "objects" /\ pc' = pc /\ Objects!IsWorld(world') /\ request' = request
      /\ answered' = answered /\ infos' = infos /\ todo' = todo /\ current' = current
  BY ObjectsAssumption DEF Objects!OthersChange
<1>2. /\ Objects!IsWorld(answered.objects) /\ infos \in Seq(CatInfo)
      /\ DOMAIN answered = {"objects", "keys"} /\ ReadingObjects
  BY <1>1 DEF ObjectsInv
<1>3. ReadingObjects'
  BY <1>1, <1>2, ListsKept, GroupedKept DEF ReadingObjects
<1> QED
  BY <1>1, <1>2, <1>3 DEF ObjectsInv

LEMMA ObjectsNextPreserves ==
  ASSUME ObjectsInv, [Objects!Next]_(Objects!vars)
  PROVE  ObjectsInv'
<1>1. CASE Objects!QueryObjects
  BY <1>1, QueryObjectsKeeps
<1>2. CASE Objects!ReadObject
  BY <1>2, ReadObjectKeeps
<1>3. CASE Objects!QueryConstraints
  BY <1>3, QueryConstraintsKeeps
<1>4. CASE Objects!ReadConstraint
  BY <1>4, ReadConstraintKeeps
<1>5. CASE Objects!ConstraintsRead
  BY <1>5, ConstraintsReadKeeps
<1>6. CASE Objects!SendInfo \/ Objects!BuildReader
  BY <1>6, SendKeeps
<1>7. CASE Objects!QueryFails
  BY <1>7, QueryFailsKeeps
<1>8. CASE Objects!OthersChange
  BY <1>8, OthersChangeKeeps
<1>9. CASE UNCHANGED Objects!vars
  <2>1. /\ pc' = pc /\ world' = world /\ request' = request /\ answered' = answered
        /\ infos' = infos /\ todo' = todo /\ current' = current
    BY <1>9 DEF Objects!vars
  <2>2. ReadingObjects' <=> ReadingObjects
    BY <2>1, ListsKept, GroupedKept DEF ReadingObjects
  <2>3. ReadingKeys' <=> ReadingKeys
    BY <2>1, ListsKept DEF ReadingKeys
  <2> QED
    BY <2>1, <2>2, <2>3, ListsKept DEF ObjectsInv
<1> QED
  BY <1>1, <1>2, <1>3, <1>4, <1>5, <1>6, <1>7, <1>8, <1>9 DEF Objects!Next, Objects!Call

LEMMA ObjectsHolds ==
  ASSUME ObjectsInv
  PROVE  Objects!ObjectsExact
<1> SUFFICES ASSUME pc \in {"constraints", "send", "returned"}
             PROVE  /\ {infos[i].cat : i \in 1 .. Len(infos)} =
                         answered.objects.catalogs \cap request.cats
                    /\ \A i, j \in 1 .. Len(infos) : infos[i].cat = infos[j].cat => i = j
                    /\ \A i \in 1 .. Len(infos) :
                         /\ Objects!ListedTables(i) =
                              Objects!ExpectedTables(answered.objects, infos[i].cat)
                         /\ \A j, k \in 1 .. Len(infos[i].tables) :
                              infos[i].tables[j].tab = infos[i].tables[k].tab => j = k
  BY DEF Objects!ObjectsExact
<1>1. /\ Objects!IsWorld(answered.objects) /\ infos \in Seq(CatInfo)
      /\ Grouped(answered.objects, infos, Objects!ObjectRows(answered.objects))
  BY DEF ObjectsInv, AllGrouped, ObjectsSeen
<1> QED
  BY <1>1, ExactWhenGrouped

LEMMA ConstraintsHold ==
  ASSUME ObjectsInv
  PROVE  Objects!ConstraintsExact
<1> SUFFICES ASSUME pc \in {"send", "returned"}, answered.keys # None,
                    NEW i \in 1 .. Len(infos), NEW j \in 1 .. Len(infos[i].tables)
             PROVE  LET t == infos[i].tables[j]
                        w == answered.keys
                    IN  IF \E u \in w.tables : /\ u.cat = infos[i].cat /\ u.tab = t.tab
                                               /\ u.type \in request.types
                          THEN /\ Objects!ToSet(t.keys) = Objects!ExpectedKeys(w, infos[i].cat, t.tab)
                               /\ Objects!IsInjective(t.keys)
                          ELSE t.keys = <<>>
  BY DEF Objects!ConstraintsExact
<1>1. /\ Objects!IsWorld(answered.objects) /\ infos \in Seq(CatInfo)
      /\ Grouped(answered.objects, infos, Objects!ObjectRows(answered.objects))
      /\ Objects!IsWorld(answered.keys)
      /\ KeysListed(answered.keys, infos, Objects!ConstraintRows(answered.keys))
  BY DEF ObjectsInv, AllGrouped, ObjectsSeen, KeysSeen
<1> QED
  BY <1>1, KeysExact

-----------------------------------------------------------------------------
(* The calls together: each keeps its own invariant, and the variables of  *)
(* the other calls stay as they are.                                       *)

(* Where the reading of an ENUM declaration may be.                        *)
ValuesPlaces == {"between", "value", "after", "done", "error"}

MetadataInv ==
  /\ which \in {"statistics", "schema", "objects", "values"}
  /\ which = "statistics" => StatisticsInv
  /\ which # "statistics" => NoStatistics
  /\ which = "schema"     => SchemaInv
  /\ which = "objects"    => ObjectsInv
  /\ which = "values"     => pc \in ValuesPlaces

LEMMA MetadataInitHolds == MetadataInit => MetadataInv
<1> SUFFICES ASSUME MetadataInit PROVE MetadataInv
  OBVIOUS
<1>1. CASE which = "statistics" /\ Init
  BY <1>1, InitHolds DEF MetadataInv
<1>2. CASE which = "objects" /\ Objects!Init /\ NoStatistics
  BY <1>2, ObjectsInitHolds DEF MetadataInv
<1>3. CASE which = "schema" /\ Schema!Init /\ NoStatistics
  BY <1>3, SchemaInitHolds DEF MetadataInv
<1>4. CASE which = "values" /\ Values!Init /\ NoStatistics
  BY <1>4 DEF MetadataInv, Values!Init, ValuesPlaces
<1> QED
  BY <1>1, <1>2, <1>3, <1>4 DEF MetadataInit

LEMMA ValuesPlacesKept ==
  ASSUME pc \in ValuesPlaces, Values!Next
  PROVE  pc' \in ValuesPlaces
BY DEF ValuesPlaces, Values!Next, Values!Between, Values!InValue, Values!AfterValue, Values!Fails

LEMMA MetadataStays ==
  ASSUME MetadataInv, UNCHANGED metadataVars
  PROVE  MetadataInv'
<1>1. UNCHANGED vars /\ UNCHANGED Objects!vars /\ UNCHANGED Schema!vars /\ UNCHANGED <<which, pc>>
      /\ UNCHANGED <<statisticsVars>>
  BY DEF metadataVars, vars, Objects!vars, Schema!vars, statisticsVars, objectsVars, schemaVars
<1>2. which = "statistics" => StatisticsInv'
  BY <1>1, StatisticsNextPreserves DEF MetadataInv
<1>3. which = "objects" => ObjectsInv'
  BY <1>1, ObjectsNextPreserves DEF MetadataInv
<1>4. which = "schema" => SchemaInv'
  BY <1>1, SchemaStays DEF MetadataInv
<1>5. NoStatistics' = NoStatistics
  BY <1>1 DEF NoStatistics, statisticsVars
<1> QED
  BY <1>1, <1>2, <1>3, <1>4, <1>5 DEF MetadataInv

LEMMA MetadataNextPreserves == MetadataInv /\ [MetadataNext]_metadataVars => MetadataInv'
<1> SUFFICES ASSUME MetadataInv, [MetadataNext]_metadataVars PROVE MetadataInv'
  OBVIOUS
<1>1. CASE which = "statistics" /\ Next /\ UNCHANGED which
  BY <1>1, StatisticsNextPreserves DEF MetadataInv
<1>2. CASE which = "objects" /\ Objects!Next /\ UNCHANGED <<which, statisticsVars>>
  <2>1. ObjectsInv'
    BY <1>2, ObjectsNextPreserves DEF MetadataInv
  <2>2. NoStatistics'
    BY <1>2 DEF MetadataInv, NoStatistics, statisticsVars
  <2> QED
    BY <1>2, <2>1, <2>2 DEF MetadataInv
<1>3. CASE which = "schema" /\ Schema!Next /\ UNCHANGED <<which, statisticsVars>>
  <2>1. SchemaInv'
    BY <1>3, SchemaNextPreserves DEF MetadataInv
  <2>2. NoStatistics'
    BY <1>3 DEF MetadataInv, NoStatistics, statisticsVars
  <2> QED
    BY <1>3, <2>1, <2>2 DEF MetadataInv
<1>4. CASE which = "values" /\ Values!Next /\ UNCHANGED <<which, statisticsVars>>
  <2>1. pc' \in ValuesPlaces
    BY <1>4, ValuesPlacesKept DEF MetadataInv
  <2>2. NoStatistics'
    BY <1>4 DEF MetadataInv, NoStatistics, statisticsVars
  <2> QED
    BY <1>4, <2>1, <2>2 DEF MetadataInv
<1>5. CASE UNCHANGED metadataVars
  BY <1>5, MetadataStays
<1>6. MetadataNext \/ UNCHANGED metadataVars
  OBVIOUS
<1>7. CASE MetadataNext
  <2>1. \/ which = "statistics" /\ Next /\ UNCHANGED which
        \/ which = "objects" /\ Objects!Next /\ UNCHANGED <<which, statisticsVars>>
        \/ which = "schema" /\ Schema!Next /\ UNCHANGED <<which, statisticsVars>>
        \/ which = "values" /\ Values!Next /\ UNCHANGED <<which, statisticsVars>>
    BY <1>7 DEF MetadataNext
  <2> QED
    BY <2>1, <1>1, <1>2, <1>3, <1>4
<1> QED
  BY <1>5, <1>6, <1>7

(* Every call keeps its invariant, whatever other sessions do.             *)
THEOREM MetadataInvariant == MetadataSpec => []MetadataInv
BY MetadataInitHolds, MetadataNextPreserves, PTL DEF MetadataSpec

(* No metadata call panics: GetStatistics writes to no map that is not     *)
(* there, and GetObjects puts no table under a schema it has not listed.   *)
THEOREM MetadataNeverPanics == MetadataSpec => []NoPanic
<1>1. MetadataInv => NoPanic
  BY DEF MetadataInv, StatisticsInv, StatisticsTypes, SchemaInv, ObjectsInv, ValuesPlaces, NoPanic
<1> QED
  BY MetadataInvariant, <1>1, PTL

(* GetObjects lists every catalog, table and column its filters match,     *)
(* once, in its place and in order, for every schema and every request.    *)
THEOREM ObjectsAlwaysExact == MetadataSpec => []ObjectsExact
<1>1. MetadataInv => ObjectsExact
  BY ObjectsHolds DEF MetadataInv, ObjectsExact
<1> QED
  BY MetadataInvariant, <1>1, PTL

(* GetObjects gives every table it lists the constraints of the second     *)
(* query, each once and with its columns in order, even if other sessions  *)
(* create, alter or drop tables between the two queries.                   *)
THEOREM ConstraintsAlwaysExact == MetadataSpec => []ConstraintsExact
<1>1. MetadataInv => ConstraintsExact
  BY ConstraintsHold DEF MetadataInv, ConstraintsExact
<1> QED
  BY MetadataInvariant, <1>1, PTL

(* GetTableSchema, the schema of a result set and GetObjects give a column *)
(* the same type, for every column the server may describe.                *)
THEOREM SchemasAlwaysAgree == MetadataSpec => []SchemasAgree
<1>1. MetadataInv => SchemasAgree
  BY AgreeHolds DEF MetadataInv, SchemasAgree
<1> QED
  BY MetadataInvariant, <1>1, PTL

(* GetTableSchema takes a column for JSON exactly if the constraints said  *)
(* so when its second query was answered.                                  *)
THEOREM JsonAlwaysExact == MetadataSpec => []JsonExact
<1>1. MetadataInv => JsonExact
  BY JsonHolds DEF MetadataInv, JsonExact
<1> QED
  BY MetadataInvariant, <1>1, PTL

(* A table that an ingest created shows, for every Arrow type of the       *)
(* stream, the type the ingest stores it as.                               *)
THEOREM IngestTypesAlwaysKept == MetadataSpec => []IngestTypesKept
<1>1. MetadataInv => IngestTypesKept
  BY IngestHolds DEF MetadataInv, IngestTypesKept
<1> QED
  BY MetadataInvariant, <1>1, PTL

-----------------------------------------------------------------------------
(* Values of an ENUM or SET.                                               *)

(* A set of numbers that is not empty has a least one.                     *)
LEMMA LeastOf ==
  ASSUME NEW S \in SUBSET Nat, S # {}
  PROVE  \E j \in S : \A h \in S : j <= h
<1> DEFINE R == {p \in Nat \X Nat : p[1] < p[2]}
<1>1. IsWellFoundedOn(R, Nat)
  BY NatLessThanWellFounded DEF OpToRel
<1>2. PICK j \in S : \A h \in S : <<h, j>> \notin R
  BY <1>1, WFMin, Zenon
<1>3. ASSUME NEW h \in S PROVE j <= h
  <2>1. <<h, j>> \in Nat \X Nat /\ <<h, j>> \notin R
    BY <1>2
  <2> QED
    BY <2>1
<1> QED
  BY <1>3

(* What FlattenSeq makes of a sequence, without the recursion: end[k] is   *)
(* where its k-th part ends.                                               *)
Ends(parts, end) ==
  /\ end \in [0 .. Len(parts) -> Nat] /\ end[0] = 0
  /\ \A k \in 1 .. Len(parts) : end[k] = end[k - 1] + Len(parts[k])

PlacedIn(flat, parts, end) ==
  /\ Len(flat) = end[Len(parts)]
  /\ \A k \in 1 .. Len(parts) : \A x \in 1 .. Len(parts[k]) :
       end[k - 1] + x <= Len(flat) /\ flat[end[k - 1] + x] = parts[k][x]

Flattened(f, parts) ==
  f = [k \in 1 .. Len(parts) |-> IF k = 1 THEN parts[k] ELSE f[k - 1] \o parts[k]]

(* The functions of the recursion up to k.                                 *)
Concatenates(f, parts, k) ==
  \A m \in 1 .. k : f[m] = IF m = 1 THEN parts[m] ELSE f[m - 1] \o parts[m]

Upto(f, parts, k) == f = [m \in 1 .. k |-> f[m]] /\ Concatenates(f, parts, k)

(* Each of the concatenations is the one before it with a text added.      *)
LEMMA UptoAt ==
  ASSUME NEW parts, NEW n \in Nat, NEW f, Upto(f, parts, n), NEW k \in 1 .. n
  PROVE  /\ k = 1 => f[k] = parts[k]
         /\ k # 1 => k - 1 \in 1 .. n /\ f[k] = f[k - 1] \o parts[k]
<1>1. Concatenates(f, parts, n)
  BY DEF Upto
<1>2. f[k] = IF k = 1 THEN parts[k] ELSE f[k - 1] \o parts[k]
  BY <1>1 DEF Concatenates
<1>3. k # 1 => k - 1 \in 1 .. n
  OBVIOUS
<1> QED
  BY <1>2, <1>3

(* One more text is put behind those concatenated.                         *)
LEMMA UptoMore ==
  ASSUME NEW parts, NEW k \in Nat, NEW f, Upto(f, parts, k)
  PROVE  \E g : Upto(g, parts, k + 1)
<1> DEFINE next == IF k + 1 = 1 THEN parts[k + 1] ELSE f[k] \o parts[k + 1]
           g    == [m \in 1 .. k + 1 |-> IF m <= k THEN f[m] ELSE next]
<1>1. g = [m \in 1 .. k + 1 |-> g[m]]
  OBVIOUS
<1>2. \A m \in 1 .. k : g[m] = f[m]
  OBVIOUS
<1>3. g[k + 1] = next
  OBVIOUS
<1> HIDE DEF g
<1>4. ASSUME NEW m \in 1 .. k + 1
      PROVE  g[m] = IF m = 1 THEN parts[m] ELSE g[m - 1] \o parts[m]
  <2>1. CASE m <= k
    <3>1. m \in 1 .. k /\ (m # 1 => m - 1 \in 1 .. k)
      BY <2>1
    <3>2. g[m] = f[m] /\ (m # 1 => g[m - 1] = f[m - 1])
      BY <1>2, <3>1
    <3> QED
      BY <3>1, <3>2 DEF Upto, Concatenates
  <2>2. CASE m = k + 1
    <3>1. m # 1 => m - 1 = k /\ k \in 1 .. k
      BY <2>2
    <3>2. m # 1 => g[m - 1] = f[k]
      BY <1>2, <3>1
    <3> QED
      BY <1>3, <2>2, <3>2
  <2> QED
    BY <2>1, <2>2
<1> QED
  BY <1>1, <1>4 DEF Upto, Concatenates

(* There is a concatenation of the first k texts, for every k: otherwise   *)
(* there were a least k without one.                                       *)
LEMMA UptoExists ==
  ASSUME NEW parts, NEW n \in Nat
  PROVE  \E f : Upto(f, parts, n)
<1> DEFINE S == {k \in Nat : ~\E f : Upto(f, parts, k)}
<1> SUFFICES ASSUME S # {} PROVE FALSE
  OBVIOUS
<1>1. PICK k \in S : \A h \in S : k <= h
  BY LeastOf
<1>2. CASE k = 0
  <2>1. Upto([m \in {} |-> 0], parts, 0)
    BY DEF Upto, Concatenates
  <2> QED
    BY <1>2, <2>1
<1>3. CASE k # 0
  <2>1. k - 1 \in Nat /\ k - 1 \notin S
    BY <1>1, <1>3
  <2>2. PICK f : Upto(f, parts, k - 1)
    BY <2>1
  <2>3. \E g : Upto(g, parts, (k - 1) + 1)
    BY <2>1, <2>2, UptoMore
  <2> QED
    BY <2>3
<1> QED
  BY <1>2, <1>3

(* FlattenSeq is the last of those concatenations.                         *)
LEMMA FlattenIs ==
  ASSUME NEW parts, Len(parts) \in Nat \ {0}
  PROVE  \E f : Upto(f, parts, Len(parts)) /\ Values!FlattenSeq(parts) = f[Len(parts)]
<1>1. PICK g : Upto(g, parts, Len(parts))
  BY UptoExists
<1>2. g = [k \in 1 .. Len(parts) |-> g[k]]
  BY <1>1 DEF Upto, Concatenates
<1>3. Flattened(g, parts)
  BY <1>1, <1>2 DEF Upto, Concatenates, Flattened
<1> DEFINE f == CHOOSE h : Flattened(h, parts)
<1>4. Flattened(f, parts)
  BY <1>3
<1>5. Values!FlattenSeq(parts) = f[Len(parts)]
  BY DEF Values!FlattenSeq, Flattened
<1> HIDE DEF f
<1>6. Upto(f, parts, Len(parts))
  <2> DEFINE e == [k \in 1 .. Len(parts) |-> IF k = 1 THEN parts[k] ELSE f[k - 1] \o parts[k]]
  <2>1. \A k \in 1 .. Len(parts) : e[k] = IF k = 1 THEN parts[k] ELSE f[k - 1] \o parts[k]
    OBVIOUS
  <2>2. e = [k \in 1 .. Len(parts) |-> e[k]]
    OBVIOUS
  <2>3. f = e
    BY <1>4 DEF Flattened
  <2> HIDE DEF e
  <2>4. f = [k \in 1 .. Len(parts) |-> f[k]]
    BY <2>2, <2>3
  <2>5. Concatenates(f, parts, Len(parts))
    BY <2>1, <2>3 DEF Concatenates
  <2> QED
    BY <2>4, <2>5 DEF Upto
<1> QED
  BY <1>5, <1>6

(* Where the parts lie.                                                    *)
LEMMA EndsOf ==
  ASSUME NEW S, NEW parts \in Seq(Seq(S)), NEW f, Upto(f, parts, Len(parts))
  PROVE  /\ \A k \in 1 .. Len(parts) : f[k] \in Seq(S)
         /\ Ends(parts, [k \in 0 .. Len(parts) |-> IF k = 0 THEN 0 ELSE Len(f[k])])
<1> DEFINE n == Len(parts)
<1>0. n \in Nat /\ \A k \in 1 .. n : parts[k] \in Seq(S)
  OBVIOUS
<1>1. \A k \in 1 .. n : f[k] \in Seq(S)
  <2> DEFINE T == {k \in 1 .. n : f[k] \notin Seq(S)}
  <2> SUFFICES ASSUME T # {} PROVE FALSE
    OBVIOUS
  <2>1. PICK k \in T : \A h \in T : k <= h
    <3>1. T \in SUBSET Nat
      OBVIOUS
    <3> QED
      BY <3>1, LeastOf
  <2>2. f[k] = IF k = 1 THEN parts[k] ELSE f[k - 1] \o parts[k]
    BY DEF Upto, Concatenates
  <2>3. k # 1 => k - 1 \in 1 .. n /\ k - 1 \notin T
    BY <2>1
  <2>4. k # 1 => f[k - 1] \in Seq(S)
    BY <2>3
  <2>5. f[k] \in Seq(S)
    BY <1>0, <2>2, <2>4
  <2> QED
    BY <2>5
<1> DEFINE end == [k \in 0 .. n |-> IF k = 0 THEN 0 ELSE Len(f[k])]
<1>2. end \in [0 .. n -> Nat] /\ end[0] = 0 /\ \A k \in 1 .. n : end[k] = Len(f[k])
  BY <1>0, <1>1
<1> HIDE DEF end
<1>3. ASSUME NEW k \in 1 .. n PROVE end[k] = end[k - 1] + Len(parts[k])
  <2>1. f[k] = IF k = 1 THEN parts[k] ELSE f[k - 1] \o parts[k]
    BY DEF Upto, Concatenates
  <2>2. CASE k = 1
    <3>1. f[k] = parts[k] /\ Len(parts[k]) \in Nat
      BY <1>0, <2>1, <2>2
    <3> QED
      BY <1>2, <2>2, <3>1
  <2>3. CASE k # 1
    <3>1. k - 1 \in 1 .. n
      BY <2>3
    <3>2. f[k - 1] \in Seq(S) /\ parts[k] \in Seq(S)
      BY <1>0, <1>1, <3>1
    <3>3. Len(f[k]) = Len(f[k - 1]) + Len(parts[k])
      BY <2>1, <2>3, <3>2
    <3> QED
      BY <1>2, <3>1, <3>3
  <2> QED
    BY <2>2, <2>3
<1>4. Ends(parts, end)
  BY <1>2, <1>3 DEF Ends
<1> QED
  BY <1>1, <1>4 DEF end

(* An earlier part of the concatenation stays as it is.                    *)
LEMMA PartsStay ==
  ASSUME NEW S, NEW parts \in Seq(Seq(S)), NEW f, Upto(f, parts, Len(parts)),
         NEW k \in 1 .. Len(parts), NEW x \in 1 .. Len(f[k])
  PROVE  \A m \in k .. Len(parts) : x \in 1 .. Len(f[m]) /\ f[m][x] = f[k][x]
<1> DEFINE n == Len(parts)
           T == {m \in k .. n : ~(x \in 1 .. Len(f[m]) /\ f[m][x] = f[k][x])}
<1>0. n \in Nat /\ (\A m \in 1 .. n : parts[m] \in Seq(S)) /\ \A m \in 1 .. n : f[m] \in Seq(S)
  <2>1. \A m \in 1 .. n : f[m] \in Seq(S)
    BY EndsOf
  <2> QED
    BY <2>1
<1> SUFFICES ASSUME T # {} PROVE FALSE
  OBVIOUS
<1>1. PICK m \in T : \A h \in T : m <= h
  <2>1. T \in SUBSET Nat
    OBVIOUS
  <2> QED
    BY <2>1, LeastOf
<1>2. m # k
  OBVIOUS
<1>3. m \in 1 .. n /\ m - 1 \in k .. n /\ m - 1 \in 1 .. n /\ m # 1
  BY <1>2
<1>4. x \in 1 .. Len(f[m - 1]) /\ f[m - 1][x] = f[k][x]
  BY <1>1, <1>3
<1>5. f[m] = f[m - 1] \o parts[m]
  BY <1>3 DEF Upto, Concatenates
<1>6. f[m - 1] \in Seq(S) /\ parts[m] \in Seq(S)
  BY <1>0, <1>3
<1>7. x \in 1 .. Len(f[m]) /\ f[m][x] = f[m - 1][x]
  <2> DEFINE a == f[m - 1]  b == parts[m]
  <2>1. a \in Seq(S) /\ b \in Seq(S) /\ x \in 1 .. Len(a)
    BY <1>4, <1>6
  <2> HIDE DEF a, b
  <2>2. x \in 1 .. Len(a \o b) /\ (a \o b)[x] = a[x]
    BY <2>1
  <2> QED
    BY <1>5, <2>2 DEF a, b
<1> QED
  BY <1>4, <1>7

(* A concatenation is the parts, one after the other.                      *)
LEMMA FlattenPlaced ==
  ASSUME NEW S, NEW parts \in Seq(Seq(S))
  PROVE  /\ Values!FlattenSeq(parts) \in Seq(S)
         /\ \E end : Ends(parts, end) /\ PlacedIn(Values!FlattenSeq(parts), parts, end)
<1>1. CASE Len(parts) = 0
  <2>1. Values!FlattenSeq(parts) = parts /\ parts = <<>>
    BY <1>1 DEF Values!FlattenSeq
  <2>2. Ends(parts, [k \in 0 .. 0 |-> 0]) /\ PlacedIn(parts, parts, [k \in 0 .. 0 |-> 0])
    BY <1>1 DEF Ends, PlacedIn
  <2> QED
    BY <2>1, <2>2
<1>2. CASE Len(parts) # 0
  <2> DEFINE n == Len(parts)
  <2>0. n \in Nat \ {0} /\ \A k \in 1 .. n : parts[k] \in Seq(S)
    BY <1>2
  <2>1. PICK f : Upto(f, parts, n) /\ Values!FlattenSeq(parts) = f[n]
    BY <2>0, FlattenIs
  <2> DEFINE end == [k \in 0 .. n |-> IF k = 0 THEN 0 ELSE Len(f[k])]
  <2>2. (\A k \in 1 .. n : f[k] \in Seq(S)) /\ Ends(parts, end)
    BY <2>1, EndsOf
  <2>3. Len(f[n]) = end[n] /\ (\A k \in 1 .. n : end[k] = Len(f[k])) /\ end[0] = 0
    BY <2>0
  <2> HIDE DEF end
  <2>7. \A k \in 1 .. n : /\ k = 1 => f[k] = parts[k]
                          /\ k # 1 => k - 1 \in 1 .. n /\ f[k] = f[k - 1] \o parts[k]
    <3>1. n \in Nat /\ Upto(f, parts, n)
      BY <2>0, <2>1
    <3> HIDE DEF n
    <3> SUFFICES ASSUME NEW k \in 1 .. n
                 PROVE  /\ k = 1 => f[k] = parts[k]
                        /\ k # 1 => k - 1 \in 1 .. n /\ f[k] = f[k - 1] \o parts[k]
      OBVIOUS
    <3> QED
      BY <3>1, UptoAt, ZenonT(30)
  <2>4. ASSUME NEW k \in 1 .. n, NEW x \in 1 .. Len(parts[k])
        PROVE  end[k - 1] + x <= Len(f[n]) /\ f[n][end[k - 1] + x] = parts[k][x]
    <3>1. end[k] = end[k - 1] + Len(parts[k]) /\ end[k - 1] \in Nat /\ end[k] = Len(f[k])
      <4>1. k - 1 \in 0 .. n
        BY <2>0
      <4> QED
        BY <2>2, <2>3, <4>1 DEF Ends
    <3>2. f[k][end[k - 1] + x] = parts[k][x]
      <4>1. CASE k = 1
        <5>0. f[k] = parts[k]
          BY <2>7, <4>1
        <5>1. f[k] = parts[k] /\ end[k - 1] + x = x
          BY <2>3, <4>1, <5>0
        <5> QED
          BY <5>1
      <4>2. CASE k # 1
        <5> DEFINE a == f[k - 1]  b == parts[k]
        <5>1. k - 1 \in 1 .. n /\ f[k] = a \o b
          BY <2>7, <4>2
        <5>2. a \in Seq(S) /\ b \in Seq(S) /\ end[k - 1] = Len(a) /\ x \in 1 .. Len(b)
          BY <2>0, <2>2, <2>3, <5>1
        <5> HIDE DEF a, b
        <5>3. (a \o b)[Len(a) + x] = b[x]
          BY <5>2
        <5> QED
          BY <5>1, <5>2, <5>3 DEF b
      <4> QED
        BY <4>1, <4>2
    <3>3. end[k - 1] + x \in 1 .. Len(f[k])
      <4>1. Len(parts[k]) \in Nat
        BY <2>0
      <4> QED
        BY <3>1, <4>1
    <3>4. end[k - 1] + x \in 1 .. Len(f[n]) /\ f[n][end[k - 1] + x] = f[k][end[k - 1] + x]
      <4>1. n \in k .. n
        BY <2>0
      <4> QED
        BY <2>1, <3>3, <4>1, PartsStay
    <3>5. f[n] \in Seq(S)
      BY <2>0, <2>2
    <3> QED
      BY <3>2, <3>4, <3>5
  <2>5. PlacedIn(f[n], parts, end)
    BY <2>3, <2>4 DEF PlacedIn
  <2>6. f[n] \in Seq(S)
    BY <2>0, <2>2
  <2> QED
    BY <2>1, <2>2, <2>5, <2>6
<1> QED
  BY <1>1, <1>2

-----------------------------------------------------------------------------
(* A newline is read back as the letter n, a carriage return as r and NUL  *)
(* as 0; "end" stands for what is after the last character.                *)
ValuesOK == {"newline", "return", "nul", "end"} \cap Alphabet = {}

(* The characters of a declaration.                                        *)
Characters == Alphabet \cup {"quote", "backslash", "blank", "comma", "n"}

(* The server doubles a quote and a backslash, and leaves the others.      *)
LEMMA EscapedIs ==
  ASSUME ValuesOK, NEW ch \in Alphabet
  PROVE  /\ Values!Escaped(ch) =
              IF ch \in {"quote", "backslash"} THEN <<ch, ch>> ELSE <<ch>>
         /\ Values!Escaped(ch) \in Seq(Characters)
         /\ Len(Values!Escaped(ch)) = IF ch \in {"quote", "backslash"} THEN 2 ELSE 1
<1>1. ch \notin {"newline", "return", "nul"}
  BY DEF ValuesOK
<1>2. Values!Escaped(ch) = IF ch \in {"quote", "backslash"} THEN <<ch, ch>> ELSE <<ch>>
  BY <1>1 DEF Values!Escaped
<1>3. ch \in Characters
  BY DEF Characters
<1>4. <<ch, ch>> \in Seq(Characters) /\ <<ch>> \in Seq(Characters)
  BY <1>3
<1> QED
  BY <1>2, <1>4

(* The character ch is written from p on; the next is written from q on.   *)
UnitAt(J, p, ch, q) ==
  IF ch \in {"quote", "backslash"} THEN J[p] = ch /\ J[p + 1] = ch /\ q = p + 2
                                   ELSE J[p] = ch /\ q = p + 1

(* The text t lies in J between quotes; its j-th character from v[j] on.   *)
TextIn(J, t, v) ==
  /\ v \in [1 .. Len(t) + 1 -> Nat \ {0}] /\ v[1] = 2 /\ v[Len(t) + 1] = Len(J)
  /\ \A j \in 1 .. Len(t) : UnitAt(J, v[j], t[j], v[j + 1]) /\ v[j + 1] <= Len(J)
  /\ J[1] = "quote" /\ J[Len(J)] = "quote"

(* A text as the server renders it: a quote, its characters, a quote.      *)
LEMMA RenderedText ==
  ASSUME ValuesOK, NEW t \in Seq(Alphabet)
  PROVE  Values!Rendered(t) \in Seq(Characters) /\ \E v : TextIn(Values!Rendered(t), t, v)
<1> DEFINE m == Len(t)
           units == [k \in DOMAIN t |-> Values!Escaped(t[k])]
           flat == Values!FlattenSeq(units)
           J == Values!Rendered(t)
<1>1. m \in Nat /\ DOMAIN t = 1 .. m /\ \A j \in 1 .. m : t[j] \in Alphabet
  OBVIOUS
<1>2. units \in Seq(Seq(Characters)) /\ Len(units) = m /\ \A j \in 1 .. m : units[j] = Values!Escaped(t[j])
  <2>1. \A j \in 1 .. m : Values!Escaped(t[j]) \in Seq(Characters)
    BY <1>1, EscapedIs
  <2> QED
    BY <1>1, <2>1
<1> HIDE DEF units
<1>3. flat \in Seq(Characters) /\ \E end : Ends(units, end) /\ PlacedIn(flat, units, end)
  BY <1>2, FlattenPlaced
<1>4. PICK end : Ends(units, end) /\ PlacedIn(flat, units, end)
  BY <1>3
<1>5. J = <<"quote">> \o flat \o <<"quote">>
  BY DEF Values!Rendered, units
<1> HIDE DEF flat, J
<1>6. /\ Len(flat) \in Nat /\ Len(J) = Len(flat) + 2 /\ J \in Seq(Characters)
      /\ J[1] = "quote" /\ J[Len(flat) + 2] = "quote"
      /\ \A x \in 1 .. Len(flat) : J[x + 1] = flat[x]
  <2>1. "quote" \in Characters
    BY DEF Characters
  <2> QED
    BY <1>3, <1>5, <2>1
<1>7. /\ end \in [0 .. m -> Nat] /\ end[0] = 0 /\ Len(flat) = end[m]
      /\ \A j \in 1 .. m : end[j] = end[j - 1] + Len(units[j])
      /\ \A j \in 1 .. m : \A x \in 1 .. Len(units[j]) :
           end[j - 1] + x <= Len(flat) /\ flat[end[j - 1] + x] = units[j][x]
  BY <1>2, <1>4 DEF Ends, PlacedIn
<1> DEFINE v == [j \in 1 .. m + 1 |-> end[j - 1] + 2]
<1>8. v \in [1 .. m + 1 -> Nat \ {0}] /\ v[1] = 2 /\ v[m + 1] = Len(J)
  BY <1>1, <1>6, <1>7
<1>9. ASSUME NEW j \in 1 .. m PROVE UnitAt(J, v[j], t[j], v[j + 1]) /\ v[j + 1] <= Len(J)
  <2>1. v[j] = end[j - 1] + 2 /\ v[j + 1] = end[j] + 2 /\ end[j - 1] \in Nat /\ end[j] \in Nat
    BY <1>1, <1>7, SMTT(30)
  <2> HIDE DEF v
  <2>2. /\ end[j] = end[j - 1] + Len(units[j])
        /\ \A x \in 1 .. Len(units[j]) :
             end[j - 1] + x <= Len(flat) /\ flat[end[j - 1] + x] = units[j][x]
    BY <1>7
  <2>3. t[j] \in Alphabet /\ units[j] = Values!Escaped(t[j])
    BY <1>1, <1>2
  <2>4. \A x \in 1 .. Len(units[j]) : J[end[j - 1] + x + 1] = units[j][x]
    <3> SUFFICES ASSUME NEW x \in 1 .. Len(units[j]) PROVE J[end[j - 1] + x + 1] = units[j][x]
      OBVIOUS
    <3>0. x \in Nat \ {0}
      <4>1. Len(units[j]) \in Nat
        BY <2>3, EscapedIs
      <4> QED
        BY <4>1
    <3>1. end[j - 1] + x \in 1 .. Len(flat) /\ flat[end[j - 1] + x] = units[j][x]
      <4>1. end[j - 1] + x <= Len(flat) /\ flat[end[j - 1] + x] = units[j][x]
        BY <2>2
      <4> QED
        BY <1>6, <2>1, <3>0, <4>1, SMTT(30)
    <3> QED
      BY <1>6, <3>1
  <2>5. CASE t[j] \in {"quote", "backslash"}
    <3>1. units[j] = <<t[j], t[j]>> /\ Len(units[j]) = 2
      BY <2>3, <2>5, EscapedIs
    <3>2. J[end[j - 1] + 1 + 1] = t[j] /\ J[end[j - 1] + 2 + 1] = t[j]
      BY <2>4, <3>1
    <3>3. end[j] = end[j - 1] + 2 /\ end[j] <= Len(flat)
      BY <2>1, <2>2, <3>1
    <3>4. J[v[j]] = t[j] /\ J[v[j] + 1] = t[j] /\ v[j + 1] = v[j] + 2 /\ v[j + 1] <= Len(J)
      <4> DEFINE e == end[j - 1]
      <4>1. e \in Nat /\ e + 1 + 1 = e + 2 /\ e + 2 + 1 = (e + 2) + 1 /\ (e + 2) + 2 = (e + 2) + 2
        BY <2>1
      <4>2. v[j] = e + 2 /\ v[j + 1] = (e + 2) + 2 /\ end[j] = e + 2 /\ e + 2 <= Len(flat)
        BY <2>1, <3>3
      <4>3. J[e + 2] = t[j] /\ J[(e + 2) + 1] = t[j]
        BY <3>2, <4>1
      <4> HIDE DEF e
      <4> QED
        BY <1>6, <4>1, <4>2, <4>3
    <3> QED
      BY <2>5, <3>4 DEF UnitAt
  <2>6. CASE t[j] \notin {"quote", "backslash"}
    <3>1. units[j] = <<t[j]>> /\ Len(units[j]) = 1
      BY <2>3, <2>6, EscapedIs
    <3>2. J[end[j - 1] + 1 + 1] = t[j]
      BY <2>4, <3>1
    <3>3. end[j] = end[j - 1] + 1 /\ end[j] <= Len(flat)
      BY <2>1, <2>2, <3>1
    <3>4. J[v[j]] = t[j] /\ v[j + 1] = v[j] + 1 /\ v[j + 1] <= Len(J)
      <4> DEFINE e == end[j - 1]
      <4>1. e \in Nat /\ e + 1 + 1 = e + 2
        BY <2>1
      <4>2. v[j] = e + 2 /\ v[j + 1] = (e + 2) + 1 /\ end[j] = e + 1 /\ e + 1 <= Len(flat)
        BY <2>1, <3>3
      <4>3. J[e + 2] = t[j]
        BY <3>2, <4>1
      <4> HIDE DEF e
      <4> QED
        BY <1>6, <4>1, <4>2, <4>3
    <3> QED
      BY <2>6, <3>4 DEF UnitAt
  <2> QED
    BY <2>5, <2>6
<1>10. J[Len(J)] = "quote" /\ J[1] = "quote"
  BY <1>6
<1> HIDE DEF v
<1>11. TextIn(J, t, v)
  BY <1>8, <1>9, <1>10 DEF TextIn
<1> QED
  BY <1>6, <1>11 DEF J

(* The same text within a longer one, from place d on.                     *)
TextFrom(L, t, w, d, c) ==
  /\ w \in [1 .. Len(t) + 1 -> Nat \ {0}] /\ w[1] = d + 2 /\ w[Len(t) + 1] = c /\ d + 2 <= c
  /\ \A j \in 1 .. Len(t) : UnitAt(L, w[j], t[j], w[j + 1]) /\ w[j + 1] <= c
  /\ L[d + 1] = "quote" /\ L[c] = "quote"

(* A text that lies in a list is found there, further on by its offset.    *)
LEMMA TextMoved ==
  ASSUME NEW J, Len(J) \in Nat, NEW t \in Seq(Alphabet), NEW v, TextIn(J, t, v),
         NEW L, NEW d \in Nat, \A x \in 1 .. Len(J) : L[d + x] = J[x]
  PROVE  TextFrom(L, t, [j \in 1 .. Len(t) + 1 |-> d + v[j]], d, d + Len(J))
<1> DEFINE m == Len(t)
           w == [j \in 1 .. m + 1 |-> d + v[j]]
<1>1. m \in Nat
  OBVIOUS
<1>2. /\ v \in [1 .. m + 1 -> Nat \ {0}] /\ v[1] = 2 /\ v[m + 1] = Len(J)
      /\ \A j \in 1 .. m : UnitAt(J, v[j], t[j], v[j + 1]) /\ v[j + 1] <= Len(J)
      /\ J[1] = "quote" /\ J[Len(J)] = "quote"
  BY DEF TextIn
<1>3. w \in [1 .. m + 1 -> Nat \ {0}] /\ w[1] = d + 2 /\ w[m + 1] = d + Len(J)
  BY <1>1, <1>2
<1>4. ASSUME NEW j \in 1 .. m PROVE UnitAt(L, w[j], t[j], w[j + 1]) /\ w[j + 1] <= d + Len(J)
  <2>1. j \in 1 .. m + 1 /\ j + 1 \in 1 .. m + 1
    BY <1>1
  <2>2. w[j] = d + v[j] /\ w[j + 1] = d + v[j + 1]
    BY <2>1
  <2>3. v[j] \in Nat \ {0} /\ v[j + 1] \in Nat \ {0}
    BY <1>2, <2>1
  <2>4. UnitAt(J, v[j], t[j], v[j + 1]) /\ v[j + 1] <= Len(J)
    BY <1>2
  <2> DEFINE p == v[j]  q == v[j + 1]
  <2>5. UnitAt(L, d + p, t[j], d + q) /\ d + q <= d + Len(J)
    <3>1. p \in Nat \ {0} /\ q \in Nat \ {0} /\ UnitAt(J, p, t[j], q) /\ q <= Len(J)
      BY <2>3, <2>4
    <3> HIDE DEF p, q
    <3>2. CASE t[j] \in {"quote", "backslash"}
      <4>1. J[p] = t[j] /\ J[p + 1] = t[j] /\ q = p + 2
        BY <3>1, <3>2 DEF UnitAt
      <4>2. p \in 1 .. Len(J) /\ p + 1 \in 1 .. Len(J) /\ d + (p + 1) = (d + p) + 1 /\ d + q = (d + p) + 2
        BY <3>1, <4>1
      <4>3. L[d + p] = t[j] /\ L[(d + p) + 1] = t[j]
        BY <4>1, <4>2
      <4> QED
        BY <3>1, <3>2, <4>2, <4>3 DEF UnitAt
    <3>3. CASE t[j] \notin {"quote", "backslash"}
      <4>1. J[p] = t[j] /\ q = p + 1
        BY <3>1, <3>3 DEF UnitAt
      <4>2. p \in 1 .. Len(J) /\ d + q = (d + p) + 1
        <5>1. p + 1 <= Len(J) /\ p \in Nat \ {0} /\ d + (p + 1) = (d + p) + 1
          BY <3>1, <4>1
        <5> QED
          BY <4>1, <5>1
      <4>3. L[d + p] = t[j]
        BY <4>1, <4>2
      <4> QED
        BY <3>1, <3>3, <4>2, <4>3 DEF UnitAt
    <3> QED
      BY <3>2, <3>3
  <2> HIDE DEF w
  <2> QED
    BY <2>2, <2>5
<1>5. Len(J) >= 2
  <2>1. CASE m = 0
    BY <1>2, <2>1
  <2>2. CASE m # 0
    <3>1. UnitAt(J, v[1], t[1], v[2]) /\ v[2] <= Len(J) /\ v[2] \in Nat
      BY <1>1, <1>2, <2>2
    <3>2. v[2] \in {3, 4}
      BY <1>2, <3>1 DEF UnitAt
    <3> QED
      BY <3>1, <3>2
  <2> QED
    BY <2>1, <2>2
<1>6. L[d + 1] = "quote" /\ L[d + Len(J)] = "quote" /\ d + 2 <= d + Len(J)
  <2>1. 1 \in 1 .. Len(J) /\ Len(J) \in 1 .. Len(J) /\ d + 2 <= d + Len(J)
    BY <1>5
  <2>2. J[1] = "quote" /\ J[Len(J)] = "quote"
    BY <1>2
  <2> QED
    BY <2>1, <2>2
<1> HIDE DEF w
<1> QED
  BY <1>3, <1>4, <1>6 DEF TextFrom, w

(* A list of texts: the k-th one opens after place d[k] and closes at c[k];*)
(* commas, with blanks or without, lie between.                            *)
GapAt(L, p, q, spaced) ==
  IF spaced THEN L[p + 1] = "blank" /\ L[p + 2] = "comma" /\ L[p + 3] = "blank" /\ q = p + 3
            ELSE L[p + 1] = "comma" /\ q = p + 1

(* In the list L the k-th text opens at d[k] + 1 and closes at c[k].       *)
ListIn(L, texts, spaced, u, d, c) ==
  /\ \A k \in 1 .. Len(texts) :
       d[k] \in Nat /\ c[k] \in Nat /\ c[k] <= Len(L) /\ TextFrom(L, texts[k], u[k], d[k], c[k])
  /\ \A k \in 1 .. Len(texts) - 1 : GapAt(L, c[k], d[k + 1], spaced)
  /\ d[1] = 0 /\ c[Len(texts)] = Len(L)

Separator(spaced) == IF spaced THEN <<"blank", "comma", "blank">> ELSE <<"comma">>

(* What the server writes between two values.                              *)
LEMMA SeparatorIs ==
  ASSUME NEW spaced \in BOOLEAN
  PROVE  /\ Separator(spaced) \in Seq(Characters)
         /\ Len(Separator(spaced)) = IF spaced THEN 3 ELSE 1
         /\ spaced => /\ Separator(spaced)[1] = "blank" /\ Separator(spaced)[2] = "comma"
                      /\ Separator(spaced)[3] = "blank"
         /\ ~spaced => Separator(spaced)[1] = "comma"
<1>1. "blank" \in Characters /\ "comma" \in Characters
  BY DEF Characters
<1>2. <<"blank", "comma", "blank">> \in Seq(Characters) /\ <<"comma">> \in Seq(Characters)
  BY <1>1
<1> QED
  BY <1>2 DEF Separator

(* In the list the server renders, the values lie one behind the other,    *)
(* with a gap between two.                                                 *)
LEMMA ListRendered ==
  ASSUME ValuesOK, NEW texts \in Seq(Seq(Alphabet)), Len(texts) # 0, NEW spaced \in BOOLEAN
  PROVE  LET L == Values!RenderedList(texts, Separator(spaced))
         IN  L \in Seq(Characters) /\ \E u, d, c : ListIn(L, texts, spaced, u, d, c)
<1> DEFINE n == Len(texts)
           R(k) == Values!Rendered(texts[k])
           sep == Separator(spaced)
           parts == [k \in DOMAIN texts |-> IF k = 1 THEN R(k) ELSE sep \o R(k)]
           L == Values!RenderedList(texts, sep)
<1>1. n \in Nat \ {0} /\ DOMAIN texts = 1 .. n /\ \A k \in 1 .. n : texts[k] \in Seq(Alphabet)
  OBVIOUS
<1>2. \A k \in 1 .. n : R(k) \in Seq(Characters) /\ \E v : TextIn(R(k), texts[k], v)
  BY <1>1, RenderedText
<1>3. /\ sep \in Seq(Characters) /\ Len(sep) = IF spaced THEN 3 ELSE 1
      /\ spaced => sep[1] = "blank" /\ sep[2] = "comma" /\ sep[3] = "blank"
      /\ ~spaced => sep[1] = "comma"
  BY SeparatorIs
<1> HIDE DEF sep
<1>4. L = Values!FlattenSeq(parts)
  BY DEF Values!RenderedList
<1> DEFINE v == [k \in 1 .. n |-> CHOOSE v : TextIn(R(k), texts[k], v)]
<1>5. \A k \in 1 .. n : TextIn(R(k), texts[k], v[k])
  BY <1>2
<1> HIDE DEF R, v
<1>6. parts \in Seq(Seq(Characters)) /\ Len(parts) = n
  <2>1. \A k \in 1 .. n : sep \o R(k) \in Seq(Characters) /\ R(k) \in Seq(Characters)
    BY <1>2, <1>3
  <2> QED
    BY <1>1, <2>1
<1>7. \A k \in 1 .. n : parts[k] = IF k = 1 THEN R(k) ELSE sep \o R(k)
  BY <1>1
<1> HIDE DEF parts, L
<1>8. L \in Seq(Characters) /\ \E end : Ends(parts, end) /\ PlacedIn(L, parts, end)
  BY <1>4, <1>6, FlattenPlaced
<1>9. PICK end : Ends(parts, end) /\ PlacedIn(L, parts, end)
  BY <1>8
<1>10. /\ end \in [0 .. n -> Nat] /\ end[0] = 0 /\ Len(L) = end[n]
       /\ \A k \in 1 .. n : end[k] = end[k - 1] + Len(parts[k])
       /\ \A k \in 1 .. n : \A x \in 1 .. Len(parts[k]) :
            end[k - 1] + x <= Len(L) /\ L[end[k - 1] + x] = parts[k][x]
  BY <1>6, <1>9 DEF Ends, PlacedIn
<1> DEFINE d == [k \in 1 .. n |-> IF k = 1 THEN 0 ELSE end[k - 1] + Len(sep)]
           u == [k \in 1 .. n |-> [j \in 1 .. Len(texts[k]) + 1 |-> d[k] + v[k][j]]]
<1>11. ASSUME NEW k \in 1 .. n
       PROVE  /\ d[k] \in Nat /\ end[k] \in Nat /\ end[k] = d[k] + Len(R(k)) /\ end[k] <= Len(L)
              /\ \A x \in 1 .. Len(R(k)) : L[d[k] + x] = R(k)[x]
              /\ k # 1 => \A x \in 1 .. Len(sep) : L[end[k - 1] + x] = sep[x]
  <2>1. /\ k - 1 \in 0 .. n /\ end[k - 1] \in Nat /\ end[k] \in Nat /\ R(k) \in Seq(Characters)
        /\ end[k] = end[k - 1] + Len(parts[k]) /\ Len(sep) \in Nat
    <3>1. k - 1 \in 0 .. n /\ k \in 0 .. n
      BY <1>1
    <3>2. end[k - 1] \in Nat /\ end[k] \in Nat /\ end[k] = end[k - 1] + Len(parts[k])
      BY <1>10, <3>1
    <3>3. R(k) \in Seq(Characters) /\ Len(sep) \in Nat
      BY <1>2, <1>3
    <3> QED
      BY <3>1, <3>2, <3>3
  <2>2. \A x \in 1 .. Len(parts[k]) : end[k - 1] + x <= Len(L) /\ L[end[k - 1] + x] = parts[k][x]
    BY <1>10
  <2>3. Len(R(k)) \in Nat \ {0}
    <3>1. TextFrom(R(k), texts[k], [j \in 1 .. Len(texts[k]) + 1 |-> 0 + v[k][j]], 0, 0 + Len(R(k)))
      <4>1. \A x \in 1 .. Len(R(k)) : R(k)[0 + x] = R(k)[x]
        BY <2>1
      <4> QED
        <5>1. /\ Len(R(k)) \in Nat /\ texts[k] \in Seq(Alphabet)
              /\ TextIn(R(k), texts[k], v[k]) /\ 0 \in Nat
          BY <1>1, <1>5, <2>1
        <5> QED
          BY <4>1, <5>1, TextMoved
    <3> QED
      BY <2>1, <3>1 DEF TextFrom
  <2>4. CASE k = 1
    <3>1. d[k] = 0 /\ parts[k] = R(k) /\ end[k - 1] = 0
      BY <1>7, <1>10, <2>4
    <3>2. end[k] <= Len(L)
      BY <2>1, <2>2, <2>3, <3>1
    <3> HIDE DEF d
    <3> QED
      BY <2>1, <2>2, <2>4, <3>1, <3>2
  <2>5. CASE k # 1
    <3>1. d[k] = end[k - 1] + Len(sep) /\ parts[k] = sep \o R(k)
      BY <1>7, <2>5
    <3> HIDE DEF d
    <3>2. /\ Len(parts[k]) = Len(sep) + Len(R(k)) /\ (\A x \in 1 .. Len(sep) : parts[k][x] = sep[x])
          /\ \A x \in 1 .. Len(R(k)) : parts[k][Len(sep) + x] = R(k)[x]
      <4> DEFINE a == sep  b == R(k)
      <4>1. a \in Seq(Characters) /\ b \in Seq(Characters)
        BY <1>3, <2>1
      <4> HIDE DEF a, b
      <4>2. /\ Len(a \o b) = Len(a) + Len(b) /\ (\A x \in 1 .. Len(a) : (a \o b)[x] = a[x])
            /\ \A x \in 1 .. Len(b) : (a \o b)[Len(a) + x] = b[x]
        BY <4>1
      <4> QED
        BY <3>1, <4>2 DEF a, b
    <3>3. end[k] <= Len(L)
      <4>1. Len(parts[k]) \in 1 .. Len(parts[k])
        BY <2>1, <2>3, <3>2
      <4> QED
        BY <2>1, <2>2, <4>1
    <3>4. \A x \in 1 .. Len(R(k)) : L[d[k] + x] = R(k)[x]
      <4> SUFFICES ASSUME NEW x \in 1 .. Len(R(k)) PROVE L[d[k] + x] = R(k)[x]
        OBVIOUS
      <4>1. Len(sep) + x \in 1 .. Len(parts[k]) /\ end[k - 1] + (Len(sep) + x) = d[k] + x
        BY <2>1, <2>3, <3>1, <3>2, SMTT(30)
      <4> QED
        BY <2>2, <3>2, <4>1
    <3>5. \A x \in 1 .. Len(sep) : L[end[k - 1] + x] = sep[x]
      BY <2>1, <2>2, <2>3, <3>2
    <3> QED
      BY <2>1, <3>1, <3>2, <3>3, <3>4, <3>5, SMTT(30)
  <2> QED
    BY <2>4, <2>5
<1>12. ASSUME NEW k \in 1 .. n PROVE TextFrom(L, texts[k], u[k], d[k], end[k])
  <2>1. /\ d[k] \in Nat /\ end[k] = d[k] + Len(R(k)) /\ Len(R(k)) \in Nat
        /\ \A x \in 1 .. Len(R(k)) : L[d[k] + x] = R(k)[x]
    BY <1>2, <1>11
  <2>2. u[k] = [j \in 1 .. Len(texts[k]) + 1 |-> d[k] + v[k][j]]
    OBVIOUS
  <2> HIDE DEF d, u
  <2>3. TextFrom(L, texts[k], [j \in 1 .. Len(texts[k]) + 1 |-> d[k] + v[k][j]], d[k], d[k] + Len(R(k)))
    BY <1>1, <1>5, <2>1, TextMoved
  <2> QED
    BY <2>1, <2>2, <2>3
<1>13. ASSUME NEW k \in 1 .. n - 1 PROVE GapAt(L, end[k], d[k + 1], spaced)
  <2>1. k + 1 \in 1 .. n /\ k + 1 # 1 /\ (k + 1) - 1 = k /\ d[k + 1] = end[k] + Len(sep) /\ end[k] \in Nat
    <3>1. k + 1 \in 1 .. n /\ k + 1 # 1 /\ (k + 1) - 1 = k /\ k \in 0 .. n
      BY <1>1
    <3>2. d[k + 1] = end[(k + 1) - 1] + Len(sep)
      BY <3>1
    <3> QED
      BY <1>10, <3>1, <3>2
  <2> HIDE DEF d
  <2>2. \A x \in 1 .. Len(sep) : L[end[k] + x] = sep[x]
    BY <1>11, <2>1, SMTT(30)
  <2> QED
    BY <1>3, <2>1, <2>2, SMTT(30) DEF GapAt
<1>14. d[1] = 0
  BY <1>1
<1> HIDE DEF d, u
<1>15. ListIn(L, texts, spaced, u, d, end)
  BY <1>10, <1>11, <1>12, <1>13, <1>14 DEF ListIn
<1> QED
  BY <1>8, <1>15 DEF L, sep

(* The text between the parentheses, whatever it holds.                    *)
LEMMA InputOf ==
  ASSUME NEW S, NEW body \in Seq(S), columnType = <<"enum", "(">> \o body \o <<")">>
  PROVE  Values!input = body
<1> DEFINE n == Len(body)
           T == S \cup {"enum", "(", ")"}
<1>1. n \in Nat /\ body \in Seq(T) /\ <<"enum", "(">> \in Seq(T) /\ <<")">> \in Seq(T)
  <2>1. S \subseteq T /\ "enum" \in T /\ "(" \in T /\ ")" \in T
    OBVIOUS
  <2> HIDE DEF T
  <2> QED
    BY <2>1
<1> HIDE DEF T
<1>2. /\ columnType \in Seq(T) /\ Len(columnType) = n + 3 /\ DOMAIN columnType = 1 .. n + 3
      /\ columnType[1] = "enum" /\ columnType[2] = "(" /\ columnType[n + 3] = ")"
      /\ \A x \in 1 .. n : columnType[x + 2] = body[x]
  BY <1>1
<1> DEFINE opens == Values!Indices("(")  closes == Values!Indices(")")
           open  == CHOOSE k \in opens : \A m \in opens : k <= m
           close == CHOOSE k \in closes : \A m \in closes : k >= m
<1>3. open = 2
  <2>1. 2 \in opens /\ opens \subseteq Nat /\ \A m \in opens : 2 <= m
    BY <1>1, <1>2 DEF Values!Indices
  <2> HIDE DEF opens
  <2>2. open \in opens /\ \A m \in opens : open <= m
    BY <2>1
  <2>3. open <= 2 /\ 2 <= open /\ open \in Nat
    BY <2>1, <2>2
  <2> HIDE DEF open
  <2> QED
    BY <2>3
<1>4. close = n + 3
  <2>1. n + 3 \in closes /\ closes \subseteq Nat /\ \A m \in closes : n + 3 >= m
    BY <1>1, <1>2 DEF Values!Indices
  <2> HIDE DEF closes
  <2>2. close \in closes /\ \A m \in closes : close >= m
    BY <2>1
  <2>3. close <= n + 3 /\ n + 3 <= close /\ close \in Nat
    BY <2>1, <2>2
  <2> HIDE DEF close
  <2> QED
    BY <1>1, <2>3
<1>5. Values!input = SubSeq(columnType, 3, n + 2)
  <2>1. Values!input = SubSeq(columnType, open + 1, close - 1)
    BY DEF Values!input
  <2> HIDE DEF open, close
  <2>2. open + 1 = 3 /\ close - 1 = n + 2
    BY <1>1, <1>3, <1>4
  <2> QED
    BY <2>1, <2>2
<1>6. SubSeq(columnType, 3, n + 2) = body
  <2> DEFINE sub == SubSeq(columnType, 3, n + 2)
  <2>1. sub \in Seq(T) /\ Len(sub) = n /\ \A x \in 1 .. n : sub[x] = columnType[x + 2]
    BY <1>1, <1>2
  <2> HIDE DEF sub
  <2>2. \A x \in 1 .. n : sub[x] = body[x]
    BY <1>2, <2>1
  <2> HIDE DEF n
  <2>3. sub = [x \in 1 .. n |-> sub[x]] /\ body = [x \in 1 .. n |-> body[x]]
    BY <1>1, <2>1 DEF n
  <2>4. sub = body
    BY <2>2, <2>3
  <2> QED
    BY <2>4 DEF sub
<1> QED
  BY <1>5, <1>6

(* What the parser sees of the list L of the values.                       *)
Whole == form \in {"plain", "spaced"}

(* How much of the list is there.                                          *)
Length(L) == IF form = "cut" THEN Len(L) - 1 ELSE Len(L)

(* What the parser is given of the list.                                   *)
Shows(L) ==
  /\ Len(L) \in Nat
  /\ Len(Values!input) = IF form = "suffixed" THEN Length(L) + 1 ELSE Length(L)
  /\ \A x \in 1 .. Length(L) : Values!input[x] = L[x]
  /\ form = "suffixed" => Values!input[Length(L) + 1] = "n"

(* The values of a column are texts over the alphabet.                     *)
LEMMA TextsTyped ==
  ASSUME NEW t \in Values!Texts
  PROVE  t \in Seq(Alphabet)
<1>1. PICK n \in 0 .. MaxLength : t \in [1 .. n -> Alphabet]
  BY DEF Values!Texts
<1> QED
  BY <1>1, ValuesAssumption

(* The parser is given the list, cut or with text beside it if the form    *)
(* says so.                                                                *)
LEMMA DeclaredShows ==
  ASSUME ValuesOK, Values!Init
  PROVE  /\ declared \in Seq(Seq(Alphabet)) /\ Len(declared) # 0 /\ form \in Values!Forms
         /\ form = "prefixed" => Len(Values!input) \in Nat \ {0} /\ Values!input[1] = "n"
         /\ form # "prefixed" =>
              \E L, u, d, c : ListIn(L, declared, form = "spaced", u, d, c) /\ Shows(L)
<1>1. PICK n \in 1 .. MaxValues : declared \in [1 .. n -> Values!Texts]
  BY DEF Values!Init
<1>2. declared \in Seq(Seq(Alphabet)) /\ Len(declared) # 0
  <2>1. \A k \in 1 .. n : declared[k] \in Seq(Alphabet)
    BY <1>1, TextsTyped
  <2>2. n \in Nat \ {0}
    BY ValuesAssumption
  <2> QED
    BY <1>1, <2>1, <2>2
<1>3. form \in Values!Forms /\ columnType = Values!Declaration(declared, form)
  BY DEF Values!Init
<1> DEFINE spaced == form = "spaced"
           L == Values!RenderedList(declared, Separator(spaced))
           body == CASE form \in {"plain", "spaced"} -> L
                     [] form = "cut"      -> Values!Front(L)
                     [] form = "prefixed" -> <<"n">> \o L
                     [] form = "suffixed" -> L \o <<"n">>
<1>4. columnType = <<"enum", "(">> \o body \o <<")">>
  BY <1>3 DEF Values!Declaration, Separator
<1>5. L \in Seq(Characters) /\ \E u, d, c : ListIn(L, declared, spaced, u, d, c)
  BY <1>2, ListRendered
<1> HIDE DEF L, spaced
<1>6. "n" \in Characters
  BY DEF Characters
<1>7. Len(L) \in Nat \ {0}
  <2>1. PICK u, d, c : ListIn(L, declared, spaced, u, d, c)
    BY <1>5
  <2>2. Len(declared) \in 1 .. Len(declared)
    BY <1>2
  <2>3. c[Len(declared)] = Len(L) /\ d[Len(declared)] \in Nat /\ d[Len(declared)] + 2 <= c[Len(declared)]
    BY <2>1, <2>2 DEF ListIn, TextFrom
  <2> QED
    BY <1>5, <2>3
<1>8. /\ body \in Seq(Characters)
      /\ form = "prefixed" => Len(body) \in Nat \ {0} /\ body[1] = "n"
      /\ form # "prefixed" =>
           /\ Len(body) = IF form = "suffixed" THEN Length(L) + 1 ELSE Length(L)
           /\ \A x \in 1 .. Length(L) : body[x] = L[x]
           /\ form = "suffixed" => body[Length(L) + 1] = "n"
  <2>1. CASE form \in {"plain", "spaced"}
    BY <1>5, <2>1 DEF Length
  <2>2. CASE form = "cut"
    <3>1. body = SubSeq(L, 1, Len(L) - 1)
      BY <2>2 DEF Values!Front
    <3> HIDE DEF body
    <3>2. /\ SubSeq(L, 1, Len(L) - 1) \in Seq(Characters) /\ Len(SubSeq(L, 1, Len(L) - 1)) = Len(L) - 1
          /\ \A x \in 1 .. Len(L) - 1 : SubSeq(L, 1, Len(L) - 1)[x] = L[x]
      <4>0. Len(L) - 1 \in Nat /\ Len(L) - 1 <= Len(L)
        BY <1>7
      <4>1. PICK m \in Nat : m = Len(L) - 1 /\ m <= Len(L)
        BY <4>0
      <4>2. /\ SubSeq(L, 1, m) \in Seq(Characters) /\ Len(SubSeq(L, 1, m)) = m
            /\ \A x \in 1 .. m : SubSeq(L, 1, m)[x] = L[x]
        BY <1>5, <4>1
      <4> QED
        BY <4>1, <4>2, Zenon
    <3> QED
      BY <2>2, <3>1, <3>2 DEF Length
  <2>3. CASE form = "prefixed"
    <3>1. body = <<"n">> \o L
      BY <2>3
    <3> HIDE DEF body
    <3> QED
      BY <1>5, <1>6, <2>3, <3>1
  <2>4. CASE form = "suffixed"
    <3>1. body = L \o <<"n">>
      BY <2>4
    <3> HIDE DEF body
    <3> QED
      BY <1>5, <1>6, <2>4, <3>1 DEF Length
  <2> QED
    BY <1>3, <2>1, <2>2, <2>3, <2>4 DEF Values!Forms
<1> HIDE DEF body
<1>9. Values!input = body
  BY <1>4, <1>8, InputOf
<1>10. form # "prefixed" => Shows(L)
  BY <1>7, <1>8, <1>9 DEF Shows
<1> QED
  BY <1>2, <1>3, <1>5, <1>8, <1>9, <1>10 DEF spaced

(* The parser reads a list that lies as u, d and c say.                    *)
Listed(L, u, d, c) ==
  /\ declared \in Seq(Seq(Alphabet)) /\ Len(declared) # 0
  /\ form \in Values!Forms /\ form # "prefixed"
  /\ ListIn(L, declared, form = "spaced", u, d, c) /\ Shows(L)

(* What is seen where the k-th value opens.                                *)
LEMMA SeenOpen ==
  ASSUME NEW L, NEW u, NEW d, NEW c, Listed(L, u, d, c), NEW k \in 1 .. Len(declared)
  PROVE  /\ Values!At(d[k] + 1) = "quote" /\ u[k][1] = d[k] + 2 /\ d[k] \in Nat
         /\ c[k] \in Nat /\ d[k] + 2 <= c[k] /\ c[k] <= Len(L) /\ Len(L) \in Nat
         /\ Len(L) - 1 <= Length(L) /\ Length(L) <= Len(L) /\ Length(L) \in Int
         /\ Length(L) <= Len(Values!input) /\ Len(Values!input) \in Int
<1>1. /\ d[k] \in Nat /\ c[k] \in Nat /\ c[k] <= Len(L) /\ d[k] + 2 <= c[k]
      /\ L[d[k] + 1] = "quote" /\ u[k][1] = d[k] + 2
  BY DEF Listed, ListIn, TextFrom
<1>2. Len(L) \in Nat /\ Len(Values!input) = IF form = "suffixed" THEN Length(L) + 1 ELSE Length(L)
  BY DEF Listed, Shows
<1>3. Len(L) - 1 <= Length(L) /\ Length(L) \in Int /\ Length(L) <= Len(L)
  BY <1>2 DEF Length
<1>4. Length(L) <= Len(Values!input) /\ Len(Values!input) \in Int
  BY <1>2, <1>3
<1>5. d[k] + 1 \in 1 .. Length(L)
  BY <1>1, <1>2, <1>3, SMTT(30)
<1>6. Values!input[d[k] + 1] = "quote"
  BY <1>1, <1>5 DEF Listed, Shows
<1>7. Values!At(d[k] + 1) = "quote"
  <2>1. d[k] + 1 <= Len(Values!input)
    BY <1>1, <1>3, <1>4, <1>5
  <2> QED
    BY <1>6, <2>1 DEF Values!At
<1> QED
  BY <1>1, <1>2, <1>3, <1>4, <1>7

(* Where its j-th character is written.                                    *)
LEMMA SeenUnit ==
  ASSUME NEW L, NEW u, NEW d, NEW c, Listed(L, u, d, c), NEW k \in 1 .. Len(declared),
         NEW j \in 1 .. Len(declared[k])
  PROVE  /\ declared[k][j] \in Alphabet /\ u[k][j] \in Nat \ {0}
         /\ Values!At(u[k][j]) = declared[k][j]
         /\ declared[k][j] \in {"quote", "backslash"} =>
              /\ Values!At(u[k][j] + 1) = declared[k][j] /\ u[k][j] < Len(Values!input)
              /\ u[k][j + 1] = u[k][j] + 2
         /\ declared[k][j] \notin {"quote", "backslash"} => u[k][j + 1] = u[k][j] + 1
<1> DEFINE p == u[k][j]  q == u[k][j + 1]  ch == declared[k][j]  I == Values!input
<1>1. declared[k] \in Seq(Alphabet) /\ ch \in Alphabet /\ Len(declared[k]) \in Nat
  BY DEF Listed
<1>2. /\ u[k] \in [1 .. Len(declared[k]) + 1 -> Nat \ {0}]
      /\ UnitAt(L, p, ch, q) /\ q <= c[k]
  BY DEF Listed, ListIn, TextFrom
<1>3. p \in Nat \ {0} /\ q \in Nat \ {0}
  <2>1. j \in 1 .. Len(declared[k]) + 1 /\ j + 1 \in 1 .. Len(declared[k]) + 1
    BY <1>1
  <2> QED
    BY <1>2, <2>1
<1>4. /\ c[k] \in Nat /\ c[k] <= Len(L) /\ Len(L) \in Nat /\ Len(L) - 1 <= Length(L)
      /\ Length(L) \in Int /\ Length(L) <= Len(I) /\ Len(I) \in Int
  BY SeenOpen
<1>5. \A x \in 1 .. Length(L) : I[x] = L[x]
  BY DEF Listed, Shows
<1> HIDE DEF p, q, ch, I
<1>6. \A x \in 1 .. Length(L) : Values!At(x) = L[x]
  <2> SUFFICES ASSUME NEW x \in 1 .. Length(L) PROVE Values!At(x) = L[x]
    OBVIOUS
  <2>1. x <= Len(I)
    BY <1>4
  <2> QED
    BY <1>5, <2>1 DEF Values!At, I
<1>7. CASE ch \in {"quote", "backslash"}
  <2>1. L[p] = ch /\ L[p + 1] = ch /\ q = p + 2
    BY <1>2, <1>7 DEF UnitAt
  <2>2. p \in 1 .. Length(L) /\ p + 1 \in 1 .. Length(L) /\ p < Len(I)
    <3>1. p + 2 <= c[k]
      BY <1>2, <2>1
    <3>2. p + 1 <= Length(L)
      BY <1>3, <1>4, <3>1
    <3> QED
      BY <1>3, <1>4, <3>2
  <2> QED
    BY <1>1, <1>3, <1>6, <1>7, <2>1, <2>2 DEF p, q, ch, I
<1>8. CASE ch \notin {"quote", "backslash"}
  <2>1. L[p] = ch /\ q = p + 1
    BY <1>2, <1>8 DEF UnitAt
  <2>2. p \in 1 .. Length(L)
    BY <1>2, <1>3, <1>4, <2>1
  <2> QED
    BY <1>1, <1>3, <1>6, <1>8, <2>1, <2>2 DEF p, q, ch, I
<1> QED
  BY <1>7, <1>8

(* A gap before a value lies within the list.                              *)
LEMMA GapFits ==
  ASSUME NEW a \in Nat, NEW a0 \in Nat, a0 + 2 <= a, NEW b \in Nat, NEW e \in Nat, b + 2 <= e,
         NEW l \in Nat, e <= l, NEW m \in Int, l - 1 <= m, NEW g \in Nat, b = a + g
  PROVE  \A x \in 0 .. g : a + x \in 1 .. m
OBVIOUS

(* Where it closes, before the next one.                                   *)
LEMMA SeenClose ==
  ASSUME NEW L, NEW u, NEW d, NEW c, Listed(L, u, d, c), NEW k \in 1 .. Len(declared) - 1
  PROVE  /\ k \in 1 .. Len(declared) /\ k + 1 \in 1 .. Len(declared)
         /\ Values!At(c[k]) = "quote" /\ c[k] \in Nat
         /\ u[k][Len(declared[k]) + 1] = c[k]
         /\ form = "spaced" => /\ Values!At(c[k] + 1) = "blank" /\ Values!At(c[k] + 2) = "comma"
                               /\ Values!At(c[k] + 3) = "blank" /\ d[k + 1] = c[k] + 3
         /\ form # "spaced" => Values!At(c[k] + 1) = "comma" /\ d[k + 1] = c[k] + 1
<1> DEFINE n == Len(declared)  I == Values!input
<1>1. n \in Nat /\ k \in 1 .. n /\ k + 1 \in 1 .. n
  BY DEF Listed
<1>2. /\ c[k] \in Nat /\ Len(L) \in Nat /\ Len(L) - 1 <= Length(L)
      /\ Length(L) \in Int /\ Length(L) <= Len(I) /\ Len(I) \in Int /\ d[k] + 2 <= c[k]
      /\ d[k] \in Nat
  BY <1>1, SeenOpen
<1>3. d[k + 1] \in Nat /\ c[k + 1] \in Nat /\ d[k + 1] + 2 <= c[k + 1] /\ c[k + 1] <= Len(L)
  BY <1>1, SeenOpen
<1>4. L[c[k]] = "quote" /\ u[k][Len(declared[k]) + 1] = c[k] /\ GapAt(L, c[k], d[k + 1], form = "spaced")
  BY <1>1 DEF Listed, ListIn, TextFrom
<1>5. \A x \in 1 .. Length(L) : I[x] = L[x]
  BY DEF Listed, Shows
<1> HIDE DEF I
<1>6. \A x \in 1 .. Length(L) : Values!At(x) = L[x]
  <2> SUFFICES ASSUME NEW x \in 1 .. Length(L) PROVE Values!At(x) = L[x]
    OBVIOUS
  <2>1. x <= Len(I)
    BY <1>2
  <2> QED
    BY <1>5, <2>1 DEF Values!At, I
<1>7. CASE form = "spaced"
  <2>1. /\ L[c[k] + 1] = "blank" /\ L[c[k] + 2] = "comma" /\ L[c[k] + 3] = "blank"
        /\ d[k + 1] = c[k] + 3
    BY <1>4, <1>7 DEF GapAt
  <2>2. /\ c[k] \in 1 .. Length(L) /\ c[k] + 1 \in 1 .. Length(L)
        /\ c[k] + 2 \in 1 .. Length(L) /\ c[k] + 3 \in 1 .. Length(L)
    <3>1. \A x \in 0 .. 3 : c[k] + x \in 1 .. Length(L)
      BY <1>2, <1>3, <2>1, GapFits
    <3>2. c[k] + 0 = c[k]
      BY <1>2
    <3>3. 0 \in 0 .. 3 /\ 1 \in 0 .. 3 /\ 2 \in 0 .. 3 /\ 3 \in 0 .. 3
      OBVIOUS
    <3> QED
      BY <3>1, <3>2, <3>3, Zenon
  <2> QED
    BY <1>1, <1>2, <1>4, <1>6, <1>7, <2>1, <2>2
<1>8. CASE form # "spaced"
  <2>1. L[c[k] + 1] = "comma" /\ d[k + 1] = c[k] + 1
    BY <1>4, <1>8 DEF GapAt
  <2>2. c[k] \in 1 .. Length(L) /\ c[k] + 1 \in 1 .. Length(L)
    <3>1. \A x \in 0 .. 1 : c[k] + x \in 1 .. Length(L)
      BY <1>2, <1>3, <2>1, GapFits
    <3>2. c[k] + 0 = c[k]
      BY <1>2
    <3>3. 0 \in 0 .. 1 /\ 1 \in 0 .. 1
      OBVIOUS
    <3> QED
      BY <3>1, <3>2, <3>3, Zenon
  <2> QED
    BY <1>1, <1>2, <1>4, <1>6, <1>8, <2>1, <2>2
<1> QED
  BY <1>7, <1>8

(* Where the last one closes, or is broken off.                            *)
LEMMA SeenEnd ==
  ASSUME NEW L, NEW u, NEW d, NEW c, Listed(L, u, d, c), NEW n, n = Len(declared)
  PROVE  /\ n \in 1 .. Len(declared) /\ n \in Nat /\ c[n] \in Nat
         /\ u[n][Len(declared[n]) + 1] = c[n]
         /\ Values!At(c[n]) = IF form = "cut" THEN "end" ELSE "quote"
         /\ form # "cut" => Values!At(c[n] + 1) = IF Whole THEN "end" ELSE "n"
         /\ Whole => c[n] = Len(Values!input)
<1> DEFINE I == Values!input
<1>1. n \in Nat /\ n \in 1 .. Len(declared)
  BY DEF Listed
<1>2. /\ c[n] \in Nat /\ Len(L) \in Nat /\ d[n] + 2 <= c[n] /\ d[n] \in Nat
  BY <1>1, SeenOpen
<1>3. L[c[n]] = "quote" /\ u[n][Len(declared[n]) + 1] = c[n] /\ c[n] = Len(L)
  BY <1>1 DEF Listed, ListIn, TextFrom
<1>4. /\ Len(I) = IF form = "suffixed" THEN Length(L) + 1 ELSE Length(L)
      /\ \A x \in 1 .. Length(L) : I[x] = L[x]
      /\ form = "suffixed" => I[Length(L) + 1] = "n"
  BY DEF Listed, Shows
<1>5. Values!Forms = {"plain", "spaced", "cut", "prefixed", "suffixed"} /\ form \in Values!Forms
  BY DEF Listed, Values!Forms
<1> HIDE DEF I
<1>6. CASE form = "cut"
  <2>1. Len(I) = Len(L) - 1 /\ ~(c[n] <= Len(I))
    BY <1>2, <1>3, <1>4, <1>6 DEF Length
  <2>2. Values!At(c[n]) = "end"
    BY <2>1 DEF Values!At, I
  <2> QED
    BY <1>1, <1>2, <1>3, <1>6, <2>2 DEF Whole
<1>7. CASE form # "cut"
  <2>1. Length(L) = c[n] /\ c[n] \in 1 .. Length(L)
    BY <1>2, <1>3, <1>7 DEF Length
  <2>2. c[n] <= Len(I) /\ I[c[n]] = "quote"
    BY <1>2, <1>3, <1>4, <2>1
  <2>3. Values!At(c[n]) = "quote"
    BY <2>2 DEF Values!At, I
  <2>4. CASE form = "suffixed"
    <3>1. c[n] + 1 <= Len(I) /\ I[c[n] + 1] = "n"
      BY <1>2, <1>4, <2>1, <2>4
    <3>2. Values!At(c[n] + 1) = "n"
      BY <3>1 DEF Values!At, I
    <3> QED
      BY <1>1, <1>2, <1>3, <1>7, <2>3, <2>4, <3>2 DEF Whole
  <2>5. CASE form # "suffixed"
    <3>1. Len(I) = c[n] /\ ~(c[n] + 1 <= Len(I)) /\ Whole
      BY <1>2, <1>4, <1>5, <1>7, <2>1, <2>5 DEF Whole, Listed
    <3>2. Values!At(c[n] + 1) = "end"
      BY <3>1 DEF Values!At, I
    <3> QED
      BY <1>1, <1>2, <1>3, <1>7, <2>3, <3>1, <3>2 DEF I
  <2> QED
    BY <2>4, <2>5
<1> QED
  BY <1>6, <1>7

(* The first elements of a sequence grow by one element at a time.         *)
LEMMA FirstOnes ==
  ASSUME NEW S, NEW t \in Seq(S)
  PROVE  /\ SubSeq(t, 1, 0) = <<>> /\ SubSeq(t, 1, Len(t)) = t
         /\ \A j \in 1 .. Len(t) : Append(SubSeq(t, 1, j - 1), t[j]) = SubSeq(t, 1, j)
<1>1. SubSeq(t, 1, 0) = <<>> /\ SubSeq(t, 1, Len(t)) = t
  OBVIOUS
<1>2. ASSUME NEW j \in 1 .. Len(t) PROVE Append(SubSeq(t, 1, j - 1), t[j]) = SubSeq(t, 1, j)
  OBVIOUS
<1> QED
  BY <1>1, <1>2

(* How far the parser has come: p, w, vs and q are pos, value, values and  *)
(* pc.                                                                     *)
BetweenAt(d, c, p, vs) ==
  \/ p = 1 /\ vs = <<>>
  \/ \E k \in 1 .. Len(declared) - 1 :
       vs = SubSeq(declared, 1, k) /\ p \in c[k] + 1 .. d[k + 1] + 1
  \/ Whole /\ vs = declared /\ p = c[Len(declared)] + 1

InValueAt(u, p, w, vs) ==
  \E k \in 1 .. Len(declared) : \E j \in 1 .. Len(declared[k]) + 1 :
    /\ p = u[k][j] /\ w = SubSeq(declared[k], 1, j - 1)
    /\ vs = SubSeq(declared, 1, k - 1)

AfterValueAt(c, p, vs) ==
  \/ \E k \in 1 .. Len(declared) - 1 :
       /\ vs = SubSeq(declared, 1, k)
       /\ p = c[k] + 1 \/ (form = "spaced" /\ p = c[k] + 2)
  \/ form # "cut" /\ vs = declared /\ p = c[Len(declared)] + 1

Reading(u, d, c, p, w, vs, q) ==
  /\ q \in {"between", "value", "after", "done", "error"}
  /\ q = "between" => BetweenAt(d, c, p, vs)
  /\ q = "value"   => InValueAt(u, p, w, vs)
  /\ q = "after"   => AfterValueAt(c, p, vs)
  /\ q = "done"    => Whole /\ vs = declared
  /\ q = "error"   => ~Whole

(* Each step of the parser keeps it where Reading says: between values,    *)
LEMMA BetweenStep ==
  ASSUME NEW L, NEW u, NEW d, NEW c, Listed(L, u, d, c),
         Reading(u, d, c, pos, value, values, pc), Values!Between
  PROVE  Reading(u, d, c, pos', value', values', pc')
<1> DEFINE n == Len(declared)
<1>1. /\ n \in Nat \ {0} /\ declared \in Seq(Seq(Alphabet)) /\ SubSeq(declared, 1, 0) = <<>>
      /\ 1 \in 1 .. n
  BY FirstOnes DEF Listed
<1>2. pc = "between" /\ BetweenAt(d, c, pos, values)
  BY DEF Reading, Values!Between
<1>3. ASSUME NEW k \in 1 .. n, pos = d[k] + 1, values = SubSeq(declared, 1, k - 1)
      PROVE  Reading(u, d, c, pos', value', values', pc')
  <2>1. Values!At(pos) = "quote" /\ u[k][1] = d[k] + 2 /\ d[k] \in Nat
    BY <1>3, SeenOpen
  <2>2. pos' = pos + 1 /\ value' = <<>> /\ pc' = "value" /\ values' = values
    BY <2>1 DEF Values!Between, Values!Fails
  <2>3. pos' = u[k][1]
    <3>1. (d[k] + 1) + 1 = d[k] + 2
      BY <2>1
    <3> QED
      BY <1>3, <2>1, <2>2, <3>1
  <2>4. /\ 1 \in 1 .. Len(declared[k]) + 1 /\ SubSeq(declared[k], 1, 1 - 1) = <<>>
    <3>1. declared[k] \in Seq(Alphabet)
      BY <1>1
    <3> QED
      BY <3>1, FirstOnes
  <2>5. InValueAt(u, pos', value', values')
    BY <1>3, <2>2, <2>3, <2>4 DEF InValueAt
  <2> QED
    BY <2>2, <2>5 DEF Reading
<1>4. CASE pos = 1 /\ values = <<>>
  <2>1. d[1] = 0
    BY DEF Listed, ListIn
  <2>2. pos = d[1] + 1 /\ values = SubSeq(declared, 1, 1 - 1)
    BY <1>1, <1>4, <2>1
  <2> QED
    BY <1>1, <1>3, <2>2
<1>5. ASSUME NEW k \in 1 .. n - 1, values = SubSeq(declared, 1, k), pos \in c[k] + 1 .. d[k + 1] + 1
      PROVE  Reading(u, d, c, pos', value', values', pc')
  <2>1. /\ k + 1 \in 1 .. n /\ c[k] \in Nat /\ k \in 1 .. n
        /\ form = "spaced" => /\ Values!At(c[k] + 1) = "blank" /\ Values!At(c[k] + 2) = "comma"
                              /\ Values!At(c[k] + 3) = "blank" /\ d[k + 1] = c[k] + 3
        /\ form # "spaced" => Values!At(c[k] + 1) = "comma" /\ d[k + 1] = c[k] + 1
    BY <1>5, SeenClose
  <2>2. CASE pos = d[k + 1] + 1
    <3>1. (k + 1) - 1 = k
      OBVIOUS
    <3> QED
      BY <1>3, <1>5, <2>1, <2>2, <3>1
  <2>3. CASE pos # d[k + 1] + 1
    <3>1. Values!At(pos) \in {"blank", "comma"}
      <4>1. CASE form = "spaced"
        <5>1. pos \in {c[k] + 1, c[k] + 2, c[k] + 3}
          <6>1. ASSUME NEW a \in Nat, NEW x \in a + 1 .. (a + 3) + 1, x # (a + 3) + 1
                PROVE  x \in {a + 1, a + 2, a + 3}
            BY <6>1
          <6>2. pos \in c[k] + 1 .. (c[k] + 3) + 1 /\ pos # (c[k] + 3) + 1
            BY <1>5, <2>1, <2>3, <4>1
          <6> QED
            BY <2>1, <6>1, <6>2
        <5> QED
          BY <2>1, <4>1, <5>1
      <4>2. CASE form # "spaced"
        <5>1. pos = c[k] + 1
          BY <1>5, <2>1, <2>3, <4>2
        <5> QED
          BY <2>1, <4>2, <5>1
      <4> QED
        BY <4>1, <4>2
    <3>2. pos' = pos + 1 /\ values' = values /\ pc' = "between"
      BY <1>2, <3>1 DEF Values!Between, Values!Fails
    <3>3. d[k + 1] \in Nat
      BY <2>1, SeenOpen
    <3>4. pos' \in c[k] + 1 .. d[k + 1] + 1
      <4>1. pos + 1 \in c[k] + 1 .. d[k + 1] + 1
        BY <1>5, <2>1, <2>3, <3>3, SMTT(30)
      <4> QED
        BY <3>2, <4>1
    <3>5. BetweenAt(d, c, pos', values')
      BY <1>5, <3>2, <3>4 DEF BetweenAt
    <3> QED
      BY <3>2, <3>5 DEF Reading
  <2> QED
    BY <2>2, <2>3
<1>6. CASE Whole /\ values = declared /\ pos = c[n] + 1
  <2>1. form # "cut"
    BY <1>6 DEF Whole
  <2>2. Values!At(pos) = "end"
    BY <1>6, <2>1, SeenEnd
  <2>3. pc' = "done" /\ values' = values
    BY <2>2 DEF Values!Between, Values!Fails
  <2> QED
    BY <1>6, <2>3 DEF Reading
<1> QED
  BY <1>2, <1>4, <1>5, <1>6 DEF BetweenAt

(* within a value,                                                         *)
LEMMA InValueStep ==
  ASSUME ValuesOK, NEW L, NEW u, NEW d, NEW c, Listed(L, u, d, c),
         Reading(u, d, c, pos, value, values, pc), Values!InValue
  PROVE  Reading(u, d, c, pos', value', values', pc')
<1> DEFINE n == Len(declared)
<1>1. n \in Nat \ {0} /\ declared \in Seq(Seq(Alphabet))
  BY DEF Listed
<1>2. pc = "value" /\ InValueAt(u, pos, value, values)
  BY DEF Reading, Values!InValue
<1>0. PICK k \in 1 .. n : \E j \in 1 .. Len(declared[k]) + 1 :
        /\ pos = u[k][j] /\ value = SubSeq(declared[k], 1, j - 1)
        /\ values = SubSeq(declared, 1, k - 1)
  BY <1>2 DEF InValueAt
<1>3. PICK j \in 1 .. Len(declared[k]) + 1 :
        /\ pos = u[k][j] /\ value = SubSeq(declared[k], 1, j - 1)
        /\ values = SubSeq(declared, 1, k - 1)
  BY <1>0
<1>4. declared[k] \in Seq(Alphabet) /\ Len(declared[k]) \in Nat
  BY <1>1
<1>5. CASE j # Len(declared[k]) + 1
  <2>1. j \in 1 .. Len(declared[k]) /\ j + 1 \in 1 .. Len(declared[k]) + 1 /\ (j + 1) - 1 = j
    BY <1>4, <1>5
  <2> DEFINE ch == declared[k][j]
  <2>2. /\ ch \in Alphabet /\ pos \in Nat \ {0} /\ Values!At(pos) = ch
        /\ ch \in {"quote", "backslash"} =>
             /\ Values!At(pos + 1) = ch /\ pos < Len(Values!input)
             /\ u[k][j + 1] = pos + 2
        /\ ch \notin {"quote", "backslash"} => u[k][j + 1] = pos + 1
    BY <1>3, <2>1, SeenUnit
  <2>3. Append(value, ch) = SubSeq(declared[k], 1, j)
    BY <1>3, <1>4, <2>1, FirstOnes
  <2> HIDE DEF ch
  <2>4. ch # "end"
    BY <2>2 DEF ValuesOK
  <2>5. /\ value' = Append(value, ch) /\ values' = values /\ pc' = "value"
        /\ pos' = u[k][j + 1]
    <3>1. CASE ch = "backslash"
      BY <1>2, <2>2, <3>1 DEF Values!InValue, Values!Doubled, Values!Fails
    <3>2. CASE ch = "quote"
      <4>1. Values!Doubled /\ Values!At(pos) = "quote"
        BY <2>2, <3>2 DEF Values!Doubled
      <4> QED
        BY <1>2, <2>2, <3>2, <4>1 DEF Values!InValue, Values!Fails
    <3>3. CASE ch \notin {"quote", "backslash"}
      BY <1>2, <2>2, <2>4, <3>3 DEF Values!InValue, Values!Doubled, Values!Fails
    <3> QED
      BY <3>1, <3>2, <3>3
  <2>6. value' = SubSeq(declared[k], 1, (j + 1) - 1)
    BY <2>1, <2>3, <2>5
  <2>7. InValueAt(u, pos', value', values')
    BY <1>3, <2>1, <2>5, <2>6 DEF InValueAt
  <2> QED
    BY <2>5, <2>7 DEF Reading
<1>6. CASE j = Len(declared[k]) + 1 /\ k # n
  <2>1. k \in 1 .. n - 1
    BY <1>1, <1>6
  <2>2. /\ Values!At(c[k]) = "quote" /\ u[k][Len(declared[k]) + 1] = c[k]
        /\ Values!At(c[k] + 1) # "quote"
    BY <2>1, SeenClose
  <2>3. pos = c[k] /\ Values!At(pos) = "quote" /\ ~Values!Doubled
    BY <1>3, <1>6, <2>2 DEF Values!Doubled
  <2>4. values' = Append(values, value) /\ pos' = c[k] + 1 /\ pc' = "after"
    BY <2>3 DEF Values!InValue, Values!Fails
  <2>5. value = declared[k]
    <3>1. (Len(declared[k]) + 1) - 1 = Len(declared[k])
      BY <1>4
    <3> QED
      BY <1>3, <1>4, <1>6, <3>1, FirstOnes
  <2>6. values' = SubSeq(declared, 1, k)
    <3>1. Append(SubSeq(declared, 1, k - 1), declared[k]) = SubSeq(declared, 1, k)
      <4> HIDE DEF n
      <4>1. declared \in Seq(Seq(Alphabet)) /\ k \in 1 .. Len(declared)
        BY <1>1, <1>0 DEF n
      <4> QED
        BY <4>1, FirstOnes, Zenon
    <3> QED
      BY <1>3, <2>4, <2>5, <3>1
  <2>7. AfterValueAt(c, pos', values')
    BY <2>1, <2>4, <2>6 DEF AfterValueAt
  <2> QED
    BY <2>4, <2>7 DEF Reading
<1>7. CASE j = Len(declared[k]) + 1 /\ k = n
  <2>1. /\ u[n][Len(declared[n]) + 1] = c[n]
        /\ Values!At(c[n]) = IF form = "cut" THEN "end" ELSE "quote"
        /\ form # "cut" => Values!At(c[n] + 1) = IF Whole THEN "end" ELSE "n"
    BY SeenEnd
  <2>2. pos = c[n]
    BY <1>3, <1>7, <2>1
  <2>3. CASE form = "cut"
    <3>1. Values!At(pos) = "end"
      BY <2>1, <2>2, <2>3
    <3>2. pc' = "error"
      BY <3>1 DEF Values!InValue, Values!Fails, Values!Doubled
    <3> QED
      BY <2>3, <3>2 DEF Reading, Whole
  <2>4. CASE form # "cut"
    <3>1. Values!At(pos) = "quote" /\ ~Values!Doubled
      BY <2>1, <2>2, <2>4 DEF Values!Doubled
    <3>2. values' = Append(values, value) /\ pos' = c[n] + 1 /\ pc' = "after"
      BY <2>2, <3>1 DEF Values!InValue, Values!Fails
    <3>3. value = declared[n]
      <4>1. (Len(declared[n]) + 1) - 1 = Len(declared[n])
        BY <1>4, <1>7
      <4> QED
        BY <1>3, <1>4, <1>7, <4>1, FirstOnes
    <3>4. values' = declared
      <4>1. Append(SubSeq(declared, 1, n - 1), declared[n]) = SubSeq(declared, 1, n) /\ SubSeq(declared, 1, n) = declared
        <5>1. declared \in Seq(Seq(Alphabet)) /\ n \in 1 .. n
          BY <1>1
        <5> QED
          BY <5>1, FirstOnes, Zenon
      <4> QED
        BY <1>3, <1>7, <3>2, <3>3, <4>1
    <3>5. AfterValueAt(c, pos', values')
      BY <2>4, <3>2, <3>4 DEF AfterValueAt
    <3> QED
      BY <3>2, <3>5 DEF Reading
  <2> QED
    BY <2>3, <2>4
<1> QED
  BY <1>5, <1>6, <1>7

(* and after a value.                                                      *)
LEMMA AfterValueStep ==
  ASSUME NEW L, NEW u, NEW d, NEW c, Listed(L, u, d, c),
         Reading(u, d, c, pos, value, values, pc), Values!AfterValue
  PROVE  Reading(u, d, c, pos', value', values', pc')
<1> DEFINE n == Len(declared)
<1>1. pc = "after" /\ AfterValueAt(c, pos, values)
  BY DEF Reading, Values!AfterValue
<1>2. ASSUME NEW k \in 1 .. n - 1, values = SubSeq(declared, 1, k),
             pos = c[k] + 1 \/ (form = "spaced" /\ pos = c[k] + 2)
      PROVE  Reading(u, d, c, pos', value', values', pc')
  <2>1. /\ c[k] \in Nat
        /\ form = "spaced" => /\ Values!At(c[k] + 1) = "blank" /\ Values!At(c[k] + 2) = "comma"
                              /\ Values!At(c[k] + 3) = "blank" /\ d[k + 1] = c[k] + 3
        /\ form # "spaced" => Values!At(c[k] + 1) = "comma" /\ d[k + 1] = c[k] + 1
    BY <1>2, SeenClose
  <2>2. CASE form = "spaced" /\ pos = c[k] + 1
    <3>1. Values!At(pos) = "blank"
      BY <2>1, <2>2
    <3>2. pos' = pos + 1 /\ values' = values /\ pc' = "after"
      BY <1>1, <3>1 DEF Values!AfterValue, Values!Fails
    <3>3. pos' = c[k] + 2
      BY <2>1, <2>2, <3>2
    <3>4. AfterValueAt(c, pos', values')
      BY <1>2, <2>2, <3>2, <3>3 DEF AfterValueAt
    <3> QED
      BY <3>2, <3>4 DEF Reading
  <2>3. CASE ~(form = "spaced" /\ pos = c[k] + 1)
    <3>1. Values!At(pos) = "comma"
      BY <1>2, <2>1, <2>3
    <3>2. pos' = pos /\ values' = values /\ pc' = "between"
      BY <3>1 DEF Values!AfterValue, Values!Fails
    <3>3. pos \in c[k] + 1 .. d[k + 1] + 1
      BY <1>2, <2>1
    <3>4. BetweenAt(d, c, pos', values')
      BY <1>2, <3>2, <3>3 DEF BetweenAt
    <3> QED
      BY <3>2, <3>4 DEF Reading
  <2> QED
    BY <2>2, <2>3
<1>3. CASE form # "cut" /\ values = declared /\ pos = c[n] + 1
  <2>1. Values!At(pos) = IF Whole THEN "end" ELSE "n"
    BY <1>3, SeenEnd
  <2>2. CASE Whole
    <3>1. pos' = pos /\ values' = values /\ pc' = "between"
      BY <2>1, <2>2 DEF Values!AfterValue, Values!Fails
    <3>2. BetweenAt(d, c, pos', values')
      BY <1>3, <2>2, <3>1 DEF BetweenAt
    <3> QED
      BY <3>1, <3>2 DEF Reading
  <2>3. CASE ~Whole
    <3>1. pc' = "error"
      BY <2>1, <2>3 DEF Values!AfterValue, Values!Fails
    <3> QED
      BY <2>3, <3>1 DEF Reading
  <2> QED
    BY <2>2, <2>3
<1> QED
  BY <1>1, <1>2, <1>3 DEF AfterValueAt

(* No step changes the declaration.                                        *)
LEMMA ListedStays ==
  ASSUME NEW L, NEW u, NEW d, NEW c, Listed(L, u, d, c), UNCHANGED <<declared, form, columnType>>
  PROVE  Listed(L, u, d, c)'
<1>1. Values!input' = Values!input
  BY Zenon DEF Values!input, Values!Indices
<1>2. Values!Forms' = Values!Forms
  BY DEF Values!Forms
<1>3. Shows(L)' <=> Shows(L)
  BY <1>1, Zenon DEF Shows, Length
<1>4. declared' = declared /\ form' = form
  OBVIOUS
<1> QED
  BY <1>2, <1>3, <1>4, Zenon DEF Listed, ListIn

(* The parser reads the list the server wrote, and is where Reading says;  *)
(* it stops at the text before a list.                                     *)
ValuesInv ==
  /\ form \in Values!Forms
  /\ form = "prefixed" =>
       /\ Len(Values!input) \in Nat \ {0} /\ Values!input[1] = "n"
       /\ (pc = "between" /\ pos = 1) \/ pc = "error"
  /\ form # "prefixed" =>
       \E L, u, d, c : Listed(L, u, d, c) /\ Reading(u, d, c, pos, value, values, pc)

(* The invariant holds when the parser starts,                             *)
LEMMA ValuesInit ==
  ASSUME ValuesOK, Values!Init
  PROVE  ValuesInv
<1>1. pos = 1 /\ value = <<>> /\ values = <<>> /\ pc = "between"
  BY DEF Values!Init
<1>2. \A u, d, c : Reading(u, d, c, pos, value, values, pc)
  BY <1>1 DEF Reading, BetweenAt
<1> QED
  BY <1>1, <1>2, DeclaredShows DEF ValuesInv, Listed

(* every step of the parser keeps it,                                      *)
LEMMA ValuesNext ==
  ASSUME ValuesOK, ValuesInv, Values!Next
  PROVE  ValuesInv'
<1>1. UNCHANGED <<declared, form, columnType>>
  BY DEF Values!Next
<1>2. Values!input' = Values!input
  BY <1>1, Zenon DEF Values!input, Values!Indices
<1>3. Values!Forms' = Values!Forms
  BY DEF Values!Forms
<1>4. CASE form = "prefixed"
  <2>1. Len(Values!input) \in Nat \ {0} /\ Values!input[1] = "n"
    BY <1>4 DEF ValuesInv
  <2>2. Values!At(1) = "n"
    <3>1. 1 <= Len(Values!input)
      BY <2>1
    <3> QED
      BY <2>1, <3>1 DEF Values!At
  <2>3. pc = "between" /\ pos = 1 /\ Values!Between
    BY <1>4 DEF ValuesInv, Values!Next, Values!Between, Values!InValue, Values!AfterValue
  <2>4. pc' = "error"
    BY <2>2, <2>3 DEF Values!Between, Values!Fails
  <2> QED
    BY <1>1, <1>2, <1>3, <1>4, <2>1, <2>4 DEF ValuesInv
<1>5. CASE form # "prefixed"
  <2>1. PICK L, u, d, c : Listed(L, u, d, c) /\ Reading(u, d, c, pos, value, values, pc)
    BY <1>5 DEF ValuesInv
  <2>2. Reading(u, d, c, pos', value', values', pc')
    BY <2>1, BetweenStep, InValueStep, AfterValueStep DEF Values!Next
  <2>3. Listed(L, u, d, c)'
    BY <1>1, <2>1, ListedStays
  <2>4. Reading(u, d, c, pos, value, values, pc)'
    BY <1>1, <2>2 DEF Reading, BetweenAt, InValueAt, AfterValueAt, Whole
  <2> QED
    BY <1>1, <1>3, <1>5, <2>3, <2>4 DEF ValuesInv
<1> QED
  BY <1>4, <1>5

(* and it says what ValuesExact says.                                      *)
LEMMA ValuesHold ==
  ASSUME ValuesInv
  PROVE  Values!ValuesExact
<1>1. CASE form = "prefixed"
  BY <1>1 DEF ValuesInv, Values!ValuesExact
<1>2. CASE form # "prefixed"
  <2>1. PICK L, u, d, c : Reading(u, d, c, pos, value, values, pc)
    BY <1>2 DEF ValuesInv
  <2> QED
    BY <2>1 DEF Reading, Whole, Values!ValuesExact
<1> QED
  BY <1>1, <1>2

(* Every list of values without a newline is read back as it was declared, *)
(* however many values it has and whatever quotes, backslashes, commas and *)
(* parentheses they hold; a declaration that is cut, or has text beside a  *)
(* value, is refused.                                                      *)
THEOREM ValuesAlwaysExact ==
  ASSUME ValuesOK
  PROVE  MetadataSpec => []ValuesExact
<1> DEFINE Inv == which = "values" => ValuesInv
<1>1. MetadataInit => Inv
  BY ValuesInit DEF MetadataInit
<1>2. Inv /\ [MetadataNext]_metadataVars => Inv'
  <2> SUFFICES ASSUME Inv, [MetadataNext]_metadataVars, which' = "values" PROVE ValuesInv'
    OBVIOUS
  <2>1. CASE which = "values" /\ Values!Next
    BY <2>1, ValuesNext
  <2>2. CASE UNCHANGED metadataVars
    <3>1. UNCHANGED <<which, pc, declared, form, columnType, pos, value, values>>
      BY <2>2, Zenon DEF metadataVars, valuesVars
    <3>2. which = "values" /\ ValuesInv
      BY <3>1
    <3>3. Values!input' = Values!input
      BY <3>1, Zenon DEF Values!input, Values!Indices
    <3>4. Values!Forms' = Values!Forms
      BY DEF Values!Forms
    <3>5. CASE form = "prefixed"
      BY <3>1, <3>2, <3>3, <3>4, <3>5 DEF ValuesInv
    <3>6. CASE form # "prefixed"
      <4>1. PICK L, u, d, c : Listed(L, u, d, c) /\ Reading(u, d, c, pos, value, values, pc)
        BY <3>2, <3>6 DEF ValuesInv
      <4>2. Listed(L, u, d, c)'
        BY <3>1, <4>1, ListedStays
      <4>3. Reading(u, d, c, pos, value, values, pc)'
        BY <3>1, <4>1, Zenon DEF Reading, BetweenAt, InValueAt, AfterValueAt, Whole
      <4> QED
        BY <3>1, <3>2, <3>4, <3>6, <4>2, <4>3 DEF ValuesInv
    <3> QED
      BY <3>5, <3>6
  <2> QED
    BY <2>1, <2>2 DEF MetadataNext
<1>3. Inv => ValuesExact
  BY ValuesHold DEF ValuesExact
<1> HIDE DEF Inv
<1> QED
  BY <1>1, <1>2, <1>3, PTL DEF MetadataSpec
=============================================================================
