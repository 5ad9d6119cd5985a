------------------------------ MODULE Statistics ------------------------------
(***************************************************************************)
(* One GetStatistics call (connection_statistics.go): a query for the base *)
(* tables, then one for the indexed columns, collected in Go maps.  Other  *)
(* sessions may create and drop tables between the two queries.            *)
(***************************************************************************)
EXTENDS Integers, Sequences

CONSTANTS
  Catalogs, Tables, Columns,   (* names                                     *)
  Keys,       (* statistics of a table: row count, data length, ...         *)
  Cardinalities,   (* numbers an index statistic may hold, and NULL         *)
  Worlds,     (* what information_schema may hold                           *)
  Null

(* A world is [tables, indexes]: tables [cat, tab, base, valid] with the   *)
(* set of statistics that are not NULL; index entries [cat, tab, col,      *)
(* index, card].                                                           *)
World ==
  [tables : SUBSET [cat : Catalogs, tab : Tables, base : BOOLEAN, valid : SUBSET Keys],
   indexes : SUBSET [cat : Catalogs, tab : Tables, col : Columns, index : Nat,
                     card : Cardinalities \cup {Null}]]

ASSUME StatisticsAssumption ==
  Worlds \subseteq World /\ Cardinalities \subseteq Nat /\ Null \notin Nat

VARIABLES
  world,          (* information_schema now                                 *)
  filter,         (* the names the LIKE filters match                       *)
  pc,
  todo,           (* rows of the open query not read yet                    *)
  catalogOrder,
  statsByCatalog, (* the map, for the catalogs in it                        *)
  knownTables,
  seen            (* history: what the queries were answered from           *)

vars == <<world, filter, pc, todo, catalogOrder, statsByCatalog, knownTables, seen>>

(* statisticsFilter: the same condition for both queries.                  *)
Matches(r) == r.cat \in filter.cats /\ r.tab \in filter.tabs

TableRows == {t \in world.tables : t.base /\ Matches(t)}

(* SELECT ... MAX(CARDINALITY) ... GROUP BY schema, table, column.         *)
Entries(cat, tab, col) ==
  {e \in world.indexes : e.cat = cat /\ e.tab = tab /\ e.col = col /\ e.card # Null}

Largest(S) == CHOOSE n \in S : \A m \in S : m <= n

IndexRows ==
  {[cat |-> e.cat, tab |-> e.tab, col |-> e.col,
    card |-> Largest({f.card : f \in Entries(e.cat, e.tab, e.col)})] :
      e \in {f \in world.indexes : f.card # Null /\ Matches(f)}}

TableStat(t, k) == [tab |-> t.tab, col |-> Null, key |-> k, value |-> Null]
ColumnStat(r)   == [tab |-> r.tab, col |-> r.col, key |-> "distinct", value |-> r.card]

-----------------------------------------------------------------------------
QueryTables ==
  /\ pc = "query"
  /\ todo' = TableRows
  /\ pc' = "tables"
  /\ seen' = [seen EXCEPT !.tables = TableRows]
  /\ UNCHANGED <<world, filter, catalogOrder, statsByCatalog, knownTables>>

(* A dbSchema filter that is not empty has no statistics.                  *)
EmptyForSchema ==
  /\ pc = "query"
  /\ pc' = "empty"
  /\ UNCHANGED <<world, filter, todo, catalogOrder, statsByCatalog, knownTables, seen>>

(* Mutant: a catalog is new when it is not the last one.                   *)
NewCatalogConsecutive(cat) == catalogOrder = <<>> \/ catalogOrder[Len(catalogOrder)] # cat

NewCatalog(cat) == cat \notin DOMAIN statsByCatalog

(* The statistics of a catalog, empty when it is added.                    *)
StatsOf(cat) == IF cat \in DOMAIN statsByCatalog THEN statsByCatalog[cat] ELSE {}

ReadTable ==
  /\ pc = "tables"
  /\ \E t \in todo :
       /\ todo' = todo \ {t}
       /\ catalogOrder' = IF NewCatalog(t.cat) THEN Append(catalogOrder, t.cat) ELSE catalogOrder
       /\ knownTables' = knownTables \cup {<<t.cat, t.tab>>}
       /\ statsByCatalog' = [c \in DOMAIN statsByCatalog \cup {t.cat} |->
            IF c = t.cat THEN StatsOf(c) \cup {TableStat(t, k) : k \in t.valid}
                         ELSE statsByCatalog[c]]
  /\ UNCHANGED <<world, filter, pc, seen>>

QueryIndexes ==
  /\ pc = "tables" /\ todo = {}
  /\ todo' = IndexRows
  /\ pc' = "indexes"
  /\ seen' = [seen EXCEPT !.indexes = IndexRows]
  /\ UNCHANGED <<world, filter, catalogOrder, statsByCatalog, knownTables>>

(* Mutant: the statistics of a table the first query did not see are kept. *)
SkippedNever(r) == FALSE

Skipped(r) == <<r.cat, r.tab>> \notin knownTables

(* A write to the map of a catalog that has none would panic.              *)
ReadIndex ==
  /\ pc = "indexes"
  /\ \E r \in todo :
       /\ todo' = todo \ {r}
       /\ pc' = IF ~Skipped(r) /\ r.cat \notin DOMAIN statsByCatalog THEN "panic" ELSE pc
       /\ statsByCatalog' =
            IF Skipped(r) THEN statsByCatalog
            ELSE [statsByCatalog EXCEPT ![r.cat] = @ \cup {ColumnStat(r)}]
  /\ UNCHANGED <<world, filter, catalogOrder, knownTables, seen>>

BuildReader ==
  /\ pc = "indexes" /\ todo = {}
  /\ pc' = IF catalogOrder = <<>> THEN "empty" ELSE "returned"
  /\ UNCHANGED <<world, filter, todo, catalogOrder, statsByCatalog, knownTables, seen>>

(* A query or a row fails; the rows are closed.                            *)
QueryFails ==
  /\ pc \in {"query", "tables", "indexes"}
  /\ pc' = "failed"
  /\ todo' = {}
  /\ UNCHANGED <<world, filter, catalogOrder, statsByCatalog, knownTables, seen>>

OthersChange ==
  /\ pc = "tables"
  /\ world' \in Worlds
  /\ UNCHANGED <<filter, pc, todo, catalogOrder, statsByCatalog, knownTables, seen>>

Init ==
  /\ world \in Worlds
  /\ filter \in [cats : SUBSET Catalogs, tabs : SUBSET Tables]
  /\ pc = "query"
  /\ todo = {}
  /\ catalogOrder = <<>>
  /\ statsByCatalog = [c \in {} |-> {}]
  /\ knownTables = {}
  /\ seen = [tables |-> {}, indexes |-> {}]

Call == QueryTables \/ EmptyForSchema \/ ReadTable \/ QueryIndexes \/ ReadIndex \/ BuildReader

Next == Call \/ QueryFails \/ OthersChange

Spec == Init /\ [][Next]_vars

-----------------------------------------------------------------------------
(* No statistic is written to the map of a catalog that was never added,   *)
(* whatever other sessions create between the two queries.                 *)
NoPanic == pc # "panic"

(* catalogOrder lists the catalogs of the map, each once, in whatever      *)
(* order the rows come.                                                    *)
CatalogsOnce ==
  /\ DOMAIN statsByCatalog = {catalogOrder[i] : i \in 1 .. Len(catalogOrder)}
  /\ \A i, j \in 1 .. Len(catalogOrder) : catalogOrder[i] = catalogOrder[j] => i = j

(* The statistics the rows seen contribute to catalog c: those of tables,  *)
(* and those of columns of these tables.                                   *)
OfTables(c) == UNION {{TableStat(t, k) : k \in t.valid} : t \in {u \in seen.tables : u.cat = c}}

OfColumns(c) ==
  {ColumnStat(r) : r \in {s \in seen.indexes :
     s.cat = c /\ \E t \in seen.tables : t.cat = c /\ t.tab = s.tab}}

(* The statistics returned are those of the base tables of the first       *)
(* query, and of their columns in the second: none is missing, a table     *)
(* made in between shows nothing, and every catalog is listed once.        *)
StatisticsExact ==
  pc \in {"returned", "empty"} =>
    /\ DOMAIN statsByCatalog = {t.cat : t \in seen.tables}
    /\ \A c \in DOMAIN statsByCatalog : statsByCatalog[c] = OfTables(c) \cup OfColumns(c)
    /\ CatalogsOnce
=============================================================================
