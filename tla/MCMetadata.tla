------------------------------ MODULE MCMetadata ------------------------------
(***************************************************************************)
(* The metadata calls for TLC, on the schemas and with the arguments       *)
(* below.                                                                  *)
(***************************************************************************)
EXTENDS Metadata, FiniteSets

-----------------------------------------------------------------------------
(* GetStatistics: two catalogs with a table t each, a second table or view *)
(* s in one, two indexes on one column.                                    *)
StatisticsTables ==
  [cat : {"a"}, tab : {"t"}, base : {TRUE}, valid : {{"rows"}, {"rows", "data"}}]
    \cup [cat : {"b"}, tab : {"t"}, base : {TRUE}, valid : {{"rows"}}]
    \cup [cat : {"a"}, tab : {"s"}, base : BOOLEAN, valid : {{"rows"}}]

StatisticsIndexes ==
  [cat : Catalogs, tab : {"t"}, col : {"k"}, index : {1}, card : {3}]
    \cup [cat : {"a"}, tab : {"t"}, col : {"k"}, index : {2}, card : {5, Null}]

StatisticsWorlds ==
  {[tables |-> ts, indexes |-> is] :
     ts \in {S \in SUBSET StatisticsTables :
               \A s, t \in S : s.cat = t.cat /\ s.tab = t.tab => s = t},
     is \in {{}, {e \in StatisticsIndexes : e.index = 1}, StatisticsIndexes,
             {e \in StatisticsIndexes : e.card = Null}}}

-----------------------------------------------------------------------------
(* GetObjects: catalogs 2 and 3, tables 4 and 5; a primary key (8, the     *)
(* name of such a key in every table), a check without columns and a       *)
(* foreign key.                                                            *)
ObjectsTables ==
  [cat : {2, 3}, tab : {4}, type : {"BASE TABLE"}, cols : {<<7, 6>>}]
    \cup [cat : {2}, tab : {5}, type : {"VIEW"}, cols : {<<6>>}]

ObjectsKeys ==
  [cat : {2, 3}, tab : {4}, name : {8}, type : {"PRIMARY KEY"}, cols : {<<6, 7>>}]
    \cup [cat : {2}, tab : {4}, name : {10}, type : {"CHECK"}, cols : {<<>>}]
    \cup [cat : {2}, tab : {4}, name : {12}, type : {"FOREIGN KEY"}, cols : {<<7>>}]

KeysOf(tables, keys) ==
  {k \in keys : \E t \in tables : t.cat = k.cat /\ t.tab = k.tab}

MCObjectsWorlds ==
  {[catalogs |-> {2, 3}, tables |-> ts, keys |-> KeysOf(ts, ks)] :
     ts \in SUBSET ObjectsTables,
     ks \in {ObjectsKeys, {k \in ObjectsKeys : k.type # "PRIMARY KEY"},
             {k \in ObjectsKeys : k.type = "PRIMARY KEY"}}}

(* No filter, each filter alone, and all of them.                          *)
Unfiltered == [cats |-> {2, 3}, tabs |-> {4, 5}, types |-> {"BASE TABLE", "VIEW"}, cols |-> {6, 7}]

MCObjectsRequests ==
  {r \in [depth : {"catalogs", "schemas", "tables", "columns"}, schema : BOOLEAN,
          cats : {{2, 3}, {3}}, tabs : {{4, 5}, {4}}, types : {{"BASE TABLE", "VIEW"}, {"VIEW"}},
          cols : {{6, 7}, {7}}] :
     Cardinality({f \in DOMAIN Unfiltered : r[f] # Unfiltered[f]}) \in {0, 1, 4}}

-----------------------------------------------------------------------------
(* GetTableSchema: table t with a column of every type, and a second       *)
(* column that may be JSON, beside a table u; or table t as an ingest of   *)
(* one Arrow type creates it.                                              *)
MCSchemaArrowTypes ==
  {<<k>> : k \in {"boolean", "int8", "int16", "int32", "int64", "uint8", "uint16", "uint32",
                  "uint64", "float32", "float64", "string", "binary", "fixed_size_binary",
                  "binary_view", "large_binary", "date32", "json", "uuid"}}
    \cup ({"timestamp"} \X {"s", "ms", "us", "ns"} \X BOOLEAN)
    \cup ({"time32"} \X {"s", "ms"}) \cup ({"time64"} \X {"us", "ns"})
    \cup ({"duration"} \X {"s", "ms", "us", "ns"})
    \cup {<<"decimal", p, 2>> : p \in {5, 38, 39}} \cup {<<"vector", 3>>}

SchemaColumns ==
  {[Declared(t) EXCEPT !.unsigned = u] : t \in IntegerTypes, u \in BOOLEAN}
    \cup {WithPrecision(t, p) : t \in TemporalTypes, p \in 0 .. 6}
    \cup {[WithPrecision("DECIMAL", p) EXCEPT !.scale = 2] : p \in {5, 38, 39, 65}}
    \cup {[Declared("VECTOR") EXCEPT !.width = d] : d \in {1, 3}}
    \cup {[Declared("BIT") EXCEPT !.width = d] : d \in {1, 64}}
    \cup {[Declared("CHAR") EXCEPT !.width = 9]}
    \cup {Declared(t) : t \in {"UUID", "INET4", "INET6", "YEAR", "GEOMETRY", "POINT", "ENUM",
                               "SET", "DATE", "FLOAT", "DOUBLE", "TEXT", "BLOB"}}

TwoColumns(c) == [n \in {"c", "j"} |-> IF n = "c" THEN c ELSE Declared("JSON")]

(* The constraint of a JSON column has the name of the column; here the    *)
(* columns of u have other names than those of t.                          *)
Checks(tab, name) == {{}} \cup {{[tab |-> tab, name |-> name, json |-> j]} : j \in {{"j"}, {}}}

MCSchemaWorlds ==
  {[columns |-> [t \in {"t"} |-> TwoColumns(c)], checks |-> k \cup l] :
     c \in SchemaColumns, k \in Checks("t", "j"), l \in Checks("u", "i")}
    \cup {[columns |-> [t \in {"t"} |-> <<>>], checks |-> {}]}
=============================================================================
