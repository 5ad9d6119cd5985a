------------------------------ MODULE GetObjects ------------------------------
(***************************************************************************)
(* One GetObjects call (connection_getobjects.go): a query whose rows,     *)
(* ordered by the server, are grouped into catalogs, tables and columns; a *)
(* second query whose rows are grouped into constraints; a channel that is *)
(* filled and closed before its reader starts.  Other sessions may change  *)
(* the tables between the two queries.                                     *)
(*                                                                         *)
(* Names are numbers, and the server orders them by collation weight: the  *)
(* weight of information_schema names may be case-insensitive, so that two *)
(* names differ and still tie.                                             *)
(***************************************************************************)
EXTENDS Integers, FiniteSets, Sequences, SequencesExt

CONSTANTS
  Worlds,            (* what information_schema may hold                    *)
  Requests,          (* the arguments GetObjects is called with             *)
  CaseInsensitive,   (* names 2k and 2k+1 differ only in case               *)
  None

VARIABLES
  world,      (* information_schema now                                     *)
  request,    (* depth and filters of the call                              *)
  pc,
  todo,       (* rows of the open query not read yet                        *)
  infos,      (* the result so far                                          *)
  current,    (* currentTable, currentConstraint (positions) and their keys *)
  channel,    (* the number of entries in the channel of buildResult        *)
  seen        (* history: what the queries were answered from               *)

vars == <<world, request, pc, todo, infos, current, channel, seen>>

(* No table (of catalog 0) and no constraint.                              *)
NoPlace   == <<0, 0>>
NoCurrent == [table |-> NoPlace, key |-> <<None, None>>, constraint |-> 0, name |-> None]

Weight(name) == IF name = None THEN -1
                ELSE IF CaseInsensitive THEN name \div 2 ELSE name

(* A world is [catalogs, tables, keys]: catalog names; tables [cat, tab,   *)
(* type, cols] with their column names in order; constraints [cat, tab,    *)
(* name, type, cols], a CHECK without columns.                             *)
TableOK(w, t) ==
  /\ t.cat \in w.catalogs /\ t.tab \in Nat /\ t.type \in STRING /\ t.cols \in Seq(Nat)
  /\ \A u \in w.tables : u.cat = t.cat /\ Weight(u.tab) = Weight(t.tab) => u = t

KeyOK(w, k) ==
  /\ k.name \in Nat /\ k.type \in STRING /\ k.cols \in Seq(Nat)
  /\ \E t \in w.tables : t.cat = k.cat /\ t.tab = k.tab
  /\ \A l \in w.keys :
       l.cat = k.cat /\ l.tab = k.tab /\ Weight(l.name) = Weight(k.name) => l = k

(* The names of catalogs, of the tables of a catalog and of the            *)
(* constraints of a table do not tie.                                      *)
IsWorld(w) ==
  /\ w.catalogs \subseteq Nat
  /\ \A c, d \in w.catalogs : Weight(c) = Weight(d) => c = d
  /\ \A t \in w.tables : TableOK(w, t)
  /\ \A k \in w.keys : KeyOK(w, k)

(* A request is [depth, schema, cats, tabs, types, cols]: the depth,       *)
(* whether the schema filter matches the empty schema, and the names every *)
(* LIKE filter matches.                                                    *)

includeSchemas == request.depth # "catalogs"
includeTables  == request.depth \in {"tables", "columns"}
includeColumns == request.depth = "columns"

TableMatches(t) == t.tab \in request.tabs /\ t.type \in request.types

-----------------------------------------------------------------------------
(***************************************************************************)
(* The first query: catalogs, left joined with the empty schema, tables    *)
(* and columns.  A join that matches nothing leaves NULLs; pos is the      *)
(* ORDINAL_POSITION.                                                       *)
(***************************************************************************)

(* Mutant: tables are joined without sch.DB_SCHEMA_NAME IS NOT NULL.       *)
TablesJoinedAlways(w, cat, schema) ==
  {t \in w.tables : includeTables /\ t.cat = cat /\ TableMatches(t)}

TablesJoined(w, cat, schema) ==
  {t \in w.tables : schema /\ includeTables /\ t.cat = cat /\ TableMatches(t)}

ColumnsJoined(t) == {p \in 1 .. Len(t.cols) : includeColumns /\ t.cols[p] \in request.cols}

SchemaJoined == includeSchemas /\ request.schema

ObjectRow(cat, tab, type, p, col) ==
  [cat |-> cat, schema |-> SchemaJoined, tab |-> tab, type |-> type, pos |-> p, col |-> col]

ColumnRows(cat, t) ==
  IF ColumnsJoined(t) = {} THEN {ObjectRow(cat, t.tab, t.type, None, None)}
  ELSE {ObjectRow(cat, t.tab, t.type, p, t.cols[p]) : p \in ColumnsJoined(t)}

CatalogRows(w, cat) ==
  LET joined == TablesJoined(w, cat, SchemaJoined)
  IN  IF joined = {} THEN {ObjectRow(cat, None, None, None, None)}
      ELSE UNION {ColumnRows(cat, t) : t \in joined}

ObjectRows(w) == UNION {CatalogRows(w, cat) : cat \in w.catalogs \cap request.cats}

(* Rows that ORDER BY s.SCHEMA_NAME, t.TABLE_NAME, c.ORDINAL_POSITION may  *)
(* put next.                                                               *)
Position(p) == IF p = None THEN 0 ELSE p

Precedes(key1, key2) ==
  \E i \in DOMAIN key1 : key1[i] < key2[i] /\ \A j \in 1 .. i - 1 : key1[j] = key2[j]

NextRows(Key(_)) == {r \in todo : \A s \in todo : ~Precedes(Key(s), Key(r))}

ObjectKey(r) == <<Weight(r.cat), Weight(r.tab), Position(r.pos)>>

-----------------------------------------------------------------------------
(* Grouping: infos[i] is a catalog; its schemas are nil (None) or a list   *)
(* of at most the one empty schema (their number), and tables are those of *)
(* that schema.                                                            *)

NewInfo(r) ==
  [cat |-> r.cat,
   schemas |-> IF r.schema THEN 1 ELSE IF includeSchemas THEN 0 ELSE None,
   tables |-> <<>>]

NewTable(r) == [tab |-> r.tab, type |-> r.type, cols |-> <<>>, keys |-> <<>>]

(* Mutant: the current table survives the change of the catalog.           *)
CatalogChangeKeepsTable(r) ==
  IF infos = <<>> \/ infos[Len(infos)].cat # r.cat
    THEN [infos |-> Append(infos, NewInfo(r)), table |-> current.table]
    ELSE [infos |-> infos, table |-> current.table]

(* A new catalog?                                                          *)
CatalogChange(r) ==
  IF infos = <<>> \/ infos[Len(infos)].cat # r.cat
    THEN [infos |-> Append(infos, NewInfo(r)), table |-> NoPlace]
    ELSE [infos |-> infos, table |-> current.table]

TableAt(list, p) == list[p[1]].tables[p[2]]

(* A new table?  It is added to the last catalog.                          *)
TableChange(c, r) ==
  LET n == Len(c.infos)
  IN  IF c.table = NoPlace \/ TableAt(c.infos, c.table).tab # r.tab
        THEN [infos |-> [c.infos EXCEPT ![n].tables = Append(@, NewTable(r))],
              table |-> <<n, Len(c.infos[n].tables) + 1>>]
        ELSE c

AddColumn(c, r) ==
  IF r.col = None THEN c.infos
  ELSE [c.infos EXCEPT ![c.table[1]].tables[c.table[2]].cols = Append(@, r.col)]

QueryObjects ==
  /\ pc = "query"
  /\ todo' = ObjectRows(world)
  /\ pc' = "objects"
  /\ seen' = [seen EXCEPT !.objects = world]
  /\ UNCHANGED <<world, request, infos, current, channel>>

ReadObject ==
  /\ pc = "objects"
  /\ \E r \in NextRows(ObjectKey) :
       LET c        == CatalogChange(r)
           hasTable == r.tab # None /\ r.schema
           t        == IF hasTable THEN TableChange(c, r) ELSE c
       IN  /\ todo' = todo \ {r}
           /\ infos' = IF hasTable THEN AddColumn(t, r) ELSE t.infos
           /\ current' = [current EXCEPT !.table = t.table]
           /\ pc' = IF r.tab # None /\ ~r.schema THEN "panic" ELSE pc  (* CatalogDbSchemas[0] *)
  /\ UNCHANGED <<world, request, channel, seen>>

-----------------------------------------------------------------------------
(***************************************************************************)
(* addTableConstraints.  The second query joins every constraint with the  *)
(* KEY_COLUMN_USAGE rows of its table and name; a CHECK has none.          *)
(***************************************************************************)
KeyMatches(w, k) ==
  /\ k.cat \in request.cats /\ k.tab \in request.tabs
  /\ \E t \in w.tables : t.cat = k.cat /\ t.tab = k.tab /\ t.type \in request.types

KeyUsage(w, k) ==
  UNION {{[pos |-> p, col |-> u.cols[p], ref |-> u.type = "FOREIGN KEY"] : p \in 1 .. Len(u.cols)} :
           u \in {v \in w.keys : v.cat = k.cat /\ v.tab = k.tab /\ v.name = k.name}}

KeyRows(w, k) ==
  LET row(u) == [cat |-> k.cat, tab |-> k.tab, name |-> k.name, type |-> k.type,
                 pos |-> u.pos, col |-> u.col, ref |-> u.ref]
      usage  == KeyUsage(w, k)
  IN  {row(u) : u \in IF usage = {} THEN {[pos |-> None, col |-> None, ref |-> FALSE]} ELSE usage}

ConstraintRows(w) == UNION {KeyRows(w, k) : k \in {v \in w.keys : KeyMatches(w, v)}}

ConstraintKey(r) == <<Weight(r.cat), Weight(r.tab), Weight(r.name), Position(r.pos)>>

(* The map tables: the last entry of a key wins.                           *)
Places(cat, tab) ==
  UNION {{<<i, j>> : j \in {k \in 1 .. Len(infos[i].tables) : infos[i].tables[k].tab = tab}} :
           i \in {h \in 1 .. Len(infos) : infos[h].cat = cat}}

LastPlace(cat, tab) ==
  IF Places(cat, tab) = {} THEN NoPlace
  ELSE CHOOSE p \in Places(cat, tab) : \A q \in Places(cat, tab) : ~Precedes(p, q)

AnyTables == \E i \in 1 .. Len(infos) : infos[i].tables # <<>>

(* The rows of the first query are read and closed; constraints are asked  *)
(* for if there are tables.                                                *)
QueryConstraints ==
  /\ pc = "objects" /\ todo = {}
  /\ IF includeTables /\ AnyTables
       THEN /\ pc' = "constraints"
            /\ todo' = ConstraintRows(world)
            /\ current' = NoCurrent
            /\ seen' = [seen EXCEPT !.keys = world]
       ELSE pc' = "send" /\ UNCHANGED <<todo, current, seen>>
  /\ UNCHANGED <<world, request, infos, channel>>

NewKey(r) == [name |-> r.name, type |-> r.type, cols |-> <<>>, refs |-> <<>>]

(* Mutant: the current constraint survives the change of the table.        *)
KeyChangeKeepsConstraint(r) ==
  IF current.key = <<r.cat, r.tab>> THEN current
  ELSE [current EXCEPT !.key = <<r.cat, r.tab>>, !.table = LastPlace(r.cat, r.tab)]

(* Another table?  Tables that are not in the result are skipped.          *)
KeyChange(r) ==
  IF current.key = <<r.cat, r.tab>> THEN current
  ELSE [key |-> <<r.cat, r.tab>>, table |-> LastPlace(r.cat, r.tab),
        constraint |-> 0, name |-> None]

(* Another constraint?                                                     *)
ConstraintChange(c, r) ==
  IF c.constraint # 0 /\ c.name = r.name
    THEN [infos |-> infos, at |-> c.constraint]
    ELSE [infos |-> [infos EXCEPT ![c.table[1]].tables[c.table[2]].keys = Append(@, NewKey(r))],
          at |-> Len(TableAt(infos, c.table).keys) + 1]

KeyWithColumn(key, r) ==
  [key EXCEPT !.cols = IF r.col = None THEN @ ELSE Append(@, r.col),
              !.refs = IF r.ref THEN Append(@, r.col) ELSE @]

AddKeyColumn(list, p, at, r) ==
  [list EXCEPT ![p[1]].tables[p[2]].keys[at] = KeyWithColumn(@, r)]

ReadConstraint ==
  /\ pc = "constraints"
  /\ \E r \in NextRows(ConstraintKey) :
       LET c == KeyChange(r)
           d == ConstraintChange(c, r)
       IN  /\ todo' = todo \ {r}
           /\ \/ c.table = NoPlace /\ current' = c /\ UNCHANGED infos
              \/ /\ c.table # NoPlace
                 /\ infos' = AddKeyColumn(d.infos, c.table, d.at, r)
                 /\ current' = [c EXCEPT !.constraint = d.at, !.name = r.name]
  /\ UNCHANGED <<world, request, pc, channel, seen>>

ConstraintsRead ==
  /\ pc = "constraints" /\ todo = {}
  /\ pc' = "send"
  /\ UNCHANGED <<world, request, todo, infos, current, channel, seen>>

-----------------------------------------------------------------------------
(* buildResult sends every entry before anything reads the channel.        *)

(* Mutant: a channel with room for one entry.                              *)
ChannelCapacityOne == 1

ChannelCapacity == Len(infos)

SendInfo ==
  /\ pc = "send" /\ channel < Len(infos)
  /\ channel < ChannelCapacity
  /\ channel' = channel + 1
  /\ UNCHANGED <<world, request, pc, todo, infos, current, seen>>

BuildReader ==
  /\ pc = "send" /\ channel = Len(infos)
  /\ pc' = "returned"
  /\ UNCHANGED <<world, request, todo, infos, current, channel, seen>>

(* A query or a row fails: the call returns the error, the rows closed.    *)
QueryFails ==
  /\ pc \in {"query", "objects", "constraints"}
  /\ pc' = "failed"
  /\ todo' = {}
  /\ UNCHANGED <<world, request, infos, current, channel, seen>>

(* Other sessions create, alter and drop.                                  *)
OthersChange ==
  /\ pc = "objects"
  /\ world' \in Worlds
  /\ UNCHANGED <<request, pc, todo, infos, current, channel, seen>>

-----------------------------------------------------------------------------
Init ==
  /\ world \in Worlds
  /\ request \in Requests
  /\ pc = "query"
  /\ todo = {}
  /\ infos = <<>>
  /\ current = NoCurrent
  /\ channel = 0
  /\ seen = [objects |-> None, keys |-> None]

Call == QueryObjects \/ ReadObject \/ QueryConstraints \/ ReadConstraint \/ ConstraintsRead
          \/ SendInfo \/ BuildReader

Next == Call \/ QueryFails \/ OthersChange

Spec == Init /\ [][Next]_vars

-----------------------------------------------------------------------------
(* Reference definitions, as the request asks.                             *)
Rank(J, p) == Cardinality({q \in J : q <= p})

(* The columns of t that the request asks for, in their order.             *)
TableCols(t) ==
  [n \in 1 .. Cardinality(ColumnsJoined(t)) |->
     t.cols[CHOOSE p \in ColumnsJoined(t) : Rank(ColumnsJoined(t), p) = n]]

ExpectedTables(w, cat) ==
  {[tab |-> t.tab, type |-> t.type, cols |-> TableCols(t)] :
     t \in {u \in w.tables : includeTables /\ request.schema /\ u.cat = cat /\ TableMatches(u)}}

ListedTables(i) ==
  {[tab |-> t.tab, type |-> t.type, cols |-> t.cols] : t \in ToSet(infos[i].tables)}

(* Every catalog, every table and every column the filters match is listed *)
(* once, under its own catalog and table, with the columns in order.       *)
ObjectsExact ==
  pc \in {"constraints", "send", "returned"} =>
    /\ {infos[i].cat : i \in 1 .. Len(infos)} = seen.objects.catalogs \cap request.cats
    /\ \A i, j \in 1 .. Len(infos) : infos[i].cat = infos[j].cat => i = j
    /\ \A i \in 1 .. Len(infos) :
         /\ ListedTables(i) = ExpectedTables(seen.objects, infos[i].cat)
         /\ \A j, k \in 1 .. Len(infos[i].tables) :
              infos[i].tables[j].tab = infos[i].tables[k].tab => j = k

ExpectedKeys(w, cat, tab) ==
  {[name |-> k.name, type |-> k.type, cols |-> k.cols,
    refs |-> IF k.type = "FOREIGN KEY" THEN k.cols ELSE <<>>] :
     k \in {v \in w.keys : v.cat = cat /\ v.tab = tab}}

(* Every table listed has the constraints the second query saw, each once  *)
(* and with its own columns in order, even if the tables changed between   *)
(* the queries.                                                            *)
ConstraintsExact ==
  pc \in {"send", "returned"} /\ seen.keys # None =>
    \A i \in 1 .. Len(infos) : \A j \in 1 .. Len(infos[i].tables) :
      LET t == infos[i].tables[j]
          w == seen.keys
      IN  IF \E u \in w.tables : u.cat = infos[i].cat /\ u.tab = t.tab /\ u.type \in request.types
            THEN /\ ToSet(t.keys) = ExpectedKeys(w, infos[i].cat, t.tab)
                 /\ IsInjective(t.keys)
            ELSE t.keys = <<>>
=============================================================================
