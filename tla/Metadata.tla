------------------------------- MODULE Metadata -------------------------------
(***************************************************************************)
(* The metadata calls: a behaviour is one call of GetStatistics,           *)
(* GetObjects or GetTableSchema, or the reading of one ENUM declaration.   *)
(* The calls share what they have in common, the schema (world), the       *)
(* program counter and the rows of the open query (todo); the variables of *)
(* the other calls stay None.                                              *)
(***************************************************************************)
EXTENDS Statistics, TypeConversion

CONSTANTS
  ObjectsWorlds, ObjectsRequests, CaseInsensitive,          (* of GetObjects  *)
  SchemaWorlds, SchemaArrowTypes, Table, MaxInt32, MaxText, (* of TableSchema *)
  Alphabet, MaxValues, MaxLength                            (* of TypeValues  *)

VARIABLES
  which,                                             (* the call            *)
  request, infos, current, channel,                  (* of GetObjects       *)
  columns, jsonColumns, fields,                      (* of TableSchema      *)
  answered,                                          (* their history, seen *)
  declared, form, columnType, pos, value, values     (* of TypeValues       *)

-----------------------------------------------------------------------------
Objects == INSTANCE GetObjects WITH
             Worlds <- ObjectsWorlds, Requests <- ObjectsRequests, seen <- answered

Schema == INSTANCE TableSchema WITH
            Worlds <- SchemaWorlds, ArrowTypes <- SchemaArrowTypes, seen <- answered

Values == INSTANCE TypeValues

(* The schemas of the server are well-formed, see IsWorld of the calls.    *)
ASSUME ObjectsAssumption == \A w \in ObjectsWorlds : Objects!IsWorld(w)

ASSUME SchemaAssumption ==
  /\ \A w \in SchemaWorlds : Schema!IsWorld(w)
  /\ SchemaArrowTypes \subseteq ArrowType
  /\ MaxInt32 \in Nat /\ MaxText \in Nat

ASSUME ValuesAssumption == MaxValues \in Nat /\ MaxLength \in Nat

statisticsVars == <<filter, catalogOrder, statsByCatalog, knownTables, seen>>
objectsVars    == <<request, infos, current, channel>>
schemaVars     == <<columns, jsonColumns, fields>>
valuesVars     == <<declared, form, columnType, pos, value, values>>
metadataVars   == <<which, world, pc, todo, answered, statisticsVars, objectsVars, schemaVars,
                    valuesVars>>

NoStatistics ==
  /\ filter = None /\ catalogOrder = <<>> /\ statsByCatalog = <<>>
  /\ knownTables = {} /\ seen = [tables |-> {}, indexes |-> {}]
NoObjects == request = None /\ infos = None /\ current = None /\ channel = None
NoSchema  == columns = None /\ jsonColumns = None /\ fields = None
NoValues  ==
  /\ declared = None /\ form = None /\ columnType = None
  /\ pos = None /\ value = None /\ values = None

MetadataInit ==
  \/ which = "statistics" /\ Init /\ NoObjects /\ NoSchema /\ NoValues /\ answered = None
  \/ which = "objects" /\ Objects!Init /\ NoStatistics /\ NoSchema /\ NoValues
  \/ /\ which = "schema" /\ Schema!Init /\ NoStatistics /\ NoObjects /\ NoValues
     /\ todo = None
  \/ /\ which = "values" /\ Values!Init /\ NoStatistics /\ NoObjects /\ NoSchema
     /\ world = None /\ todo = None /\ answered = None

MetadataNext ==
  \/ which = "statistics" /\ Next /\ UNCHANGED <<which, answered, objectsVars, schemaVars, valuesVars>>
  \/ which = "objects" /\ Objects!Next /\ UNCHANGED <<which, statisticsVars, schemaVars, valuesVars>>
  \/ which = "schema" /\ Schema!Next
       /\ UNCHANGED <<which, todo, statisticsVars, objectsVars, valuesVars>>
  \/ which = "values" /\ Values!Next
       /\ UNCHANGED <<which, world, todo, answered, statisticsVars, objectsVars, schemaVars>>

(* The driver goes on with the call; other sessions need not change a      *)
(* thing, and no query need fail.                                          *)
Goes ==
  \/ which = "statistics" /\ Call /\ UNCHANGED <<which, answered, objectsVars, schemaVars, valuesVars>>
  \/ which = "objects" /\ Objects!Call /\ UNCHANGED <<which, statisticsVars, schemaVars, valuesVars>>
  \/ which = "schema" /\ Schema!Call
       /\ UNCHANGED <<which, todo, statisticsVars, objectsVars, valuesVars>>
  \/ which = "values" /\ Values!Next
       /\ UNCHANGED <<which, world, todo, answered, statisticsVars, objectsVars, schemaVars>>

MetadataSpec == MetadataInit /\ [][MetadataNext]_metadataVars /\ WF_metadataVars(Goes)

-----------------------------------------------------------------------------
(* GetObjects lists every catalog, table and column its filters match      *)
(* once, under its own catalog and table and in order, though it groups    *)
(* the rows of one joined query by comparing neighbours.                   *)
ObjectsExact == which = "objects" => Objects!ObjectsExact

(* GetObjects gives every table the constraints its second query saw, each *)
(* once and with its own columns, even if tables changed in between.       *)
ConstraintsExact == which = "objects" => Objects!ConstraintsExact

(* GetTableSchema, a result set and GetObjects agree on a column.          *)
SchemasAgree == which = "schema" => Schema!SchemasAgree

(* GetTableSchema takes a LONGTEXT for JSON if its constraint says so when *)
(* the second query is answered, and only then.                            *)
JsonExact == which = "schema" => Schema!JsonExact

(* A table that an ingest created shows the types of its stream.           *)
IngestTypesKept == which = "schema" => Schema!IngestTypesKept

(* The values of an ENUM or SET are read back as they were declared, and a *)
(* declaration that is not one is refused.                                 *)
ValuesExact == which = "values" => Values!ValuesExact

(* Every call returns or fails: the channel of GetObjects holds all        *)
(* entries before it is read, and the parser always goes forward.          *)
CallReturns == <>(pc \in {"returned", "empty", "not found", "done", "failed", "error", "panic"})
=============================================================================
