---------------------------- MODULE TypeConversion ----------------------------
(***************************************************************************)
(* How column types become Arrow types (ConvertRawColumnType of            *)
(* mariadb.go) and Arrow types become column types (arrowToMariaDBType of  *)
(* connection.go), as operators.                                           *)
(*                                                                         *)
(* A type name is a base and where the word UNSIGNED stands, "before" it   *)
(* (the client library), "after" it (the default converter) or "none".     *)
(* Arrow types are tuples: a kind and its parameters.                      *)
(***************************************************************************)
EXTENDS Integers

CONSTANTS
  MaxDecimal,   (* digits of the widest decimal consumers import, 38        *)
  MilliDigits,  (* digits of a millisecond, 3                               *)
  MicroDigits,  (* digits of a microsecond, 6: the most MariaDB has         *)
  None

ASSUME TypeConversionAssumption ==
  /\ MaxDecimal \in Nat /\ MilliDigits \in Nat \ {0} /\ MicroDigits \in Nat
  /\ MilliDigits < MicroDigits
  /\ None \notin Int

IntegerTypes  == {"TINYINT", "SMALLINT", "MEDIUMINT", "INT", "BIGINT"}
TemporalTypes == {"TIME", "DATETIME", "TIMESTAMP"}
SpatialTypes  == {"GEOMETRY", "POINT", "LINESTRING", "POLYGON", "MULTIPOINT",
                  "MULTILINESTRING", "MULTIPOLYGON"}

(* Mutant: the word order of the client library is kept.                   *)
normalizeUnsignedTypeNameNot(name) == name

normalizeUnsignedTypeName(name) == IF name.sign = "before" THEN [name EXCEPT !.sign = "after"]
                                                           ELSE name

(* Mutant: milliseconds end a digit late.                                  *)
TimeUnitLong(precision) ==
  CASE precision = None -> "us"
    [] precision # None /\ precision <= 0 -> "s"
    [] precision # None /\ precision \in 1 .. MilliDigits + 1 -> "ms"
    [] OTHER -> "us"

TimeUnit(precision) ==
  CASE precision = None -> "us"
    [] precision # None /\ precision <= 0 -> "s"
    [] precision # None /\ precision \in 1 .. MilliDigits -> "ms"
    [] OTHER -> "us"

(* sqlwrapper.DefaultTypeConverter, external.  It knows "X UNSIGNED" only; *)
(* what it does not know is a string.                                      *)
SignedTypes == [TINYINT |-> "int8", SMALLINT |-> "int16", MEDIUMINT |-> "int32",
                INT |-> "int32", BIGINT |-> "int64"]
UnsignedTypes == [TINYINT |-> "uint8", SMALLINT |-> "uint16", MEDIUMINT |-> "uint32",
                  INT |-> "uint32", BIGINT |-> "uint64"]

DefaultConvert(c) ==
  LET base == c.name.base
  IN  CASE base \in IntegerTypes /\ c.name.sign = "none"  -> <<SignedTypes[base]>>
        [] base \in IntegerTypes /\ c.name.sign = "after" -> <<UnsignedTypes[base]>>
        [] base = "FLOAT"    -> <<"float32">>
        [] base = "DOUBLE"   -> <<"float64">>
        [] base = "DECIMAL"  -> <<"decimal", c.precision, c.scale>>
        [] base = "DATE"     -> <<"date32">>
        [] base = "DATETIME" -> <<"timestamp", TimeUnit(c.precision), FALSE>>
        [] base \in {"BLOB", "LONGBLOB"} -> <<"binary">>
        [] OTHER             -> <<"string">>

(* ConvertRawColumnType: the Arrow type and the tag of its metadata that   *)
(* selects an inserter.                                                    *)
Converted(type, tag) == [type |-> type, tag |-> tag]

ConvertVector(length) ==
  IF length # None /\ length > 0 /\ length % 4 = 0
    THEN Converted(<<"vector", length \div 4>>, "vector")
    ELSE Converted(<<"binary">>, "vector")

ConvertRawColumnType(column) ==
  LET c    == [column EXCEPT !.name = normalizeUnsignedTypeName(@)]
      base == c.name.base
  IN  CASE base = "UUID"             -> Converted(<<"uuid">>, "none")
        [] base \in {"INET4", "INET6"} -> Converted(<<"string">>, base)
        [] base = "DECIMAL" /\ c.precision # None /\ c.scale # None /\ c.precision > MaxDecimal ->
             Converted(<<"string">>, "decimal256")
        [] base = "VECTOR"           -> ConvertVector(c.length)
        [] base = "JSON"             -> Converted(<<"json">>, "json")
        [] base = "YEAR"             -> Converted(<<"int16">>, "year")
        [] base = "TIME"             -> Converted(<<"duration", TimeUnit(c.precision)>>, "time_duration")
        [] base = "BIT"              -> Converted(<<"binary">>, "BIT")
        [] base \in SpatialTypes     -> Converted(<<"binary">>, "spatial")
        [] base \in {"ENUM", "SET"}  -> Converted(<<"string">>, "enum_set")
        [] base = "TIMESTAMP"        -> Converted(<<"timestamp", TimeUnit(c.precision), TRUE>>, "none")
        [] OTHER                     -> Converted(DefaultConvert(c), "none")

(* CreateInserter: the type and the metadata of the field choose.          *)
CreateInserter(field) ==
  CASE field.type[1] = "json" -> "json"
    [] field.type[1] = "uuid" -> "uuid"
    [] field.type[1] = "binary" /\ field.tag = "BIT" -> "bit"
    [] field.type[1] = "binary" /\ field.tag = "spatial" -> "spatial"
    [] field.type[1] = "vector" /\ field.tag = "vector" -> "vector"
    [] field.type[1] = "duration" /\ field.tag = "time_duration" -> "duration"
    [] field.type[1] \in {"date32", "date64", "timestamp"} -> "zero datetime"
    [] OTHER -> "default"

-----------------------------------------------------------------------------
(* A column as it is declared: width is the dimension of a VECTOR, the     *)
(* bits of a BIT, the characters of a CHAR.                                *)
Declared(type) == [type |-> type, unsigned |-> FALSE, precision |-> None, scale |-> None,
                   width |-> None]

(* What the server admits: digits of numbers and times, a size for three   *)
(* types, and a sign for integers (DECIMAL and FLOAT are signed here).     *)
IsColumn(c) ==
  /\ c.unsigned \in BOOLEAN
  /\ c.unsigned => c.type \in IntegerTypes
  /\ c.precision # None <=> c.type \in TemporalTypes \cup {"DECIMAL"}
  /\ c.scale # None <=> c.type = "DECIMAL"
  /\ c.type \in {"VECTOR", "BIT", "CHAR"} => c.width # None
  /\ {c.precision, c.scale, c.width} \subseteq Nat \cup {None}

WithPrecision(type, p) == [Declared(type) EXCEPT !.precision = p]

(* The Arrow types of the streams an ingest is given.                      *)
ArrowUnits == {"s", "ms", "us", "ns"}
ArrowKinds == {"boolean", "int8", "int16", "int32", "int64", "uint8", "uint16", "uint32", "uint64",
               "float32", "float64", "string", "binary", "fixed_size_binary", "binary_view",
               "large_binary", "date32", "json", "uuid"}
ArrowType ==
  {<<k>> : k \in ArrowKinds}
    \cup ({"timestamp"} \X ArrowUnits \X BOOLEAN)
    \cup ({"time32", "time64", "duration"} \X ArrowUnits)
    \cup ({"decimal"} \X Nat \X Nat) \cup ({"vector"} \X Nat)

(* The digits asked for; without "(n)" the server uses none.               *)
UnitDigits == [s |-> 0, ms |-> MilliDigits, us |-> MicroDigits, ns |-> MicroDigits]

IntegerOf == [int8 |-> "TINYINT", int16 |-> "SMALLINT", int32 |-> "INT", int64 |-> "BIGINT",
              uint8 |-> "TINYINT", uint16 |-> "SMALLINT", uint32 |-> "INT", uint64 |-> "BIGINT"]

(* Mutant: the sign of an integer is lost.                                 *)
arrowToMariaDBTypeSigned(a) ==
  IF a[1] \in DOMAIN IntegerOf THEN Declared(IntegerOf[a[1]]) ELSE Declared("TEXT")

(* BOOLEAN is a TINYINT; extension types, lists and large strings are      *)
(* TEXT.                                                                   *)
arrowToMariaDBType(a) ==
  CASE a[1] = "boolean" -> Declared("TINYINT")
    [] a[1] \in DOMAIN IntegerOf ->
         [Declared(IntegerOf[a[1]]) EXCEPT !.unsigned = a[1] \in {"uint8", "uint16", "uint32", "uint64"}]
    [] a[1] = "float32" -> Declared("FLOAT")
    [] a[1] = "float64" -> Declared("DOUBLE")
    [] a[1] \in {"binary", "fixed_size_binary", "binary_view"} -> Declared("BLOB")
    [] a[1] = "large_binary" -> Declared("LONGBLOB")
    [] a[1] = "date32" -> Declared("DATE")
    [] a[1] = "timestamp" -> WithPrecision(IF a[3] THEN "TIMESTAMP" ELSE "DATETIME", UnitDigits[a[2]])
    [] a[1] \in {"time32", "time64", "duration"} -> WithPrecision("TIME", UnitDigits[a[2]])
    [] a[1] = "decimal" -> [Declared("DECIMAL") EXCEPT !.precision = a[2], !.scale = a[3]]
    [] OTHER -> Declared("TEXT")
=============================================================================
