\* One metadata call on schemas that other sessions change between its queries.
SPECIFICATION MetadataSpec
CONSTANTS
  Catalogs = {"a", "b"}
  Tables = {"s", "t"}
  Columns = {"k"}
  Keys = {"rows", "data"}
  Cardinalities = {3, 5}
  Worlds <- StatisticsWorlds
  ObjectsWorlds <- MCObjectsWorlds
  ObjectsRequests <- MCObjectsRequests
  SchemaWorlds <- MCSchemaWorlds
  SchemaArrowTypes <- MCSchemaArrowTypes
  Null = Null
  MaxDecimal = 38
  MilliDigits = 3
  MicroDigits = 6
  None = None
  Table = "t"
  MaxInt32 = 127
  MaxText = 255
  CaseInsensitive = FALSE
  Alphabet = {"n", "quote", "backslash", "comma", "blank", "(", ")"}
  MaxValues = 2
  MaxLength = 2
INVARIANTS
  NoPanic
  StatisticsExact
  ObjectsExact
  ConstraintsExact
  SchemasAgree
  JsonExact
  IngestTypesKept
  ValuesExact
PROPERTY
  CallReturns
CHECK_DEADLOCK FALSE
