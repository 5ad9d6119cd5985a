\* Two options of either type on a database and a connection.
SPECIFICATION Spec
CONSTANTS
  Threads = {t1}
  Databases = {d1}
  Connections = {c1}
  Statements = {}
  Streams = {}
  Keys = {k1, k2}
  StringVals = {sv}
  TypedVals = {iv}
  MaxHandles = 2
  Null = Null
INVARIANT
  OptionsDelivered
