\* Two threads over one database, two connections, a statement and a stream.
SPECIFICATION Spec
CONSTANTS
  Threads = {t1, t2}
  Databases = {d1}
  Connections = {c1, c2}
  Statements = {s1}
  Streams = {r1}
  Keys = {}
  StringVals = {sv}
  TypedVals = {iv}
  MaxHandles = 4
  Null = Null
SYMMETRY Symmetry
INVARIANTS
  HandlesOwned
  OpenedObjectsClosed
  NoUseAfterRelease
  PoisonStopsObjects
PROPERTY
  PoisonFreezes
  ImplementsLifecycle
