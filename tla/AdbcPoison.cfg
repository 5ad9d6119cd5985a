\* What the comment of globalPoison says, on the smallest instance.
SPECIFICATION Spec
CONSTANTS
  Threads = {t1}
  Databases = {d1}
  Connections = {c1}
  Statements = {s1}
  Streams = {r1}
  Keys = {}
  StringVals = {sv}
  TypedVals = {iv}
  MaxHandles = 4
  Null = Null
INVARIANT PoisonStopsEveryCall
