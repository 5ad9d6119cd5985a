\* Two errors of the application and one stream; six addresses.
SPECIFICATION Spec
CONSTANTS
  Errors = {e1, e2}
  Streams = {s1}
  Blocks = {b1, b2, b3, b4, b5, b6}
  Codes = {NoCode, c1}
  NoCode = NoCode
  PrivateData = PrivateData
  MaxDetails = 2
  Null = Null
SYMMETRY Symmetry
INVARIANTS
  ErrorMemoryExact
  StreamErrorCurrent
