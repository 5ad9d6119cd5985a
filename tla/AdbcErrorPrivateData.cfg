\* What adbc.h says of private_data.
SPECIFICATION Spec
CONSTANTS
  Errors = {e1}
  Streams = {}
  Blocks = {b1, b2}
  Codes = {NoCode, c1}
  NoCode = NoCode
  PrivateData = PrivateData
  MaxDetails = 1
  Null = Null
INVARIANT PrivateDataSet
