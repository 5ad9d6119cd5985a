\* What adbc.h says of a Cancel without an operation to cancel.
SPECIFICATION Spec
CONSTANTS
  Threads = {t1}
  MaxContexts = 2
  None = None
INVARIANT ConnectionCancelHonest
