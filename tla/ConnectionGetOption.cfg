\* What adbc.h says of Cancel and GetOption during another call.
SPECIFICATION Spec
CONSTANTS
  Threads = {t1, t2}
  MaxContexts = 3
  None = None
INVARIANT ConnectionCallsUndisturbed
