\* Three threads: two calls that overlap and a Cancel.
SPECIFICATION Spec
CONSTANTS
  Threads = {t1, t2, t3}
  MaxContexts = 4
  None = None
SYMMETRY Symmetry
INVARIANTS
  TypeOK
  StatementCancelHonest
  StatementCancelNotDenied
  ExecutionsUndisturbed
