\* Every call on a session that may be lost; two rows to write.
SPECIFICATION FairSpec
CONSTANTS
  Rows = {r1, r2}
  Calls = {"SetIsolationLevel", "GetIsolationLevel", "GetCurrentCatalog", "SetCurrentCatalog",
           "PrepareDriverInfo", "GetTableSchema", "GetObjects", "GetStatistics",
           "ExecuteQuery", "ExecuteUpdate", "SetAutocommit", "Commit", "Rollback"}
  Catalogs = {a}
  Levels = {"default", "read_committed", "snapshot", "invalid"}
  GlobalIsolation = "REPEATABLE READ"
  None = None
INVARIANTS
  WireDiscipline
  IsolationReported
  ModesAgree
  Promises
PROPERTIES
  EveryCallReturns
  ImplementsTransactions
