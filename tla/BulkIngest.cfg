\* Two ingests; at most 6 placeholders: 4 columns allow one row, 7 none.
SPECIFICATION FairSpec
CONSTANTS
  MaxPlaceholders = 6
  DefaultBatchSize = 2
  Columns = {0, 2, 4, 7}
  BatchSizes = {0, 1, 5}
  MaxRows = 4
  MaxIngests = 2
INVARIANTS
  PlaceholderLimit
  ExistingRowsKept
  NoGap
  IngestLands
  RollbackUndoes
PROPERTY
  EveryIngestEnds
