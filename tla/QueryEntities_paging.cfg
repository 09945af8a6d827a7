\* A store of up to four entities and three blocks that changes under a client
\* that pages with every page size.
SPECIFICATION FairSpec
CONSTANTS
    ResultsPerPage = {1, 3, 9}
    QueryResultCountLimit = 3
    ChunkSize = 2
    MaxResultBytes = 2
    RowBytes = {1, 3}
    AtBlock = {2, 9}
    Counter = {1, 2, 3, 4, 5}
    Height = {0, 1, 2, 3}
INVARIANTS TypeOK NewestFirstOnce NothingMissed NoNewcomers SnapshotCoversAtBlock
PROPERTIES EveryRequestAnswered
