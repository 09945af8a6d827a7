\* A page size of zero is accepted.  The request never ends once something matches.
SPECIFICATION FairSpec
CONSTANTS
    ResultsPerPage = {0, 1}
    QueryResultCountLimit = 2
    ChunkSize = 1
    MaxResultBytes = 2
    RowBytes = {1, 3}
    AtBlock = {0, 2, 9}
    Counter = {1, 2, 3}
    Height = {0, 1, 2, 3}
PROPERTIES EveryRequestAnswered
