\* Every sequence of blocks of up to one operation over two keys, in batches
\* of up to two blocks, one of which may fail.
SPECIFICATION Spec
CONSTANTS
    k1 = k1  k2 = k2  o1 = o1  o2 = o2  b1 = b1  b2 = b2
    Key = {k1, k2}
    Address = {o1, o2}
    Body = {b1, b2}
    Attributes <- MCAttributes
    BTL = {0, 1}
    Wrap = 1024
    IndexBase = 4
    BlockContents <- MCBlockContents
    MCMaxOps = 1
    MaxBlock = 3
    MaxBatch = 2
    MaxFailures = 1
    StringLess <- MCStringLess
    GlobMatches <- MCGlobMatches
    Queries <- MCQueries
SYMMETRY KeySymmetry
INVARIANTS TypeOK PayloadsConsistent SecondaryIndexExact EntityCountExact IdsNotReallocated IdOrderIsSequenceOrder ProcessedBlocksSkipped AnswersExact
PROPERTIES IdsNeverReused CreationAttributesFixed ImplementsCommittedStore
