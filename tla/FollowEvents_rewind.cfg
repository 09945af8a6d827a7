\* The source may repeat a batch that ends below the last stored block.
SPECIFICATION RewindSpec
CONSTANTS
    k1 = k1  k2 = k2  o1 = o1  o2 = o2  b1 = b1  b2 = b2
    Key = {k1}
    Address = {o1}
    Body = {b1}
    Attributes <- MCAttributes
    BTL = {1}
    Wrap = 1024
    IndexBase = 4
    BlockContents <- MCBlockContents
    MCMaxOps = 1
    MaxBlock = 3
    MaxBatch = 2
    MaxFailures = 0
INVARIANTS ProcessedBlocksSkipped
