\* The source never runs dry; up to two errors or crashes.  No symmetry.
SPECIFICATION FairSpec
CONSTANTS
    k1 = k1  k2 = k2  o1 = o1  o2 = o2  b1 = b1  b2 = b2
    Key = {k1}
    Address = {o1, o2}
    Body = {b1}
    Attributes <- MCAttributes
    BTL = {1}
    Wrap = 1024
    IndexBase = 4
    BlockContents <- MCBlockContents
    MCMaxOps = 1
    MaxBlock = 3
    MaxBatch = 2
    MaxFailures = 2
PROPERTIES CatchesUp
