\* Three blocks of at most one operation; numbers wrap at 4.
SPECIFICATION AnySpec
CONSTANTS
    k1 = k1  k2 = k2  o1 = o1  o2 = o2  b1 = b1  b2 = b2
    Key = {k1, k2}
    Address = {o1, o2}
    Body = {b1, b2}
    Attributes <- MCAttributes
    BTL = {0, 3}
    Wrap = 4
    IndexBase = 2
    BlockContents <- MCBlockContents
    MCMaxOps = 1
    MaxBlock = 3
    MaxBatch = 2
    MaxFailures = 1
SYMMETRY Symmetric
INVARIANTS IndexComplete EntityCountExact
PROPERTIES ImplementsLedger
