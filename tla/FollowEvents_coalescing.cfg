\* Two blocks of up to three operations on one entity.
SPECIFICATION Spec
CONSTANTS
    k1 = k1  k2 = k2  o1 = o1  o2 = o2  b1 = b1  b2 = b2
    Key = {k1}
    Address = {o1, o2}
    Body = {b1, b2}
    Attributes <- MCAttributes
    BTL = {1}
    Wrap = 1024
    IndexBase = 4
    BlockContents <- MCBlockContents
    MCMaxOps = 3
    MaxBlock = 2
    MaxBatch = 2
    MaxFailures = 0
SYMMETRY Symmetric
INVARIANTS Consistent SequencesAscend
PROPERTIES ImplementsLedger
