\* Up to two bitmaps or entities at a time.
SPECIFICATION Spec
CONSTANTS
    Base = 64
    LenWidth = 1
    NumWidth = 2
    KeyWidth = 2
    JSONWidth = 2
    JSON <- MCJSON
    UTF8 <- MCUTF8
    Dollar <- MCDollar
    Addresses <- MCAddresses
    Records <- MCRecords
    Id <- MCId
    Attribute <- MCAttribute
    Includes <- MCIncludes
    MaxStored = 2
INVARIANTS LookupExact ScanExact CountExact DecodeReverses ShowsWhatIsAsked
