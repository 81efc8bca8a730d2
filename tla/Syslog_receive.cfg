\* A cache of two ids, a text limit of five bytes, names of four.
SPECIFICATION Spec
CONSTANTS
    MaxText = 5
    MaxHostname = 4
    MaxAppName = 3
    Stamps = {"t1"}
    MaxSources = 2
    Forwarded <- MCForwarded
    Others <- MCOthers
    Address <- MCAddress
    Shipping <- MCShipping
    StoreFails = TRUE
    None = None
INVARIANTS TypeOK CacheTrue ReadBack
PROPERTY KnownKeepsVersion
