\* Two requests of any kind, at once or one after the other, on one bucket of
\* two keys, with crashes, restarts, hang-ups, faults and reindexing.
CONSTANTS
    Buckets = {b1}
    Keys = {k1, k2}
    Bodies = {v1, v2}
    Requests = {r1, r2}
    Ops = {"CreateBucket", "DeleteBucket", "PutObject", "CopyObject",
           "GetObject", "HeadObject", "DeleteObject", "DeleteObjects"}
    None = None
    Partial = Partial
SPECIFICATION Spec
SYMMETRY Symmetry
INVARIANTS
    TypeOK
    Settled
    NoStrayRows
    CleanReads
    NoTempLeft
    EventsMatchEffects
PROPERTIES
    ReindexOnlyAdopts
    ImplementsCatalogue
