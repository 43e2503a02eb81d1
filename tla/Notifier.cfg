\* Two events for two destinations of a bucket that is deleted and created
\* again; one restart.  The system stops when the bounds are reached.
CONSTANTS
    Buckets = {b1}
    Changes <- MCChanges
    Drafts <- MCDrafts
    Admins = {a1}
    None = None
    MaxEvents = 2
    MaxMade = 2
    MaxBirths = 2
    MaxBoots = 2
SPECIFICATION Spec
INVARIANTS
    TypeOK
    BucketStateDies
    OnceEachInOrder
    OnlyToSubscribers
    NobodyForgotten
PROPERTY TasksEnd
CHECK_DEADLOCK FALSE
