\* Any three of eight keys and two strays put, deleted or dropped, and one
\* listing, in pages of one or two, during which the bucket changes twice.  The
\* system stops when the listing has ended and the bounds are reached.
CONSTANTS
    Scalars <- MCScalars
    NoKey = NoKey
    Slash = 3
    Dot = 2
    Percent = 1
    Illegal <- MCIllegal
    Devices <- MCDevices
    Keys <- MCKeys
    Strays <- MCStrays
    Queries <- MCQueries
    MaxUsed = 3
    MaxChanges = 2
SPECIFICATION Spec
INVARIANTS
    TypeOK
    ListedOnce
    FilesHoldKeys
    RefusedOnConflict
CHECK_DEADLOCK FALSE
