\* Any number of requests, two at a time, on one upload of two parts.
CONSTANTS
    a = a
    b = b
    Uploads = {u1}
    PartNumbers = {1, 2}
    Bodies = {a, b}
    Objects = {o1}
    Submissions <- SomeLists
    Handlers = {h1, h2}
    None = None
SPECIFICATION Spec
SYMMETRY Symmetry
INVARIANTS
    TypeOK
    PartsSettled
    ObjectsWhole
    CompleteStoresList
    NothingLeft
    EndsOnce
