\* Two PUTs of one key at once.
CONSTANTS
    Requests = {r1, r2}
    Ops = {"PutObject"}
    Buckets = {b1}
    Keys = {k1}
    Bodies = {v1, v2}
    None = None
    Partial = Partial
SPECIFICATION Spec
INVARIANT EtagIsMd5OfBody
