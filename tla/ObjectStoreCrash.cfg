\* One PUT and a crash.
CONSTANTS
    Requests = {r1}
    Ops = {"PutObject"}
    Buckets = {b1}
    Keys = {k1}
    Bodies = {v1, v2}
    None = None
    Partial = Partial
SPECIFICATION Spec
INVARIANT PutCrashHarmless
